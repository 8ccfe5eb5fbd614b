----------------------------- MODULE Club_proofs -----------------------------
(***************************************************************************)
(* Proofs about a club's books: types, the ledger, operations that are      *)
(* repeated, stakes that are settled, chips on a table, and promised chips.  *)
(***************************************************************************)
EXTENDS Club, ProofLemmas, FiniteSetTheorems

(* The calls in which something of a call is left to do.                    *)
Holding == {"queued", "seating", "signing", "staking", "unseating"}

(* What a call has at hand where it is.                                     *)
CallOK(k) ==
    /\ k.pc \notin Ended => k.req \in Requests
    /\ k.pc \in {"signing", "inviting"} => k.next \in ClubState
    /\ k.pc = "reclaiming" => k.reclaim # {}
    /\ k.reclaim # {} => /\ k.pc \in {"reclaiming", "queued", "signing"}
                         /\ k.req.op \in {"sit", "lobby"}
    /\ k.pc \in {"seating", "staking", "unseating"} => k.req.op = "sit"
    /\ k.pc = "standing" => k.req.op = "leave"
    /\ k.nonces # {} => k.pc \notin Ended /\ k.req.op = "settle"

(* The line holds each call that works with the ledger or waits for it once; all
   but the first wait.                                                      *)
LineInv ==
    /\ IsInjective(line)
    /\ Range(line) = {c \in Calls : call[c].pc \in Holding}
    /\ \A i \in DOMAIN line : i # 1 => call[line[i]].pc = "queued"

TypeInv ==
    /\ conf \in Confs /\ club \in ClubState
    /\ call \in [Calls -> CallState]
    /\ \A c \in Calls : CallOK(call[c])
    /\ line \in Seq(Calls)
    /\ late \subseteq Nat /\ aged \subseteq Nat /\ issued \in Nat /\ crashes \in Nat
    /\ ~conf.clock => late = {} /\ aged = {}
    /\ LineInv

(* In a hand or a tally chips move between two members, and the rake comes out of
   what was won (settleHand; "what changed hands before the rake came out of the
   winners", settle).  checkTally lets a tally through in which somebody pays a
   rake of more than they won, and who cannot pay it then fails it midway.   *)
WinnersPay ==
    /\ RakeBps <= 10000
    /\ \A r \in Requests : r.op = "settle" => r.rake <= r.amount

-----------------------------------------------------------------------------
(* Operators on the state of a club. *)

LEMMA AccountsFacts ==
    /\ House \in Accounts /\ Members \subseteq Accounts
    /\ \A t \in Tables, m \in Members : <<t, m>> \in Accounts
BY DEF Accounts

(* Closing and forgetting stakes changes nothing else.                      *)
LEMMA CloseFacts ==
    ASSUME NEW b \in ClubState, NEW nonces, NEW fate \in Fates
    PROVE  /\ Close(b, nonces, fate) \in ClubState
           /\ Close(b, nonces, fate).ledger = b.ledger /\ Close(b, nonces, fate).bal = b.bal
           /\ Close(b, nonces, fate).ops = b.ops /\ Close(b, nonces, fate).banned = b.banned
           /\ Close(b, nonces, fate).stakes =
                {IF s.nonce \in nonces /\ s.fate = "open" THEN [s EXCEPT !.fate = fate] ELSE s :
                    s \in b.stakes}
<1> DEFINE st == {IF s.nonce \in nonces /\ s.fate = "open" THEN [s EXCEPT !.fate = fate] ELSE s :
                    s \in b.stakes}
<1>1. b.stakes \subseteq Stake
  BY DEF ClubState
<1>2. ASSUME NEW s \in Stake PROVE [s EXCEPT !.fate = fate] \in Stake
  BY DEF Stake
<1>3. st \subseteq Stake
  BY <1>1, <1>2
<1>4. Close(b, nonces, fate) = [b EXCEPT !.stakes = st]
  BY DEF Close
<1> HIDE DEF st
<1>5. /\ [b EXCEPT !.stakes = st].ledger = b.ledger /\ [b EXCEPT !.stakes = st].bal = b.bal
      /\ [b EXCEPT !.stakes = st].ops = b.ops /\ [b EXCEPT !.stakes = st].banned = b.banned
      /\ [b EXCEPT !.stakes = st].stakes = st /\ [b EXCEPT !.stakes = st] \in ClubState
  BY <1>3 DEF ClubState
<1> QED BY <1>4, <1>5 DEF st

LEMMA PruneFacts ==
    ASSUME NEW b \in ClubState
    PROVE  /\ Prune(b) \in ClubState
           /\ Prune(b).ledger = b.ledger /\ Prune(b).bal = b.bal
           /\ Prune(b).ops = b.ops /\ Prune(b).banned = b.banned
           /\ Prune(b).stakes = {s \in b.stakes : s.fate = "open" \/ s.nonce \notin aged}
BY DEF Prune, ClubState

(* What a call records.                                                     *)
LEMMA RecordFacts ==
    ASSUME NEW b \in ClubState, NEW c \in Calls, call[c] \in CallState, call[c].req \in Request
    PROVE  /\ OpOf(c) \in Op /\ OpOf(c).id = call[c].req.id
           /\ RecordOp(b, c) \in ClubState
           /\ RecordOp(b, c).ledger = b.ledger /\ RecordOp(b, c).bal = b.bal
           /\ RecordOp(b, c).stakes = b.stakes /\ RecordOp(b, c).banned = b.banned
           /\ RecordOp(b, c).ops = b.ops \cup {OpOf(c)}
<1>1. OpOf(c) \in Op /\ OpOf(c).id = call[c].req.id
  BY DEF OpOf, Op, CallState, Request
<1> QED BY <1>1 DEF RecordOp, ClubState

(* The entry that a call appends next.                                      *)
NewEntry(todo, c) ==
    [kind |-> Head(todo).kind, by |-> c, last |-> Tail(todo) = << >>, nonces |-> call[c].nonces,
     id |-> IF call[c].reclaim = {} THEN call[c].req.id ELSE 0]

LEMMA NewEntryFacts ==
    ASSUME NEW c \in Calls, call[c] \in CallState, call[c].req \in Request,
           NEW todo \in Seq(Draft), todo # << >>
    PROVE  /\ NewEntry(todo, c) \in Entry
           /\ Head(todo) \in Draft /\ Tail(todo) \in Seq(Draft)
<1>1. Head(todo) \in Draft /\ Tail(todo) \in Seq(Draft)
  BY HeadTailProperties
<1>2. Head(todo).kind \in Kinds
  BY <1>1 DEF Draft
<1>3. call[c].nonces \in SUBSET Nat /\ call[c].req.id \in Nat
  BY DEF CallState, Request
<1> QED BY <1>1, <1>2, <1>3 DEF NewEntry, Entry, Kinds

LEMMA EnteredFacts ==
    ASSUME NEW b \in ClubState, NEW c \in Calls, call[c] \in CallState, call[c].req \in Request,
           NEW todo \in Seq(Draft), todo # << >>, Valid(Head(todo), b)
    PROVE  /\ Entered(b, todo, c) \in ClubState
           /\ Entered(b, todo, c).ledger = Append(b.ledger, NewEntry(todo, c))
           /\ Entered(b, todo, c).stakes = b.stakes /\ Entered(b, todo, c).ops = b.ops
           /\ Entered(b, todo, c).banned = b.banned
           /\ \A a \in Accounts : Entered(b, todo, c).bal[a] = b.bal[a] + Head(todo).lines[a]
<1> DEFINE led == Append(b.ledger, NewEntry(todo, c))
           bal == [a \in Accounts |-> b.bal[a] + Head(todo).lines[a]]
<1>1. b.ledger \in Seq(Entry) /\ b.bal \in [Accounts -> Nat]
  BY DEF ClubState
<1>2. NewEntry(todo, c) \in Entry /\ Head(todo) \in Draft
  BY NewEntryFacts
<1>3. led \in Seq(Entry)
  BY <1>1, <1>2, AppendFacts
<1>4. Head(todo).lines \in [Accounts -> Int]
  BY <1>2 DEF Draft
<1>5. ASSUME NEW a \in Accounts PROVE b.bal[a] + Head(todo).lines[a] \in Nat
  <2>1. b.bal[a] \in Nat /\ Head(todo).lines[a] \in Int
    BY <1>1, <1>4
  <2>2. Head(todo).lines[a] # 0 => b.bal[a] + Head(todo).lines[a] >= 0
    BY DEF Valid
  <2> QED BY <2>1, <2>2
<1>6. bal \in [Accounts -> Nat]
  BY <1>5
<1>7. Entered(b, todo, c) = [b EXCEPT !.ledger = led, !.bal = bal]
  BY DEF Entered, NewEntry
<1>8. \A a \in Accounts : bal[a] = b.bal[a] + Head(todo).lines[a]
  OBVIOUS
<1> HIDE DEF led, bal
<1> DEFINE e == [b EXCEPT !.ledger = led, !.bal = bal]
<1>9. /\ e.ledger = led /\ e.bal = bal /\ e.ops = b.ops /\ e.banned = b.banned
      /\ e.stakes = b.stakes /\ e \in ClubState
  BY <1>3, <1>6 DEF ClubState
<1> QED BY <1>7, <1>8, <1>9 DEF led

-----------------------------------------------------------------------------
(* The line. *)

(* Only the call c moves.                                                   *)
Moves(c) == call' \in [Calls -> CallState] /\ \A d \in Calls : d # c => call'[d] = call[d]

(* The first in line is at work.                                            *)
LEMMA HeadFacts ==
    ASSUME line \in Seq(Calls), LineInv, line # << >>
    PROVE  /\ Head(line) = line[1] /\ Head(line) \in Calls /\ 1 \in DOMAIN line
           /\ call[Head(line)].pc \in Holding
           /\ \A d \in Calls : call[d].pc \in Holding /\ d # Head(line) => call[d].pc = "queued"
<1>1. /\ Head(line) = line[1] /\ Head(line) \in Calls /\ 1 \in DOMAIN line
  BY HeadTailProperties, LenProperties, EmptySeq
<1>2. \A d \in Calls : call[d].pc \in Holding => \E i \in DOMAIN line : line[i] = d
  BY DEF LineInv, Range
<1>3. line[1] \in Range(line)
  BY <1>1 DEF Range
<1> QED BY <1>1, <1>2, <1>3 DEF LineInv

LEMMA InLine ==
    ASSUME line \in Seq(Calls), LineInv, NEW c \in Calls,
           call[c].pc \in Holding \ {"queued"}
    PROVE  line # << >> /\ Head(line) = c
<1>1. c \in Range(line)
  BY DEF LineInv
<1>2. line # << >>
  BY <1>1 DEF Range
<1> QED BY <1>2, HeadFacts

(* A call that is at work goes on.                                          *)
LEMMA LineStays ==
    ASSUME line \in Seq(Calls), LineInv, NEW c \in Calls, Moves(c), UNCHANGED line,
           line # << >>, Head(line) = c, call'[c].pc \in Holding
    PROVE  LineInv'
<1>1. Head(line) = line[1] /\ 1 \in DOMAIN line /\ call[c].pc \in Holding
  BY HeadFacts
<1>2. \A i \in DOMAIN line : line[i] \in Calls /\ (i # 1 => line[i] # c)
  BY <1>1, SeqEntries DEF LineInv, IsInjective
<1>3. {d \in Calls : call'[d].pc \in Holding} = {d \in Calls : call[d].pc \in Holding}
  BY <1>1 DEF Moves
<1>4. \A i \in DOMAIN line : i # 1 => call'[line[i]].pc = "queued"
  BY <1>2 DEF Moves, LineInv
<1> QED BY <1>3, <1>4 DEF LineInv

(* A call that does not hold the ledger, nor waits for it, goes on elsewhere.  *)
LEMMA LineApart ==
    ASSUME line \in Seq(Calls), LineInv, NEW c \in Calls, Moves(c), UNCHANGED line,
           call[c].pc \notin Holding, call'[c].pc \notin Holding
    PROVE  LineInv'
<1>1. {d \in Calls : call'[d].pc \in Holding} = {d \in Calls : call[d].pc \in Holding}
  BY DEF Moves
<1>2. ASSUME NEW i \in DOMAIN line, i # 1 PROVE call'[line[i]].pc = "queued"
  <2>1. line[i] \in Calls /\ line[i] \in Range(line)
    BY SeqEntries DEF Range
  <2>2. line[i] # c
    BY <2>1 DEF LineInv
  <2> QED BY <1>2, <2>1, <2>2 DEF Moves, LineInv
<1> QED BY <1>1, <1>2 DEF LineInv

(* The first call is answered, and the next one may begin.                   *)
LEMMA LinePops ==
    ASSUME line \in Seq(Calls), LineInv, NEW c \in Calls, Moves(c), line' = Tail(line),
           line # << >>, Head(line) = c, call'[c].pc \notin Holding
    PROVE  line' \in Seq(Calls) /\ LineInv'
<1>1. /\ line' \in Seq(Calls) /\ IsInjective(line') /\ Range(line') = Range(line) \ {c}
  BY TailMembers DEF LineInv
<1>2. \A i \in DOMAIN line' : i + 1 \in DOMAIN line /\ line'[i] = line[i + 1] /\ i \in Nat /\ i # 0
  BY HeadTailProperties, LenProperties, EmptySeq
<1>3. {d \in Calls : call'[d].pc \in Holding} = {d \in Calls : call[d].pc \in Holding} \ {c}
  BY DEF Moves
<1>4. ASSUME NEW i \in DOMAIN line' PROVE call'[line'[i]].pc = "queued"
  <2>1. call[line'[i]].pc = "queued"
    BY <1>2 DEF LineInv
  <2>2. line'[i] \in Range(line') /\ line'[i] \in Calls
    BY <1>1, SeqEntries DEF Range
  <2> QED BY <1>1, <2>1, <2>2 DEF Moves
<1> QED BY <1>1, <1>3, <1>4 DEF LineInv

(* A call joins the line, which it was not in or which it has just left.     *)
LEMMA LineJoins ==
    ASSUME line \in Seq(Calls), LineInv, NEW c \in Calls, Moves(c), call'[c].pc = "queued",
           \/ call[c].pc \notin Holding /\ line' = Append(line, c)
           \/ line # << >> /\ Head(line) = c /\ line' = Append(Tail(line), c)
    PROVE  line' \in Seq(Calls) /\ LineInv'
<1>1. PICK rest \in Seq(Calls) :
        /\ line' = Append(rest, c) /\ IsInjective(rest) /\ Range(rest) = Range(line) \ {c}
        /\ \A i \in DOMAIN rest : i # 1 => call[rest[i]].pc = "queued"
  <2>1. CASE call[c].pc \notin Holding /\ line' = Append(line, c)
    BY <2>1 DEF LineInv
  <2>2. CASE line # << >> /\ Head(line) = c /\ line' = Append(Tail(line), c)
    <3>1. Tail(line) \in Seq(Calls) /\ IsInjective(Tail(line)) /\ Range(Tail(line)) = Range(line) \ {c}
      BY <2>2, TailMembers DEF LineInv
    <3>2. \A i \in DOMAIN Tail(line) : /\ i + 1 \in DOMAIN line /\ Tail(line)[i] = line[i + 1]
                                       /\ i \in Nat /\ i # 0
      BY <2>2, HeadTailProperties, LenProperties, EmptySeq
    <3>3. \A i \in DOMAIN Tail(line) : call[Tail(line)[i]].pc = "queued"
      BY <3>2 DEF LineInv
    <3> QED BY <2>2, <3>1, <3>3
  <2> QED BY <2>1, <2>2
<1>2. /\ line' \in Seq(Calls) /\ Range(line') = Range(rest) \cup {c} /\ IsInjective(line')
  BY <1>1, AppendMembers
<1>3. Range(line') = {d \in Calls : call'[d].pc \in Holding}
  <2>1. Range(line) \cup {c} = {d \in Calls : call[d].pc \in Holding} \cup {c}
    BY DEF LineInv
  <2> QED BY <1>1, <1>2, <2>1 DEF Moves, Holding
<1>4. ASSUME NEW i \in DOMAIN line', i # 1 PROVE call'[line'[i]].pc = "queued"
  <2>1. (i \in DOMAIN rest /\ line'[i] = rest[i]) \/ line'[i] = c
    BY <1>1, AppendFacts
  <2>2. CASE i \in DOMAIN rest /\ line'[i] = rest[i]
    <3>1. rest[i] \in Calls /\ rest[i] \in Range(rest)
      BY <2>2, SeqEntries DEF Range
    <3> QED BY <1>1, <1>4, <2>2, <3>1 DEF Moves
  <2> QED BY <2>1, <2>2
<1> QED BY <1>2, <1>3, <1>4 DEF LineInv

-----------------------------------------------------------------------------
(* Draft. *)

LEMMA PayFacts ==
    ASSUME NEW kind \in Kinds, NEW from \in Accounts, NEW to \in Accounts, NEW amount \in Nat
    PROVE  /\ Pay(kind, from, to, amount) \in Draft
           /\ Pay(kind, from, to, amount).kind = kind
           /\ from # to => Pay(kind, from, to, amount).lines[to] = amount
           /\ \A a \in Accounts : Pay(kind, from, to, amount).lines[a] > 0 => a = to
<1> DEFINE f == [a \in Accounts |-> (IF a = to THEN amount ELSE 0)
                                      - (IF a = from THEN amount ELSE 0)]
<1>1. \A a \in Accounts : f[a] = (IF a = to THEN amount ELSE 0) - (IF a = from THEN amount ELSE 0)
  OBVIOUS
<1>2. f \in [Accounts -> Int]
  OBVIOUS
<1>3. Pay(kind, from, to, amount) = [kind |-> kind, lines |-> f]
  BY DEF Pay
<1> HIDE DEF f
<1> QED BY <1>1, <1>2, <1>3 DEF Draft

LEMMA BurnFacts ==
    ASSUME NEW from \in Accounts, NEW amount \in Nat
    PROVE  /\ Burn(from, amount) \in Draft
           /\ Burn(from, amount).kind = "burn"
           /\ \A a \in Accounts : Burn(from, amount).lines[a] = IF a = from THEN -amount ELSE 0
<1> DEFINE f == [a \in Accounts |-> IF a = from THEN -amount ELSE 0]
<1>1. f \in [Accounts -> Int] /\ \A a \in Accounts : f[a] = IF a = from THEN -amount ELSE 0
  OBVIOUS
<1>2. Burn(from, amount) = [kind |-> "burn", lines |-> f]
  BY DEF Burn
<1> HIDE DEF f
<1> QED BY <1>1, <1>2 DEF Draft, Kinds

(* The drafts that a call goes into the ledger with: none, one, or a result and
   the burn of a rake, which the winner can pay from it.                    *)
OneDraft(todo)   == \E d \in Draft : /\ WinnersPay => d.kind # "burn"
                                     /\ todo = <<d>>
HandDrafts(todo) == \E d \in Draft, a \in Accounts, k \in Nat :
                       /\ d.kind = "result" /\ todo = <<d, Burn(a, k)>>
                       /\ WinnersPay => d.lines[a] >= k
Drafted(todo) == todo \in Seq(Draft) /\ (todo = << >> \/ OneDraft(todo) \/ HandDrafts(todo))

LEMMA DraftedOne ==
    ASSUME NEW d \in Draft, WinnersPay => d.kind # "burn" PROVE Drafted(<<d>>)
<1>1. <<d>> \in Seq(Draft)
  OBVIOUS
<1>2. OneDraft(<<d>>)
  BY DEF OneDraft
<1> QED BY <1>1, <1>2 DEF Drafted

LEMMA CashOutFacts ==
    ASSUME NEW b \in ClubState, NEW t \in Tables, NEW m \in Members
    PROVE  /\ Drafted(CashOut(b, t, m))
           /\ CashOut(b, t, m) # << >> =>
                /\ \A a \in Accounts : Head(CashOut(b, t, m)).lines[a] > 0 => a = m
                /\ Tail(CashOut(b, t, m)) = << >>
<1>1. Stack(b, t, m) \in Nat
  BY AccountsFacts DEF Stack, ClubState
<1>2. m \in Accounts /\ <<t, m>> \in Accounts
  BY AccountsFacts
<1>3. CASE Stack(b, t, m) > 0
  <2> DEFINE d == Pay("cash-out", <<t, m>>, m, Stack(b, t, m))
  <2>1. /\ d \in Draft /\ d.kind = "cash-out"
        /\ \A a \in Accounts : d.lines[a] > 0 => a = m
    <3>1. "cash-out" \in Kinds
      BY DEF Kinds
    <3> QED BY <1>1, <1>2, <3>1, PayFacts
  <2>2. CashOut(b, t, m) = <<d>>
    BY <1>3 DEF CashOut
  <2> HIDE DEF d
  <2>3. Drafted(<<d>>)
    BY <2>1, DraftedOne
  <2> QED BY <2>1, <2>2, <2>3
<1>4. CASE ~(Stack(b, t, m) > 0)
  <2>1. CashOut(b, t, m) = << >> /\ << >> \in Seq(Draft)
    BY <1>4 DEF CashOut
  <2> QED BY <2>1 DEF Drafted
<1> QED BY <1>3, <1>4

LEMMA HandFacts ==
    ASSUME NEW r \in Request, NEW from \in Accounts, NEW to \in Accounts, from # to,
           NEW rake \in Nat, WinnersPay => rake <= r.amount
    PROVE  /\ Drafted(Hand(r, from, to, rake))
           /\ Hand(r, from, to, rake) # << >> =>
                \A a \in Accounts : Head(Hand(r, from, to, rake)).lines[a] > 0 => a = to
<1> DEFINE d == Pay("result", from, to, r.amount)
           b == Burn(to, rake)
<1>1. r.amount \in Nat
  BY DEF Request
<1>2. /\ d \in Draft /\ d.kind = "result" /\ d.lines[to] = r.amount
      /\ \A a \in Accounts : d.lines[a] > 0 => a = to
      /\ b \in Draft /\ \A a \in Accounts : ~(b.lines[a] > 0)
  <2>1. "result" \in Kinds
    BY DEF Kinds
  <2> QED BY <1>1, <2>1, PayFacts, BurnFacts
<1>3. CASE r.amount > 0 /\ rake > 0
  <2>1. Hand(r, from, to, rake) = <<d>> \o <<b>>
    BY <1>3 DEF Hand
  <2>2. <<d>> \o <<b>> = <<d, b>>
    <3> HIDE DEF d, b
    <3> QED BY TwoEntries
  <2>3. HandDrafts(<<d, b>>)
    <3>1. WinnersPay => d.lines[to] >= rake
      BY <1>1, <1>2
    <3> HIDE DEF d
    <3> QED BY <1>2, <3>1 DEF HandDrafts
  <2> HIDE DEF d, b
  <2>4. <<d, b>> \in Seq(Draft) /\ Head(<<d, b>>) = d
    BY <1>2
  <2> QED BY <1>2, <2>1, <2>2, <2>3, <2>4 DEF Drafted
<1>4. CASE r.amount > 0 /\ ~(rake > 0)
  <2>1. Hand(r, from, to, rake) = <<d>> \o << >>
    BY <1>4 DEF Hand
  <2> HIDE DEF d
  <2>2. <<d>> \o << >> = <<d>> /\ Head(<<d>>) = d
    OBVIOUS
  <2>3. Drafted(<<d>>)
    BY <1>2, DraftedOne
  <2> QED BY <1>2, <2>1, <2>2, <2>3
<1>5. CASE ~(r.amount > 0) /\ rake > 0
  <2>1. Hand(r, from, to, rake) = << >> \o <<b>>
    BY <1>5 DEF Hand
  <2>2. ~WinnersPay
    BY <1>1, <1>5
  <2> HIDE DEF b
  <2>3. << >> \o <<b>> = <<b>> /\ Head(<<b>>) = b
    BY <1>2
  <2>4. Drafted(<<b>>)
    BY <1>2, <2>2, DraftedOne
  <2> QED BY <1>2, <2>1, <2>3, <2>4
<1>6. CASE ~(r.amount > 0) /\ ~(rake > 0)
  <2>1. Hand(r, from, to, rake) = << >> /\ << >> \in Seq(Draft)
    BY <1>6 DEF Hand
  <2> QED BY <2>1 DEF Drafted
<1> QED BY <1>3, <1>4, <1>5, <1>6

-----------------------------------------------------------------------------
(* Types. *)

(* A call that works with the ledger goes on with something.                *)
AtWork(c) == /\ TypeInv /\ c \in Calls /\ line # << >> /\ Head(line) = c
             /\ call[c].req \in Requests

LEMMA RecordAfter ==
    ASSUME TypeInv, NEW c \in Calls, NEW k \in CallState, CallOK(k),
           call' = [call EXCEPT ![c] = k]
    PROVE  /\ Moves(c) /\ call'[c] = k /\ \A d \in Calls : CallOK(call'[d])
BY DEF TypeInv, Moves

LEMMA EndedOK ==
    ASSUME NEW pc \in Ended
    PROVE  /\ [NewCall EXCEPT !.pc = pc] \in CallState /\ CallOK([NewCall EXCEPT !.pc = pc])
           /\ [NewCall EXCEPT !.pc = pc].pc = pc
<1> DEFINE k == [NewCall EXCEPT !.pc = pc]
<1>1. << >> \in Seq(Draft) /\ pc \in PCs /\ "new" \in PCs
  BY DEF Ended, PCs
<1>2. NewCall \in CallState /\ NewCall.reclaim = {} /\ NewCall.nonces = {}
  BY <1>1 DEF CallState, NewCall
<1>3. k \in CallState /\ k.pc = pc /\ k.reclaim = {} /\ k.nonces = {}
  BY <1>1, <1>2 DEF CallState
<1> HIDE DEF k
<1>4. CallOK(k)
  BY <1>3 DEF CallOK, Ended
<1> QED BY <1>3, <1>4 DEF k

LEMMA AnswerTyped ==
    ASSUME NEW c, AtWork(c), NEW pc \in Ended, Answer(c, pc)
    PROVE  /\ Moves(c) /\ call'[c].pc = pc /\ call'[c].pc \notin Holding
           /\ \A d \in Calls : CallOK(call'[d])
           /\ line' \in Seq(Calls) /\ LineInv'
<1>1. /\ Moves(c) /\ call'[c] = [NewCall EXCEPT !.pc = pc] /\ line' = Tail(line)
      /\ \A d \in Calls : CallOK(call'[d])
  BY EndedOK, RecordAfter DEF Answer, AtWork
<1>2. call'[c].pc = pc /\ call'[c].pc \notin Holding
  BY <1>1, EndedOK DEF Holding, Ended
<1> QED BY <1>1, <1>2, LinePops DEF AtWork, TypeInv

LEMMA GoesTyped ==
    ASSUME NEW c, AtWork(c), NEW pc \in {"seating", "staking", "unseating"}, Goes(c, pc),
           call[c].reclaim = {}, call[c].req.op = "sit", UNCHANGED line
    PROVE  /\ Moves(c) /\ call'[c] = [call[c] EXCEPT !.pc = pc]
           /\ \A d \in Calls : CallOK(call'[d])
           /\ line' \in Seq(Calls) /\ LineInv'
<1> DEFINE k == [call[c] EXCEPT !.pc = pc]
<1>1. call[c] \in CallState /\ CallOK(call[c])
  BY DEF AtWork, TypeInv
<1>2. /\ k \in CallState /\ k.pc = pc /\ k.req = call[c].req /\ k.reclaim = {}
      /\ k.nonces = call[c].nonces
  BY <1>1 DEF CallState, PCs
<1>3. call' = [call EXCEPT ![c] = k]
  BY DEF Goes
<1> HIDE DEF k
<1>4. CallOK(k)
  BY <1>1, <1>2 DEF CallOK, AtWork, Ended
<1>5. Moves(c) /\ call'[c] = k /\ \A d \in Calls : CallOK(call'[d])
  BY <1>2, <1>3, <1>4, RecordAfter DEF AtWork
<1>6. LineInv'
  BY <1>2, <1>5, LineStays DEF AtWork, TypeInv, Holding
<1> QED BY <1>5, <1>6 DEF k, AtWork, TypeInv

(* The next stake is reclaimed, from the ledger (the first in line) or from the
   registry of tables (a call that is not in line).                         *)
LEMMA ReclaimsTyped ==
    ASSUME TypeInv, NEW c \in Calls, call[c].req \in Requests, call[c].reclaim # {},
           NEW rest \in SUBSET Stake, NEW others, Reclaims(c, rest, others),
           \/ AtWork(c) /\ others = Tail(line)
           \/ call[c].pc = "reclaiming" /\ others = line
    PROVE  /\ Moves(c) /\ call'[c].pc \in {"reclaiming", "queued", "ok"}
           /\ call'[c].pc = "queued" => call'[c].reclaim = {} /\ call'[c].req = call[c].req
           /\ call'[c].nonces \in {call[c].nonces, {}}
           /\ \A d \in Calls : CallOK(call'[d])
           /\ line' \in Seq(Calls) /\ LineInv'
<1>1. call[c] \in CallState /\ CallOK(call[c]) /\ line \in Seq(Calls) /\ LineInv
  BY DEF TypeInv
<1>2. CASE rest = {} /\ call[c].req.op # "sit"
  <2>1. call' = [call EXCEPT ![c] = [NewCall EXCEPT !.pc = "ok"]] /\ line' = others
    BY <1>2 DEF Reclaims
  <2>2. "ok" \in Ended
    BY DEF Ended
  <2>3. /\ Moves(c) /\ call'[c] = [NewCall EXCEPT !.pc = "ok"]
        /\ \A d \in Calls : CallOK(call'[d])
    BY <2>1, <2>2, EndedOK, RecordAfter
  <2>4. call'[c].pc = "ok" /\ call'[c].nonces = {} /\ call'[c].pc \notin Holding
    BY <2>3 DEF NewCall, Holding
  <2>5. line' \in Seq(Calls) /\ LineInv'
    <3>1. CASE AtWork(c) /\ others = Tail(line)
      BY <1>1, <2>1, <2>3, <2>4, <3>1, LinePops DEF AtWork
    <3>2. CASE call[c].pc = "reclaiming" /\ others = line
      BY <1>1, <2>1, <2>3, <2>4, <3>2, LineApart DEF Holding
    <3> QED BY <3>1, <3>2
  <2> QED BY <2>3, <2>4, <2>5
<1>3. CASE ~(rest = {} /\ call[c].req.op # "sit")
  <2> DEFINE pc == IF rest = {} THEN "queued" ELSE "reclaiming"
             k  == [call[c] EXCEPT !.pc = pc, !.reclaim = rest, !.todo = << >>, !.next = NoState]
  <2>1. call' = [call EXCEPT ![c] = k]
    BY <1>3 DEF Reclaims
  <2>2. line' = IF rest = {} THEN Append(others, c) ELSE others
    BY <1>3 DEF Reclaims
  <2>3. << >> \in Seq(Draft)
    OBVIOUS
  <2>4. /\ k \in CallState /\ k.pc = pc /\ k.reclaim = rest /\ k.req = call[c].req
        /\ k.nonces = call[c].nonces
    BY <1>1, <2>3 DEF CallState, PCs
  <2>5. pc \in {"queued", "reclaiming"} /\ (pc = "queued" <=> rest = {})
    OBVIOUS
  <2> HIDE DEF k, pc
  <2>6. CallOK(k)
    BY <1>1, <2>4, <2>5 DEF CallOK, Ended
  <2>7. Moves(c) /\ call'[c] = k /\ \A d \in Calls : CallOK(call'[d])
    BY <2>1, <2>4, <2>6, RecordAfter
  <2>8. line' \in Seq(Calls) /\ LineInv'
    <3>1. CASE rest = {}
      <4>1. call'[c].pc = "queued" /\ line' = Append(others, c)
        BY <2>2, <2>4, <2>5, <2>7, <3>1
      <4> QED BY <1>1, <2>7, <4>1, LineJoins DEF AtWork, Holding
    <3>2. CASE rest # {}
      <4>1. call'[c].pc = "reclaiming" /\ line' = others
        BY <2>2, <2>4, <2>5, <2>7, <3>2
      <4>2. CASE AtWork(c) /\ others = Tail(line)
        BY <1>1, <2>7, <4>1, <4>2, LinePops DEF AtWork, Holding
      <4>3. CASE call[c].pc = "reclaiming" /\ others = line
        BY <1>1, <2>7, <4>1, <4>3, LineApart DEF Holding
      <4> QED BY <4>2, <4>3
    <3> QED BY <3>1, <3>2
  <2> QED BY <2>4, <2>5, <2>7, <2>8
<1> QED BY <1>2, <1>3

LEMMA FinishedFacts ==
    ASSUME NEW b \in ClubState, NEW c \in Calls, call[c] \in CallState, call[c].req \in Request
    PROVE  /\ Finished(c, b) \in ClubState
           /\ Finished(c, b).ledger = b.ledger /\ Finished(c, b).bal = b.bal
           /\ Finished(c, b).banned = b.banned
           /\ Finished(c, b).ops = IF call[c].req.op \in {"settle", "leave", "transfer"}
                                   THEN b.ops \cup {OpOf(c)} ELSE b.ops
           /\ Finished(c, b).stakes =
                IF call[c].req.op = "settle" THEN Prune(Close(b, call[c].nonces, "settled")).stakes
                                             ELSE b.stakes
<1>1. CASE call[c].req.op = "settle"
  <2> DEFINE closed == Close(b, call[c].nonces, "settled")
             kept   == Prune(closed)
  <2>1. "settled" \in Fates
    BY DEF Fates
  <2>2. /\ closed \in ClubState /\ closed.ledger = b.ledger /\ closed.bal = b.bal
        /\ closed.ops = b.ops /\ closed.banned = b.banned
    BY <2>1, CloseFacts
  <2> HIDE DEF closed
  <2>3. /\ kept \in ClubState /\ kept.ledger = b.ledger /\ kept.bal = b.bal
        /\ kept.ops = b.ops /\ kept.banned = b.banned
    BY <2>2, PruneFacts
  <2> HIDE DEF kept
  <2>4. Finished(c, b) = RecordOp(kept, c)
    BY <1>1 DEF Finished, kept, closed
  <2> QED BY <1>1, <2>3, <2>4, RecordFacts DEF kept, closed
<1>2. CASE call[c].req.op \in {"leave", "transfer"}
  <2>1. Finished(c, b) = RecordOp(b, c)
    BY <1>2 DEF Finished
  <2> QED BY <1>2, <2>1, RecordFacts
<1>3. CASE call[c].req.op \notin {"settle", "leave", "transfer"}
  BY <1>3 DEF Finished
<1> QED BY <1>1, <1>2, <1>3

LEMMA RestTyped ==
    ASSUME NEW c \in Calls, call[c] \in CallState PROVE Rest(c) \in SUBSET Stake
BY DEF Rest, CallState

(* A call takes its next entry in hand and has it signed.                   *)
Signs(c, base, todo) ==
    /\ todo # << >> /\ Valid(Head(todo), base) /\ club' = base /\ UNCHANGED line
    /\ Entered(base, todo, c) \in ClubState
    /\ Moves(c)
    /\ call'[c] = [call[c] EXCEPT !.pc = "signing", !.todo = Tail(todo),
                                  !.next = Entered(base, todo, c)]

(* It has nothing more to do, or cannot go on.                              *)
Stops(c, base, todo) ==
    /\ todo = << >> \/ ~Valid(Head(todo), base)
    /\ Moves(c)
    /\ \/ /\ call[c].reclaim # {} /\ club' = base
          /\ call'[c].pc \in {"reclaiming", "queued", "ok"}
          /\ call'[c].pc = "queued" => call'[c].req = call[c].req
       \/ /\ call[c].reclaim = {} /\ call[c].req.op = "sit" /\ club' = base
          /\ call'[c] = [call[c] EXCEPT !.pc = IF todo = << >> THEN "staking" ELSE "unseating"]
       \/ /\ call[c].reclaim = {} /\ call[c].req.op # "sit" /\ todo # << >> /\ club' = base
          /\ call'[c].pc = "failed"
       \/ /\ call[c].reclaim = {} /\ call[c].req.op # "sit" /\ todo = << >>
          /\ club' = Finished(c, base) /\ call'[c].pc = "ok"

LEMMA ProceedTyped ==
    ASSUME NEW c, AtWork(c), NEW base \in ClubState, NEW todo \in Seq(Draft),
           Proceed(c, base, todo)
    PROVE  /\ Signs(c, base, todo) \/ Stops(c, base, todo)
           /\ club' \in ClubState
           /\ \A d \in Calls : CallOK(call'[d])
           /\ line' \in Seq(Calls) /\ LineInv'
<1>1. /\ c \in Calls /\ call[c] \in CallState /\ call[c].req \in Requests /\ call[c].req \in Request
      /\ TypeInv /\ CallOK(call[c])
  BY RequestsAssumption DEF AtWork, TypeInv
<1>2. ASSUME todo # << >>, Valid(Head(todo), base), club' = base, UNCHANGED line,
             call' = [call EXCEPT ![c] = [@ EXCEPT !.pc = "signing", !.todo = Tail(todo),
                                                   !.next = Entered(base, todo, c)]]
      PROVE  /\ Signs(c, base, todo) /\ \A d \in Calls : CallOK(call'[d])
             /\ line' \in Seq(Calls) /\ LineInv'
  <2> DEFINE next == Entered(base, todo, c)
             k    == [call[c] EXCEPT !.pc = "signing", !.todo = Tail(todo), !.next = next]
  <2>1. next \in ClubState
    BY <1>1, <1>2, EnteredFacts
  <2>2. Tail(todo) \in Seq(Draft)
    BY <1>2, HeadTailProperties
  <2>3. call' = [call EXCEPT ![c] = k]
    BY <1>2
  <2> HIDE DEF next
  <2>4. /\ k \in CallState /\ k.pc = "signing" /\ k.next = next /\ k.req = call[c].req
        /\ k.reclaim = call[c].reclaim /\ k.nonces = call[c].nonces
    BY <1>1, <2>1, <2>2 DEF CallState, PCs
  <2> HIDE DEF k
  <2>5. CallOK(k)
    BY <1>1, <2>1, <2>4 DEF CallOK, Ended
  <2>6. Moves(c) /\ call'[c] = k /\ \A d \in Calls : CallOK(call'[d])
    BY <1>1, <2>3, <2>4, <2>5, RecordAfter
  <2>7. LineInv'
    BY <1>1, <1>2, <2>4, <2>6, LineStays DEF AtWork, TypeInv, Holding
  <2> QED BY <1>1, <1>2, <2>1, <2>6, <2>7 DEF Signs, k, next, TypeInv
<1>3. ASSUME todo # << >>, ~Valid(Head(todo), base), club' = base, Refused(c)
      PROVE  /\ Stops(c, base, todo) /\ \A d \in Calls : CallOK(call'[d])
             /\ line' \in Seq(Calls) /\ LineInv'
  <2>1. CASE call[c].reclaim # {} /\ Reclaims(c, Rest(c), Tail(line))
    BY <1>1, <1>3, <2>1, RestTyped, ReclaimsTyped DEF Stops
  <2>2. CASE /\ call[c].reclaim = {} /\ call[c].req.op = "sit"
             /\ Goes(c, "unseating") /\ UNCHANGED line
    BY <1>3, <2>2, GoesTyped DEF Stops
  <2>3. CASE call[c].reclaim = {} /\ call[c].req.op # "sit" /\ Answer(c, "failed")
    <3>1. "failed" \in Ended
      BY DEF Ended
    <3> QED BY <1>3, <2>3, <3>1, AnswerTyped DEF Stops
  <2> QED BY <1>3, <2>1, <2>2, <2>3 DEF Refused
<1>4. ASSUME todo = << >>, Completed(c, base)
      PROVE  /\ Stops(c, base, todo) /\ club' \in ClubState
             /\ \A d \in Calls : CallOK(call'[d])
             /\ line' \in Seq(Calls) /\ LineInv'
  <2>1. CASE call[c].reclaim # {} /\ club' = base /\ Reclaims(c, Rest(c), Tail(line))
    BY <1>1, <1>4, <2>1, RestTyped, ReclaimsTyped DEF Stops
  <2>2. CASE /\ call[c].reclaim = {} /\ call[c].req.op = "sit" /\ club' = base
             /\ Goes(c, "staking") /\ UNCHANGED line
    BY <1>4, <2>2, GoesTyped DEF Stops
  <2>3. CASE /\ call[c].reclaim = {} /\ call[c].req.op # "sit"
             /\ club' = Finished(c, base) /\ Answer(c, "ok")
    <3>1. "ok" \in Ended
      BY DEF Ended
    <3>2. club' \in ClubState
      BY <1>1, <2>3, FinishedFacts
    <3> QED BY <1>4, <2>3, <3>1, <3>2, AnswerTyped DEF Stops
  <2> QED BY <1>4, <2>1, <2>2, <2>3 DEF Completed
<1>5. Signs(c, base, todo) => club' \in ClubState
  BY DEF Signs
<1> QED BY <1>2, <1>3, <1>4, <1>5 DEF Proceed

-----------------------------------------------------------------------------
(* Steps. *)

UniqueIds(stakes) == \A q, r \in stakes : (q.id # 0 /\ q.id = r.id) => q = r

(* Stakes that were changed only by closing some.                           *)
Kept(new, old) ==
    /\ \A s \in new : \E r \in old : /\ s.nonce = r.nonce /\ s.who = r.who /\ s.table = r.table
                                     /\ s.id = r.id /\ (s.fate = "open" => r.fate = "open")
    /\ \A r \in old : \E s \in new : s.who = r.who /\ s.table = r.table
    /\ UniqueIds(old) => UniqueIds(new)

(* Who may be paid chips at a table by what a call appends.                 *)
Receives(c, t, m) ==
    /\ call[c].reclaim = {} /\ t = call[c].req.table
    /\ \/ call[c].req.op \in {"settle", "result"} /\ m = call[c].req.to
       \/ call[c].req.op = "sit" /\ m = call[c].req.who

(* What a call reads, when the ledger is its own, and what it drafts.        *)
Opens(c, base, todo) ==
    /\ call[c].pc \in {"queued", "seating"}
    /\ base.ledger = club.ledger /\ base.bal = club.bal /\ base.ops = club.ops
    /\ base.banned = club.banned /\ Kept(base.stakes, club.stakes)
    /\ Drafted(todo)
    /\ todo # << >> => \A t \in Tables, m \in Members :
                          Head(todo).lines[<<t, m>>] > 0 => Receives(c, t, m)
    /\ todo # << >> /\ Tail(todo) # << >> => call[c].req.op \in {"settle", "result"}
    /\ call[c].pc = "queued" /\ call[c].reclaim = {} => ~Known(c) /\ call[c].req.op # "sit"
    /\ call[c].req.op = "settle" => TallyOk(c)

(* A call that has the ledger appends, or ends.                             *)
Works(c) ==
    /\ AtWork(c)
    /\ \E base \in ClubState, todo \in Seq(Draft) :
          /\ Signs(c, base, todo) \/ Stops(c, base, todo)
          /\ \/ call[c].pc = "signing" /\ base = call[c].next /\ todo = call[c].todo
             \/ Opens(c, base, todo)
    /\ UNCHANGED issued /\ UNCHANGED frame

(* A member is being given a seat.                                          *)
TakesSeat(c) ==
    /\ AtWork(c) /\ Moves(c) /\ call[c].pc = "queued" /\ call[c].reclaim = {} /\ ~Known(c)
    /\ call[c].req.op = "sit" /\ call'[c] = [call[c] EXCEPT !.pc = "seating"]
    /\ UNCHANGED <<club, line, issued>> /\ UNCHANGED frame

(* A call ends without an entry.                                            *)
Leaves(c) ==
    /\ AtWork(c) /\ Moves(c) /\ call[c].pc \in {"queued", "seating", "unseating"}
    /\ call'[c].pc \in {"ok", "failed"}
    /\ UNCHANGED <<club, issued>> /\ UNCHANGED frame

(* A stake is recorded, with the operation.                                 *)
NewStake(c) ==
    [nonce |-> issued + 1, who |-> call[c].req.who, table |-> call[c].req.table,
     amount |-> call[c].req.amount, id |-> call[c].req.id, fate |-> "open"]
TakesStake(c) ==
    /\ AtWork(c) /\ Moves(c) /\ call[c].pc = "staking" /\ call'[c].pc = "ok"
    /\ club' = RecordOp([club EXCEPT !.stakes = @ \cup {NewStake(c)}], c)
    /\ issued' = issued + 1 /\ UNCHANGED frame

(* A call moves that does not have the ledger; or (admins) an invite is there. *)
Apart(c) ==
    /\ c \in Calls /\ Moves(c) /\ call[c].pc \in {"new", "standing", "reclaiming", "inviting"}
    /\ call'[c].pc \in {"queued", "ok", "failed", "standing", "reclaiming", "inviting"}
    /\ call'[c].pc = "inviting" => conf.admins
    /\ call'[c].pc = "queued" /\ call'[c].req.op \in {"settle", "result"} =>
          Stakes(call'[c].req.to, call'[c].req.table) # {}
    /\ \/ UNCHANGED club
       \/ \E nonces : conf.clock /\ club' = Close(club, nonces, "expired")
       \/ call[c].pc = "inviting" /\ club' = call[c].next
    /\ UNCHANGED issued /\ UNCHANGED frame

Dies == /\ UNCHANGED <<conf, club, late, aged, issued>> /\ crashes' = crashes + 1
        /\ call' \in [Calls -> CallState]
        /\ \A c \in Calls : /\ call'[c].pc \in Ended
                            /\ call'[c].pc # "lost" => call'[c] = call[c]
                            /\ call[c].pc = "lost" => call'[c].pc = "lost"

(* What needs no call.                                                      *)
Outside == /\ UNCHANGED <<conf, call, line, issued, crashes>>
           /\ \/ UNCHANGED club
              \/ conf.admins /\ \E b \in SUBSET Members : club' = [club EXCEPT !.banned = b]
           /\ ~conf.clock => UNCHANGED <<late, aged>>

Step == \/ \E c \in Calls : Works(c) \/ TakesSeat(c) \/ Leaves(c) \/ TakesStake(c) \/ Apart(c)
        \/ Dies \/ Outside

LEMMA CloseKeeps ==
    ASSUME NEW b \in ClubState, NEW nonces, NEW fate \in Fates, fate # "open"
    PROVE  Kept(Close(b, nonces, fate).stakes, b.stakes)
<1> DEFINE f(s) == IF s.nonce \in nonces /\ s.fate = "open" THEN [s EXCEPT !.fate = fate] ELSE s
<1>1. b.stakes \subseteq Stake
  BY DEF ClubState
<1>2. ASSUME NEW s \in Stake
      PROVE  /\ f(s).nonce = s.nonce /\ f(s).who = s.who /\ f(s).table = s.table
             /\ f(s).id = s.id /\ (f(s).fate = "open" => s.fate = "open")
  BY DEF Stake
<1>3. Close(b, nonces, fate).stakes = {f(s) : s \in b.stakes}
  BY CloseFacts
<1> HIDE DEF f
<1> QED BY <1>1, <1>2, <1>3 DEF Kept, UniqueIds

LEMMA KeptSame == ASSUME NEW s PROVE Kept(s, s)
BY DEF Kept

LEMMA AtWorkHere ==
    ASSUME TypeInv, NEW c \in Calls,
           Ready(c) \/ call[c].pc \in {"seating", "signing", "staking", "unseating"}
    PROVE  AtWork(c) /\ call[c] \in CallState /\ CallOK(call[c])
<1>1. CallOK(call[c]) /\ line \in Seq(Calls) /\ LineInv /\ call[c] \in CallState
  BY DEF TypeInv
<1>2. call[c].pc \notin Ended
  BY DEF Ready, At, Ended
<1>3. line # << >> /\ Head(line) = c
  BY <1>1, InLine DEF Ready, Turn, Holding
<1> QED BY <1>1, <1>2, <1>3 DEF AtWork, CallOK

(* A call that goes on is typed, and is one of the steps above.             *)
LEMMA WorkTyped ==
    ASSUME NEW c, AtWork(c), NEW base \in ClubState, NEW todo \in Seq(Draft),
           Proceed(c, base, todo),
           \/ call[c].pc = "signing" /\ base = call[c].next /\ todo = call[c].todo
           \/ Opens(c, base, todo),
           UNCHANGED issued, UNCHANGED frame
    PROVE  TypeInv' /\ Works(c)
<1>1. /\ Signs(c, base, todo) \/ Stops(c, base, todo)
      /\ club' \in ClubState
      /\ \A d \in Calls : CallOK(call'[d])
      /\ line' \in Seq(Calls) /\ LineInv'
  BY ProceedTyped
<1>2. Works(c)
  BY <1>1 DEF Works
<1>3. call' \in [Calls -> CallState]
  BY <1>1 DEF Signs, Stops, Moves
<1> QED BY <1>1, <1>2, <1>3 DEF AtWork, TypeInv, frame

LEMMA SignedStep ==
    ASSUME TypeInv, NEW c \in Calls, Signed(c) PROVE TypeInv' /\ Works(c)
<1>1. call[c].pc = "signing"
  BY DEF Signed, At
<1>2. AtWork(c) /\ call[c] \in CallState /\ CallOK(call[c])
  BY <1>1, AtWorkHere
<1>3. call[c].next \in ClubState /\ call[c].todo \in Seq(Draft)
  BY <1>1, <1>2 DEF CallOK, CallState
<1> QED BY <1>1, <1>2, <1>3, WorkTyped DEF Signed

(* What a call drafts on the state of now.                                  *)
LEMMA OpensNow ==
    ASSUME NEW c, NEW todo,
           call[c].pc \in {"queued", "seating"}, Drafted(todo),
           todo # << >> => \A t \in Tables, m \in Members :
                              Head(todo).lines[<<t, m>>] > 0 => Receives(c, t, m),
           todo # << >> /\ Tail(todo) # << >> => call[c].req.op \in {"settle", "result"},
           call[c].pc = "queued" /\ call[c].reclaim = {} => ~Known(c) /\ call[c].req.op # "sit",
           call[c].req.op = "settle" => TallyOk(c)
    PROVE  Opens(c, club, todo) /\ todo \in Seq(Draft)
BY KeptSame DEF Opens, Drafted

LEMMA OldestOf ==
    ASSUME NEW S \in SUBSET Stake, S # {} PROVE Oldest(S) \in S
<1> DEFINE N == {s.nonce : s \in S}
<1>1. N \subseteq Nat /\ N # {}
  BY DEF Stake
<1>2. PICK n \in N : \A k \in N : n <= k
  <2> HIDE DEF N
  <2> QED BY <1>1, LeastNat
<1>3. \E s \in S : \A r \in S : s.nonce <= r.nonce
  BY <1>2
<1> QED BY <1>3 DEF Oldest

(* Requests have their parts.                                               *)
LEMMA RequestFacts ==
    ASSUME NEW c, AtWork(c)
    PROVE  LET r == call[c].req
           IN  /\ r \in Requests /\ r \in Request /\ r.who \in Members /\ r.to \in Members
               /\ r.table \in Tables /\ r.amount \in Nat /\ r.rake \in Nat /\ r.id \in Nat
               /\ <<r.table, r.who>> \in Accounts /\ <<r.table, r.to>> \in Accounts
               /\ r.who \in Accounts /\ r.to \in Accounts
BY RequestsAssumption, AccountsFacts DEF AtWork, Request

LEMMA NotStack ==
    ASSUME NEW a \in Members, NEW t \in Tables, NEW m \in Members PROVE <<t, m>> # a
<1>1. <<t, m>> \in Tables \X Members
  OBVIOUS
<1> QED BY <1>1, AccountsAssumption

LEMMA EnterReclaimStep ==
    ASSUME TypeInv, NEW c \in Calls, EnterReclaim(c) PROVE TypeInv' /\ Works(c)
<1>1. call[c].pc = "queued" /\ Ready(c) /\ call[c].reclaim # {}
  BY DEF EnterReclaim, Ready, At
<1>2. AtWork(c) /\ call[c] \in CallState /\ CallOK(call[c])
  BY <1>1, AtWorkHere
<1> DEFINE stake == Oldest(call[c].reclaim)
           todo  == CashOut(club, stake.table, stake.who)
<1>3. stake \in Stake
  BY <1>1, <1>2, OldestOf DEF CallState
<1>4. stake.table \in Tables /\ stake.who \in Members /\ club \in ClubState
  BY <1>3 DEF Stake, TypeInv
<1>5. /\ Proceed(c, club, todo) /\ UNCHANGED issued /\ UNCHANGED frame
  BY DEF EnterReclaim
<1> HIDE DEF stake
<1>6. /\ Drafted(todo)
      /\ todo # << >> => /\ \A a \in Accounts : Head(todo).lines[a] > 0 => a = stake.who
                         /\ Tail(todo) = << >>
  BY <1>4, CashOutFacts
<1> HIDE DEF todo
<1>7. todo # << >> => \A t \in Tables, m \in Members :
                         Head(todo).lines[<<t, m>>] > 0 => Receives(c, t, m)
  BY <1>4, <1>6, NotStack, AccountsFacts
<1>8. call[c].req.op # "settle"
  BY <1>1, <1>2 DEF CallOK
<1>9. Opens(c, club, todo) /\ todo \in Seq(Draft)
  BY <1>1, <1>6, <1>7, <1>8, OpensNow
<1> QED BY <1>2, <1>4, <1>5, <1>9, WorkTyped

LEMMA ReplayedStep ==
    ASSUME TypeInv, NEW c \in Calls, Replayed(c) PROVE TypeInv' /\ Leaves(c)
<1>1. call[c].pc = "queued" /\ Ready(c)
  BY DEF Replayed, Ready, At
<1>2. AtWork(c)
  BY <1>1, AtWorkHere
<1>3. PICK pc \in {"ok", "failed"} : Answer(c, pc)
  BY DEF Replayed
<1>4. pc \in Ended
  BY DEF Ended
<1>5. /\ Moves(c) /\ call'[c].pc = pc /\ \A d \in Calls : CallOK(call'[d])
      /\ line' \in Seq(Calls) /\ LineInv'
  BY <1>2, <1>3, <1>4, AnswerTyped
<1>6. UNCHANGED <<club, issued>> /\ UNCHANGED frame
  BY DEF Replayed
<1>7. Leaves(c)
  BY <1>1, <1>2, <1>5, <1>6 DEF Leaves
<1> QED BY <1>5, <1>6, <1>7 DEF TypeInv, Moves, frame

(* The parts that the operations share.                                     *)
LEMMA EntersFacts ==
    ASSUME TypeInv, NEW c \in Calls, NEW op, Enters(c, op)
    PROVE  /\ AtWork(c) /\ call[c] \in CallState /\ CallOK(call[c])
           /\ call[c].pc = "queued" /\ call[c].reclaim = {} /\ ~Known(c)
           /\ call[c].req.op = op /\ UNCHANGED issued /\ UNCHANGED frame
           /\ club \in ClubState
<1>1. Ready(c) /\ call[c].pc = "queued"
  BY DEF Enters, Ready, At
<1> QED BY <1>1, AtWorkHere DEF Enters, TypeInv

(* A call that has been refused before its first entry.                     *)
LEMMA RefusedFirst ==
    ASSUME NEW c, AtWork(c), call[c].pc \in {"queued", "seating", "unseating"},
           Answer(c, "failed"), UNCHANGED <<club, issued>>, UNCHANGED frame
    PROVE  TypeInv' /\ Leaves(c)
<1>1. "failed" \in Ended
  BY DEF Ended
<1>2. /\ Moves(c) /\ call'[c].pc = "failed" /\ \A d \in Calls : CallOK(call'[d])
      /\ line' \in Seq(Calls) /\ LineInv'
  BY <1>1, AnswerTyped
<1> QED BY <1>2 DEF Leaves, AtWork, TypeInv, Moves, frame

LEMMA EnterSitStep ==
    ASSUME TypeInv, NEW c \in Calls, EnterSit(c) PROVE TypeInv' /\ (TakesSeat(c) \/ Leaves(c))
<1>1. Enters(c, "sit") /\ UNCHANGED club
  BY DEF EnterSit
<1>2. /\ AtWork(c) /\ call[c].pc = "queued" /\ call[c].reclaim = {} /\ ~Known(c)
      /\ call[c].req.op = "sit" /\ UNCHANGED issued /\ UNCHANGED frame
  BY <1>1, EntersFacts
<1>3. CASE Answer(c, "failed")
  BY <1>1, <1>2, <1>3, RefusedFirst
<1>4. CASE Goes(c, "seating") /\ UNCHANGED line
  <2>1. /\ Moves(c) /\ call'[c] = [call[c] EXCEPT !.pc = "seating"]
        /\ \A d \in Calls : CallOK(call'[d]) /\ line' \in Seq(Calls) /\ LineInv'
    BY <1>2, <1>4, GoesTyped
  <2> QED BY <1>1, <1>2, <1>4, <2>1 DEF TakesSeat, TypeInv, Moves, frame
<1> QED BY <1>3, <1>4 DEF EnterSit

LEMMA EnterLeaveStep ==
    ASSUME TypeInv, NEW c \in Calls, EnterLeave(c) PROVE TypeInv' /\ Works(c)
<1> DEFINE r    == call[c].req
           mine == {s.nonce : s \in {x \in Stakes(r.who, r.table) : x.nonce \notin late}}
           base == Close(club, mine, "left")
           todo == CashOut(base, r.table, r.who)
<1>1. Enters(c, "leave") /\ Proceed(c, base, todo)
  BY DEF EnterLeave
<1>2. /\ AtWork(c) /\ call[c].pc = "queued" /\ call[c].reclaim = {} /\ ~Known(c)
      /\ call[c].req.op = "leave" /\ UNCHANGED issued /\ UNCHANGED frame /\ club \in ClubState
  BY <1>1, EntersFacts
<1>3. r.table \in Tables /\ r.who \in Members
  BY <1>2, RequestFacts
<1> HIDE DEF mine
<1>4. /\ base \in ClubState /\ base.ledger = club.ledger /\ base.bal = club.bal
      /\ base.ops = club.ops /\ base.banned = club.banned /\ Kept(base.stakes, club.stakes)
  <2>1. "left" \in Fates /\ "left" # "open"
    BY DEF Fates
  <2> QED BY <1>2, <2>1, CloseFacts, CloseKeeps
<1> HIDE DEF base
<1>5. /\ Drafted(todo)
      /\ todo # << >> => /\ \A a \in Accounts : Head(todo).lines[a] > 0 => a = r.who
                         /\ Tail(todo) = << >>
  BY <1>3, <1>4, CashOutFacts
<1> HIDE DEF todo
<1>6. todo # << >> => \A t \in Tables, m \in Members :
                         Head(todo).lines[<<t, m>>] > 0 => Receives(c, t, m)
  BY <1>3, <1>5, NotStack, AccountsFacts
<1>7. todo \in Seq(Draft) /\ Opens(c, base, todo)
  BY <1>2, <1>4, <1>5, <1>6 DEF Opens, Drafted
<1> QED BY <1>1, <1>2, <1>4, <1>7, WorkTyped

LEMMA AccountFacts ==
    ASSUME NEW t \in Tables, NEW m \in Members, NEW n \in Members, m # n
    PROVE  /\ Account(t, m) \in Accounts /\ Account(t, m) # Account(t, n)
           /\ \A u \in Tables, o \in Members : <<u, o>> = Account(t, m) => u = t /\ o = m
<1>1. CASE Deferred
  BY <1>1, NotStack, AccountsFacts DEF Account
<1>2. CASE ~Deferred
  <2>1. Account(t, m) = <<t, m>> /\ Account(t, n) = <<t, n>>
    BY <1>2 DEF Account
  <2>2. <<t, m>> # <<t, n>>
    OBVIOUS
  <2>3. \A u, o : <<u, o>> = <<t, m>> => u = t /\ o = m
    OBVIOUS
  <2> QED BY <2>1, <2>2, <2>3, AccountsFacts
<1> QED BY <1>1, <1>2

LEMMA MinRakeFacts ==
    ASSUME NEW moved \in Nat
    PROVE  MinRake(moved) \in Nat /\ (RakeBps <= 10000 => MinRake(moved) <= moved)
<1>1. RakeBps \in Nat
  BY AmountsAssumption
<1>2. moved * RakeBps \in Nat
  BY <1>1
<1>3. RakeBps <= 10000 => moved * RakeBps <= moved * 10000
  BY <1>1
<1> DEFINE x == moved * RakeBps
<1> HIDE DEF x
<1>4. x \in Nat => x \div 10000 \in Nat /\ (x <= moved * 10000 => x \div 10000 <= moved)
  OBVIOUS
<1> QED BY <1>2, <1>3, <1>4 DEF MinRake, x

LEMMA EnterSettleStep ==
    ASSUME TypeInv, NEW c \in Calls, EnterSettle(c) PROVE TypeInv' /\ (Works(c) \/ Leaves(c))
<1> DEFINE r    == call[c].req
           from == Account(r.table, r.who)
           to   == Account(r.table, r.to)
           todo == Hand(r, from, to, r.rake)
<1>1. Enters(c, "settle")
  BY DEF EnterSettle
<1>2. /\ AtWork(c) /\ call[c].pc = "queued" /\ call[c].reclaim = {} /\ ~Known(c)
      /\ call[c].req.op = "settle" /\ UNCHANGED issued /\ UNCHANGED frame /\ club \in ClubState
  BY <1>1, EntersFacts
<1>3. CASE Answer(c, "failed") /\ UNCHANGED club
  BY <1>2, <1>3, RefusedFirst
<1>4. CASE TallyOk(c) /\ Proceed(c, club, todo)
  <2>1. r.who # r.to
    BY <1>4 DEF TallyOk
  <2>2. /\ r \in Requests /\ r \in Request /\ r.table \in Tables /\ r.who \in Members
        /\ r.to \in Members /\ r.rake \in Nat
    BY <1>2, RequestFacts
  <2>3. /\ from \in Accounts /\ to \in Accounts /\ from # to
        /\ \A t \in Tables, m \in Members : <<t, m>> = to => t = r.table /\ m = r.to
    BY <2>1, <2>2, AccountFacts
  <2>4. WinnersPay => r.rake <= r.amount
    BY <1>2, <2>2 DEF WinnersPay
  <2> HIDE DEF from, to
  <2>5. /\ Drafted(todo)
        /\ todo # << >> => \A a \in Accounts : Head(todo).lines[a] > 0 => a = to
    BY <2>2, <2>3, <2>4, HandFacts
  <2> HIDE DEF todo
  <2>6. todo # << >> => \A t \in Tables, m \in Members :
                           Head(todo).lines[<<t, m>>] > 0 => Receives(c, t, m)
    BY <1>2, <2>3, <2>5, AccountsFacts DEF Receives
  <2>7. Opens(c, club, todo) /\ todo \in Seq(Draft)
    <3>1. Drafted(todo) /\ TallyOk(c) /\ ~Known(c) /\ call[c].req.op # "sit"
      BY <1>2, <1>4, <2>5
    <3> QED BY <1>2, <2>6, <3>1, OpensNow
  <2> QED BY <1>2, <1>4, <2>7, WorkTyped
<1> QED BY <1>3, <1>4 DEF EnterSettle

LEMMA EnterResultStep ==
    ASSUME TypeInv, NEW c \in Calls, EnterResult(c) PROVE TypeInv' /\ Works(c)
<1> DEFINE r    == call[c].req
           from == <<r.table, r.who>>
           to   == <<r.table, r.to>>
           rake == MinRake(r.amount)
           todo == Hand(r, from, to, rake)
<1>1. Enters(c, "result") /\ Proceed(c, club, todo)
  BY DEF EnterResult
<1>2. /\ AtWork(c) /\ call[c].pc = "queued" /\ call[c].reclaim = {} /\ ~Known(c)
      /\ call[c].req.op = "result" /\ UNCHANGED issued /\ UNCHANGED frame /\ club \in ClubState
  BY <1>1, EntersFacts
<1>3. /\ r \in Requests /\ r \in Request /\ r.table \in Tables /\ r.who \in Members
      /\ r.to \in Members /\ r.amount \in Nat
  BY <1>2, RequestFacts
<1>4. r.who # r.to
  BY <1>2, <1>3, RequestsAssumption
<1>5. /\ from \in Accounts /\ to \in Accounts /\ from # to
      /\ \A t \in Tables, m \in Members : <<t, m>> = to => t = r.table /\ m = r.to
  BY <1>3, <1>4, AccountsFacts
<1>6. rake \in Nat /\ (WinnersPay => rake <= r.amount)
  BY <1>3, MinRakeFacts DEF WinnersPay
<1> HIDE DEF from, to, rake
<1>7. /\ Drafted(todo)
      /\ todo # << >> => \A a \in Accounts : Head(todo).lines[a] > 0 => a = to
  BY <1>3, <1>5, <1>6, HandFacts
<1> HIDE DEF todo
<1>8. todo # << >> => \A t \in Tables, m \in Members :
                         Head(todo).lines[<<t, m>>] > 0 => Receives(c, t, m)
  BY <1>2, <1>5, <1>7, AccountsFacts DEF Receives
<1>9. Opens(c, club, todo) /\ todo \in Seq(Draft)
  BY <1>2, <1>7, <1>8, OpensNow
<1> QED BY <1>1, <1>2, <1>9, WorkTyped

(* A call that appends one entry.                                           *)
LEMMA OneEntry ==
    ASSUME NEW c, AtWork(c), call[c].pc \in {"queued", "seating"},
           NEW kind \in Kinds \ {"burn"}, NEW from \in Accounts, NEW to \in Accounts,
           NEW amount \in Nat,
           \A t \in Tables, m \in Members : <<t, m>> = to => Receives(c, t, m),
           call[c].req.op # "settle",
           call[c].pc = "queued" /\ call[c].reclaim = {} => ~Known(c) /\ call[c].req.op # "sit",
           Proceed(c, club, <<Pay(kind, from, to, amount)>>),
           UNCHANGED issued, UNCHANGED frame
    PROVE  TypeInv' /\ Works(c)
<1> DEFINE d == Pay(kind, from, to, amount)
<1>1. d \in Draft /\ d.kind # "burn" /\ \A a \in Accounts : d.lines[a] > 0 => a = to
  BY PayFacts
<1> HIDE DEF d
<1>2. Drafted(<<d>>)
  BY <1>1, DraftedOne
<1>3. \A t \in Tables, m \in Members : d.lines[<<t, m>>] > 0 => Receives(c, t, m)
  BY <1>1, AccountsFacts
<1> DEFINE todo == <<d>>
<1>4. Head(todo) = d /\ Tail(todo) = << >> /\ Drafted(todo)
  BY <1>2
<1> HIDE DEF todo
<1>5. todo # << >> => \A t \in Tables, m \in Members :
                         Head(todo).lines[<<t, m>>] > 0 => Receives(c, t, m)
  BY <1>3, <1>4
<1>7. Opens(c, club, todo) /\ todo \in Seq(Draft)
  BY <1>4, <1>5, OpensNow
<1>6. club \in ClubState /\ Proceed(c, club, todo)
  BY DEF d, todo, AtWork, TypeInv
<1> QED BY <1>6, <1>7, WorkTyped

LEMMA EnterTransferStep ==
    ASSUME TypeInv, NEW c \in Calls, EnterTransfer(c)
    PROVE  TypeInv' /\ (Works(c) \/ Leaves(c))
<1> DEFINE r == call[c].req
<1>1. Enters(c, "transfer")
  BY DEF EnterTransfer
<1>2. /\ AtWork(c) /\ call[c].pc = "queued" /\ call[c].reclaim = {} /\ ~Known(c)
      /\ call[c].req.op = "transfer" /\ UNCHANGED issued /\ UNCHANGED frame
  BY <1>1, EntersFacts
<1>3. CASE Answer(c, "failed") /\ UNCHANGED club
  BY <1>2, <1>3, RefusedFirst
<1>4. CASE Proceed(c, club, <<Pay("transfer", r.who, r.to, r.amount)>>)
  <2>1. /\ r.who \in Accounts /\ r.to \in Accounts /\ r.amount \in Nat /\ r.to \in Members
        /\ "transfer" \in Kinds \ {"burn"}
    BY <1>2, RequestFacts DEF Kinds
  <2>2. \A t \in Tables, m \in Members : <<t, m>> # r.to
    BY <2>1, NotStack
  <2> QED BY <1>2, <1>4, <2>1, <2>2, OneEntry
<1> QED BY <1>3, <1>4 DEF EnterTransfer

LEMMA EnterGrantStep ==
    ASSUME TypeInv, NEW c \in Calls, EnterGrant(c) PROVE TypeInv' /\ Works(c)
<1> DEFINE r == call[c].req
<1>1. Enters(c, "grant") /\ Proceed(c, club, <<Pay("grant", House, r.who, r.amount)>>)
  BY DEF EnterGrant
<1>2. /\ AtWork(c) /\ call[c].pc = "queued" /\ call[c].reclaim = {} /\ ~Known(c)
      /\ call[c].req.op = "grant" /\ UNCHANGED issued /\ UNCHANGED frame
  BY <1>1, EntersFacts
<1>3. /\ r.who \in Accounts /\ r.amount \in Nat /\ r.who \in Members /\ House \in Accounts
      /\ "grant" \in Kinds \ {"burn"}
  BY <1>2, RequestFacts, AccountsFacts DEF Kinds
<1>4. \A t \in Tables, m \in Members : <<t, m>> # r.who
  BY <1>3, NotStack
<1> QED BY <1>1, <1>2, <1>3, <1>4, OneEntry

LEMMA SeatedStep ==
    ASSUME TypeInv, NEW c \in Calls, Seated(c) PROVE TypeInv' /\ Works(c)
<1> DEFINE r == call[c].req
<1>1. call[c].pc = "seating" /\ UNCHANGED issued /\ UNCHANGED frame
  BY DEF Seated, At
<1>2. AtWork(c) /\ call[c] \in CallState /\ CallOK(call[c])
  BY <1>1, AtWorkHere
<1>3. call[c].reclaim = {} /\ r.op = "sit"
  BY <1>1, <1>2 DEF CallOK
<1>4. CASE Proceed(c, club, << >>)
  <2>1. << >> \in Seq(Draft)
    OBVIOUS
  <2>2. Drafted(<< >>)
    BY <2>1 DEF Drafted
  <2> DEFINE none == << >>
  <2>3. none = << >> /\ Drafted(none)
    BY <2>2
  <2> HIDE DEF none
  <2>4. Opens(c, club, none)
    BY <1>1, <1>3, <2>3, OpensNow
  <2> QED BY <1>1, <1>2, <1>4, <2>1, <2>4, WorkTyped DEF TypeInv, none
<1>5. CASE Proceed(c, club, <<Pay("buy-in", r.who, <<r.table, r.who>>, r.amount)>>)
  <2>1. /\ r.who \in Accounts /\ <<r.table, r.who>> \in Accounts /\ r.amount \in Nat
        /\ "buy-in" \in Kinds \ {"burn"}
    BY <1>2, RequestFacts DEF Kinds
  <2>2. \A t \in Tables, m \in Members : <<t, m>> = <<r.table, r.who>> => Receives(c, t, m)
    BY <1>3 DEF Receives
  <2> QED BY <1>1, <1>2, <1>3, <1>5, <2>1, <2>2, OneEntry
<1> QED BY <1>4, <1>5 DEF Seated

LEMMA NotSeatedStep ==
    ASSUME TypeInv, NEW c \in Calls, NotSeated(c) PROVE TypeInv' /\ Leaves(c)
<1>1. /\ call[c].pc \in {"seating", "unseating"} /\ Answer(c, "failed")
      /\ UNCHANGED <<club, issued>> /\ UNCHANGED frame
  BY DEF NotSeated, At
<1> QED BY <1>1, AtWorkHere, RefusedFirst

LEMMA StakedStep ==
    ASSUME TypeInv, NEW c \in Calls, Staked(c) PROVE TypeInv' /\ TakesStake(c)
<1> DEFINE with == [club EXCEPT !.stakes = @ \cup {NewStake(c)}]
<1>1. /\ call[c].pc = "staking" /\ club' = RecordOp(with, c) /\ issued' = issued + 1
      /\ Answer(c, "ok") /\ UNCHANGED frame
  BY DEF Staked, At, NewStake
<1>2. AtWork(c) /\ call[c] \in CallState /\ CallOK(call[c])
  BY <1>1, AtWorkHere
<1>3. /\ call[c].req.who \in Members /\ call[c].req.table \in Tables
      /\ call[c].req.amount \in Nat /\ call[c].req.id \in Nat /\ call[c].req \in Request
  BY <1>2, RequestFacts
<1>4. club \in ClubState /\ issued \in Nat
  BY DEF TypeInv
<1>5. NewStake(c) \in Stake
  BY <1>3, <1>4 DEF NewStake, Stake, Fates
<1>6. with \in ClubState
  BY <1>4, <1>5 DEF ClubState
<1>7. club' \in ClubState
  BY <1>1, <1>2, <1>3, <1>6, RecordFacts
<1>8. "ok" \in Ended
  BY DEF Ended
<1>9. /\ Moves(c) /\ call'[c].pc = "ok" /\ \A d \in Calls : CallOK(call'[d])
      /\ line' \in Seq(Calls) /\ LineInv'
  BY <1>1, <1>2, <1>8, AnswerTyped
<1> QED BY <1>1, <1>2, <1>4, <1>7, <1>9 DEF TakesStake, TypeInv, Moves, frame

(* A call that does not have the ledger goes on.                            *)
LEMMA ApartTyped ==
    ASSUME TypeInv, NEW c \in Calls, NEW k \in CallState, CallOK(k),
           call' = [call EXCEPT ![c] = k],
           call[c].pc \in {"new", "standing", "reclaiming", "inviting"},
           \/ k.pc = "queued" /\ line' = Append(line, c)
           \/ k.pc \in {"ok", "failed", "standing", "reclaiming", "inviting"} /\ UNCHANGED line,
           club' \in ClubState, UNCHANGED issued, UNCHANGED frame
    PROVE  TypeInv' /\ Moves(c) /\ call'[c] = k
<1>1. Moves(c) /\ call'[c] = k /\ \A d \in Calls : CallOK(call'[d])
  BY RecordAfter
<1>2. line' \in Seq(Calls) /\ LineInv'
  <2>1. CASE k.pc = "queued" /\ line' = Append(line, c)
    BY <1>1, <2>1, LineJoins DEF TypeInv, Holding
  <2>2. CASE k.pc \in {"ok", "failed", "standing", "reclaiming", "inviting"} /\ UNCHANGED line
    BY <1>1, <2>2, LineApart DEF TypeInv, Holding
  <2> QED BY <2>1, <2>2
<1> QED BY <1>1, <1>2 DEF TypeInv, Moves, frame

(* A call whose place changes, and nothing else of it.                      *)
LEMMA PlaceFacts ==
    ASSUME NEW k \in CallState, NEW pc \in PCs
    PROVE  /\ [k EXCEPT !.pc = pc] \in CallState /\ [k EXCEPT !.pc = pc].pc = pc
           /\ [k EXCEPT !.pc = pc].req = k.req /\ [k EXCEPT !.pc = pc].reclaim = k.reclaim
           /\ [k EXCEPT !.pc = pc].nonces = k.nonces /\ [k EXCEPT !.pc = pc].next = k.next
BY DEF CallState

LEMMA StoodUpStep ==
    ASSUME TypeInv, NEW c \in Calls, StoodUp(c) PROVE TypeInv' /\ Apart(c)
<1> DEFINE k == [call[c] EXCEPT !.pc = "queued"]
<1>1. /\ call[c].pc = "standing" /\ call' = [call EXCEPT ![c] = k] /\ line' = Append(line, c)
      /\ UNCHANGED <<club, issued>> /\ UNCHANGED frame
  BY DEF StoodUp, At, Goes
<1>2. call[c] \in CallState /\ CallOK(call[c]) /\ club \in ClubState /\ "queued" \in PCs
  BY DEF TypeInv, PCs
<1>3. /\ k \in CallState /\ k.pc = "queued" /\ k.req = call[c].req /\ k.reclaim = call[c].reclaim
      /\ k.nonces = call[c].nonces
  BY <1>2, PlaceFacts
<1> HIDE DEF k
<1>4. CallOK(k) /\ k.req.op = "leave"
  BY <1>1, <1>2, <1>3 DEF CallOK, Ended
<1>5. TypeInv' /\ Moves(c) /\ call'[c] = k
  BY <1>1, <1>2, <1>3, <1>4, ApartTyped
<1> QED BY <1>1, <1>3, <1>4, <1>5 DEF Apart

LEMMA ReclaimedStep ==
    ASSUME TypeInv, NEW c \in Calls, Reclaimed(c) PROVE TypeInv' /\ Apart(c)
<1>1. call[c].pc = "reclaiming" /\ UNCHANGED <<club, issued>> /\ UNCHANGED frame
  BY DEF Reclaimed, At
<1>2. call[c] \in CallState /\ CallOK(call[c]) /\ club \in ClubState /\ "queued" \in PCs
  BY DEF TypeInv, PCs
<1>3. call[c].req \in Requests /\ call[c].reclaim # {} /\ call[c].req.op \in {"sit", "lobby"}
  BY <1>1, <1>2 DEF CallOK, Ended
<1>4. CASE Reclaims(c, Rest(c), line)
  <2>1. /\ Moves(c) /\ call'[c].pc \in {"reclaiming", "queued", "ok"}
        /\ call'[c].pc = "queued" => call'[c].req = call[c].req
        /\ \A d \in Calls : CallOK(call'[d])
        /\ line' \in Seq(Calls) /\ LineInv'
    BY <1>1, <1>2, <1>3, <1>4, RestTyped, ReclaimsTyped
  <2> QED BY <1>1, <1>3, <2>1 DEF Apart, TypeInv, Moves, frame
<1>5. CASE Goes(c, "queued") /\ line' = Append(line, c)
  <2> DEFINE k == [call[c] EXCEPT !.pc = "queued"]
  <2>1. call' = [call EXCEPT ![c] = k]
    BY <1>5 DEF Goes
  <2>2. /\ k \in CallState /\ k.pc = "queued" /\ k.req = call[c].req /\ k.reclaim = call[c].reclaim
        /\ k.nonces = call[c].nonces
    BY <1>2, PlaceFacts
  <2> HIDE DEF k
  <2>3. CallOK(k)
    BY <1>1, <1>2, <1>3, <2>2 DEF CallOK, Ended
  <2>4. TypeInv' /\ Moves(c) /\ call'[c] = k
    BY <1>1, <1>2, <1>5, <2>1, <2>2, <2>3, ApartTyped
  <2> QED BY <1>1, <1>3, <2>2, <2>4 DEF Apart
<1> QED BY <1>4, <1>5 DEF Reclaimed

LEMMA InvitedStep ==
    ASSUME TypeInv, NEW c \in Calls, Invited(c) PROVE TypeInv' /\ Apart(c)
<1> DEFINE k == [NewCall EXCEPT !.pc = "ok"]
<1>1. /\ call[c].pc = "inviting" /\ call' = [call EXCEPT ![c] = k] /\ UNCHANGED line
      /\ club' = call[c].next /\ UNCHANGED issued /\ UNCHANGED frame
  BY DEF Invited, At
<1>2. CallOK(call[c]) /\ "ok" \in Ended
  BY DEF TypeInv, Ended
<1>3. k \in CallState /\ CallOK(k) /\ k.pc = "ok"
  BY <1>2, EndedOK
<1> HIDE DEF k
<1>4. club' \in ClubState
  BY <1>1, <1>2 DEF CallOK
<1>5. TypeInv' /\ Moves(c) /\ call'[c] = k
  BY <1>1, <1>3, <1>4, ApartTyped
<1> QED BY <1>1, <1>3, <1>5 DEF Apart

-----------------------------------------------------------------------------
(* Calls that come in. *)

LEMMA MadeFacts ==
    ASSUME TypeInv, NEW c \in Calls, New(c), NEW r \in Requests, NEW nonces \in SUBSET Nat,
           NEW pc \in {"queued", "standing", "ok", "failed"}, Made(c, r, nonces, pc),
           nonces # {} => pc = "queued" /\ r.op = "settle",
           pc = "standing" => r.op = "leave"
    PROVE  \E k \in CallState : /\ CallOK(k) /\ k.pc = pc /\ k.req = r
                             /\ call' = [call EXCEPT ![c] = k] /\ call[c].pc = "new"
<1>1. call[c] \in CallState /\ CallOK(call[c]) /\ call[c].pc = "new" /\ r \in Request
  BY RequestsAssumption DEF TypeInv, New, At
<1>2. call[c].reclaim = {}
  BY <1>1 DEF CallOK
<1> DEFINE k == [call[c] EXCEPT !.pc = pc, !.req = r, !.nonces = nonces]
<1>3. /\ k \in CallState /\ k.pc = pc /\ k.req = r /\ k.nonces = nonces /\ k.reclaim = {}
  BY <1>1, <1>2 DEF CallState, PCs
<1>4. call' = [call EXCEPT ![c] = k]
  BY DEF Made
<1> HIDE DEF k
<1>5. CallOK(k)
  BY <1>3 DEF CallOK, Ended
<1> QED BY <1>1, <1>3, <1>4, <1>5

LEMMA DirectStep ==
    ASSUME TypeInv, NEW c \in Calls, NEW r \in Requests, Direct(c, r)
    PROVE  TypeInv' /\ Apart(c)
<1>1. /\ New(c) /\ line' = Append(line, c) /\ UNCHANGED <<club, issued>> /\ UNCHANGED frame
      /\ club \in ClubState
  BY DEF Direct, TypeInv
<1>2. /\ r.op = "result" => Sits(r.to, r.table)
      /\ \E nonces \in IF r.op # "settle" THEN {{}}
                       ELSE {{s.nonce, o.nonce} : s \in Stakes(r.who, r.table),
                                                  o \in Stakes(r.to, r.table)} :
            Made(c, r, nonces, "queued")
  BY DEF Direct
<1>3. PICK nonces : /\ Made(c, r, nonces, "queued") /\ nonces \in SUBSET Nat
                    /\ nonces # {} => r.op = "settle"
                    /\ r.op = "settle" => Stakes(r.to, r.table) # {}
  <2>1. CASE r.op # "settle"
    BY <1>2, <2>1
  <2>2. CASE r.op = "settle"
    <3>0. \E nonces \in {{s.nonce, o.nonce} : s \in Stakes(r.who, r.table),
                                             o \in Stakes(r.to, r.table)} :
             Made(c, r, nonces, "queued")
      BY <1>2, <2>2
    <3>1. PICK s \in Stakes(r.who, r.table), o \in Stakes(r.to, r.table) :
             Made(c, r, {s.nonce, o.nonce}, "queued")
      BY <3>0
    <3>2. s \in Stake /\ o \in Stake
      BY <1>1 DEF Stakes, ClubState
    <3>3. {s.nonce, o.nonce} \in SUBSET Nat
      BY <3>2 DEF Stake
    <3> QED BY <2>2, <3>1, <3>3
  <2> QED BY <2>1, <2>2
<1>4. PICK k \in CallState : /\ CallOK(k) /\ k.pc = "queued" /\ k.req = r
                          /\ call' = [call EXCEPT ![c] = k] /\ call[c].pc = "new"
  BY <1>1, <1>3, MadeFacts
<1>5. TypeInv' /\ Moves(c) /\ call'[c] = k
  BY <1>1, <1>4, ApartTyped
<1>6. r.op \in {"settle", "result"} => Stakes(r.to, r.table) # {}
  BY <1>2, <1>3 DEF Sits
<1> QED BY <1>1, <1>4, <1>5, <1>6 DEF Apart

LEMMA LeavingStep ==
    ASSUME TypeInv, NEW c \in Calls, NEW r \in Requests, Leaving(c, r)
    PROVE  TypeInv' /\ Apart(c)
<1>1. /\ New(c) /\ r.op = "leave" /\ UNCHANGED <<club, line, issued>> /\ UNCHANGED frame
      /\ club \in ClubState
  BY DEF Leaving, TypeInv
<1>2. PICK pc \in {"ok", "standing", "failed"} : Made(c, r, {}, pc)
  BY DEF Leaving
<1>3. PICK k \in CallState : /\ CallOK(k) /\ k.pc = pc /\ k.req = r
                          /\ call' = [call EXCEPT ![c] = k] /\ call[c].pc = "new"
  BY <1>1, <1>2, MadeFacts
<1>4. TypeInv' /\ Moves(c) /\ call'[c] = k
  BY <1>1, <1>3, ApartTyped
<1> QED BY <1>1, <1>3, <1>4 DEF Apart

LEMMA ArrivingStep ==
    ASSUME TypeInv, NEW c \in Calls, NEW r \in Requests, Arriving(c, r)
    PROVE  TypeInv' /\ Apart(c)
<1> DEFINE expired == {s \in club.stakes : s.fate = "open" /\ s.nonce \in late}
           nonces  == {s.nonce : s \in expired}
<1>1. /\ New(c) /\ r.op \in {"sit", "lobby"} /\ UNCHANGED issued /\ UNCHANGED frame
      /\ club \in ClubState /\ call[c] \in CallState /\ CallOK(call[c]) /\ call[c].pc = "new"
  BY DEF Arriving, TypeInv, New, At
<1>2. \/ /\ Made(c, r, {}, IF r.op = "sit" THEN "queued" ELSE "ok")
         /\ line' = IF r.op = "sit" THEN Append(line, c) ELSE line
         /\ UNCHANGED club
      \/ /\ expired # {}
         /\ club' = Close(club, nonces, "expired")
         /\ call' = [call EXCEPT ![c] = [@ EXCEPT !.pc = "reclaiming", !.req = r,
                                                  !.reclaim = expired]]
         /\ UNCHANGED line
  BY DEF Arriving
<1>3. CASE /\ Made(c, r, {}, IF r.op = "sit" THEN "queued" ELSE "ok")
           /\ line' = IF r.op = "sit" THEN Append(line, c) ELSE line
           /\ UNCHANGED club
  <2> DEFINE pc == IF r.op = "sit" THEN "queued" ELSE "ok"
  <2>1. pc \in {"queued", "ok"} /\ (pc = "queued" <=> r.op = "sit")
    OBVIOUS
  <2>2. Made(c, r, {}, pc)
    BY <1>3
  <2> HIDE DEF pc
  <2>3. PICK k \in CallState : /\ CallOK(k) /\ k.pc = pc /\ k.req = r
                            /\ call' = [call EXCEPT ![c] = k] /\ call[c].pc = "new"
    BY <1>1, <2>1, <2>2, MadeFacts
  <2>4. TypeInv' /\ Moves(c) /\ call'[c] = k
    BY <1>1, <1>3, <2>1, <2>3, ApartTyped
  <2> QED BY <1>1, <1>3, <2>1, <2>3, <2>4 DEF Apart
<1>4. CASE /\ expired # {}
           /\ club' = Close(club, nonces, "expired")
           /\ call' = [call EXCEPT ![c] = [@ EXCEPT !.pc = "reclaiming", !.req = r,
                                                    !.reclaim = expired]]
           /\ UNCHANGED line
  <2> DEFINE k == [call[c] EXCEPT !.pc = "reclaiming", !.req = r, !.reclaim = expired]
  <2>1. expired \in SUBSET Stake /\ r \in Request
    BY <1>1, RequestsAssumption DEF ClubState
  <2>2. conf.clock
    BY <1>4 DEF TypeInv
  <2>3. call' = [call EXCEPT ![c] = k]
    BY <1>4
  <2> HIDE DEF expired
  <2>4. /\ k \in CallState /\ k.pc = "reclaiming" /\ k.req = r /\ k.reclaim = expired
        /\ k.nonces = call[c].nonces
    BY <1>1, <2>1 DEF CallState, PCs
  <2> HIDE DEF k
  <2>5. CallOK(k)
    BY <1>1, <1>4, <2>4 DEF CallOK, Ended
  <2>6. "expired" \in Fates
    BY DEF Fates
  <2>7. club' \in ClubState
    BY <1>1, <1>4, <2>6, CloseFacts
  <2>8. TypeInv' /\ Moves(c) /\ call'[c] = k
    BY <1>1, <1>4, <2>3, <2>4, <2>5, <2>7, ApartTyped
  <2> QED BY <1>1, <1>4, <2>2, <2>4, <2>8 DEF Apart
<1> QED BY <1>2, <1>3, <1>4

LEMMA InvitingStep ==
    ASSUME TypeInv, NEW c \in Calls, NEW r \in Requests, Inviting(c, r)
    PROVE  TypeInv' /\ Apart(c)
<1> DEFINE next == [club EXCEPT !.invites = @ + 1]
           k    == [call[c] EXCEPT !.pc = "inviting", !.req = r, !.next = next]
<1>1. /\ conf.admins /\ call[c].pc = "new" /\ call' = [call EXCEPT ![c] = k]
      /\ UNCHANGED <<club, line, issued>> /\ UNCHANGED frame
      /\ club \in ClubState /\ call[c] \in CallState /\ CallOK(call[c])
  BY DEF Inviting, New, At, TypeInv
<1>2. next \in ClubState /\ r \in Request
  <2>1. \A n \in Nat : [club EXCEPT !.invites = n] \in ClubState
    BY <1>1 DEF ClubState
  <2>2. club.invites + 1 \in Nat
    BY <1>1 DEF ClubState
  <2>3. next = [club EXCEPT !.invites = club.invites + 1]
    OBVIOUS
  <2> HIDE DEF next
  <2> QED BY <2>1, <2>2, <2>3, RequestsAssumption
<1> HIDE DEF next
<1>3. /\ k \in CallState /\ k.pc = "inviting" /\ k.req = r /\ k.next = next
      /\ k.reclaim = call[c].reclaim /\ k.nonces = call[c].nonces
  BY <1>1, <1>2 DEF CallState, PCs
<1> HIDE DEF k
<1>4. CallOK(k)
  BY <1>1, <1>2, <1>3 DEF CallOK, Ended
<1>5. TypeInv' /\ Moves(c) /\ call'[c] = k
  BY <1>1, <1>3, <1>4, ApartTyped
<1> QED BY <1>1, <1>3, <1>5 DEF Apart

LEMMA OutsideTyped ==
    ASSUME TypeInv, Outside, club' \in ClubState, late' \subseteq Nat, aged' \subseteq Nat
    PROVE  TypeInv'
BY DEF TypeInv, Outside, LineInv

LEMMA AdminStep ==
    ASSUME TypeInv, NEW m \in Members, Ban(m) \/ Approve(m) PROVE TypeInv' /\ Outside
<1>1. /\ conf.admins /\ UNCHANGED <<call, line, issued>> /\ UNCHANGED frame
      /\ \/ club' = [club EXCEPT !.banned = @ \cup {m}]
         \/ club' = [club EXCEPT !.banned = @ \ {m}]
  BY DEF Ban, Approve
<1>2. PICK b \in SUBSET Members : club' = [club EXCEPT !.banned = b]
  <2>1. club.banned \in SUBSET Members
    BY DEF TypeInv, ClubState
  <2>2. club.banned \cup {m} \in SUBSET Members /\ club.banned \ {m} \in SUBSET Members
    BY <2>1
  <2> QED BY <1>1, <2>2
<1>3. club' \in ClubState
  BY <1>2 DEF TypeInv, ClubState
<1>4. Outside
  BY <1>1, <1>2 DEF Outside, frame
<1> QED BY <1>1, <1>3, <1>4, OutsideTyped DEF frame, TypeInv

LEMMA ClockStep ==
    ASSUME TypeInv, NEW n \in 1 .. issued, Expire(n) \/ Age(n) PROVE TypeInv' /\ Outside
<1>1. /\ conf.clock /\ UNCHANGED <<conf, club, call, line, issued, crashes>>
      /\ late' \subseteq late \cup {n} /\ aged' \subseteq aged \cup {n}
  BY DEF Expire, Age, Ticks
<1>2. n \in Nat
  BY DEF TypeInv
<1>3. Outside
  BY <1>1 DEF Outside
<1> QED BY <1>1, <1>2, <1>3, OutsideTyped DEF TypeInv

LEMMA CrashStep ==
    ASSUME TypeInv, Crash PROVE TypeInv' /\ Dies
<1> DEFINE lost == [NewCall EXCEPT !.pc = "lost"]
<1>1. /\ crashes' = crashes + 1 /\ line' = << >> /\ UNCHANGED <<conf, club, late, aged, issued>>
      /\ call' = [c \in Calls |-> IF call[c].pc \in Ended THEN call[c] ELSE lost]
  BY DEF Crash
<1>2. lost \in CallState /\ CallOK(lost) /\ lost.pc = "lost" /\ "lost" \in Ended
  <2>1. "lost" \in Ended
    BY DEF Ended
  <2> QED BY <2>1, EndedOK
<1> HIDE DEF lost
<1>3. \A c \in Calls : /\ call'[c] \in CallState /\ CallOK(call'[c]) /\ call'[c].pc \in Ended
                       /\ call'[c].pc # "lost" => call'[c] = call[c]
                       /\ call[c].pc = "lost" => call'[c].pc = "lost"
  BY <1>1, <1>2 DEF TypeInv
<1>4. call' \in [Calls -> CallState]
  BY <1>1, <1>3
<1>5. line' \in Seq(Calls) /\ LineInv'
  <2>1. << >> \in Seq(Calls) /\ DOMAIN << >> = {}
    OBVIOUS
  <2>2. {c \in Calls : call'[c].pc \in Holding} = {}
    BY <1>3 DEF Ended, Holding
  <2> QED BY <1>1, <2>1, <2>2 DEF LineInv, IsInjective, Range
<1> QED BY <1>1, <1>3, <1>4, <1>5 DEF TypeInv, Dies

(* Whatever happens keeps the types, and is one of the steps above.         *)
LEMMA Steps ==
    ASSUME TypeInv, Next PROVE TypeInv' /\ Step
<1>1. ASSUME NEW c \in Calls, Enter(c) PROVE TypeInv' /\ Step
  BY <1>1, EnterReclaimStep, ReplayedStep, EnterSitStep, EnterLeaveStep, EnterSettleStep,
     EnterResultStep, EnterTransferStep, EnterGrantStep DEF Enter, Step
<1>2. ASSUME NEW c \in Calls, Resume(c) PROVE TypeInv' /\ Step
  BY <1>2, SignedStep, SeatedStep, NotSeatedStep, StakedStep, StoodUpStep, ReclaimedStep,
     InvitedStep DEF Resume, Step
<1>3. ASSUME NEW c \in Calls, NEW r \in Requests,
             Direct(c, r) \/ Arriving(c, r) \/ Leaving(c, r) \/ Inviting(c, r)
      PROVE  TypeInv' /\ Step
  BY <1>3, DirectStep, ArrivingStep, LeavingStep, InvitingStep DEF Step
<1>4. ASSUME NEW m \in Members, Ban(m) \/ Approve(m) PROVE TypeInv' /\ Step
  BY <1>4, AdminStep DEF Step
<1>5. ASSUME NEW n \in 1 .. issued, Expire(n) \/ Age(n) PROVE TypeInv' /\ Step
  BY <1>5, ClockStep DEF Step
<1>6. CASE Crash
  BY <1>6, CrashStep DEF Step
<1> QED BY <1>1, <1>2, <1>3, <1>4, <1>5, <1>6 DEF Next

(* The seats of a club can be numbered.                                     *)
LEMMA SeatsNumbered ==
    LET seats == Members \X Tables
        n     == Cardinality(seats)
    IN  /\ IsFiniteSet(seats) /\ n \in Nat
        /\ \E f \in [seats -> 1 .. n] : \A p, q \in seats : f[p] = f[q] => p = q
<1> DEFINE seats == Members \X Tables
           n     == Cardinality(seats)
<1>1. IsFiniteSet(seats) /\ n \in Nat
  BY FiniteAssumption, FS_Product, FS_CardinalityType
<1>2. \E f \in [seats -> 1 .. n] : \A p, q \in seats : f[p] = f[q] => p = q
  <2>1. IsFiniteSet(1 .. n) /\ Cardinality(1 .. n) = n
    BY <1>1, FS_Interval
  <2>2. ExistsBijection(seats, 1 .. n)
    BY <1>1, <2>1, FS_SameCardinalityBij
  <2>3. PICK f \in Bijection(seats, 1 .. n) : TRUE
    BY <2>2 DEF ExistsBijection
  <2>4. f \in [seats -> 1 .. n] /\ IsInjective(f)
    BY DEF Bijection, Injection
  <2>5. DOMAIN f = seats
    BY <2>4
  <2> HIDE DEF seats, n
  <2> QED BY <2>4, <2>5 DEF IsInjective
<1> QED BY <1>1, <1>2

LEMMA OpenedFacts ==
    ASSUME conf \in Conf
    PROVE  /\ OpenedBal \in [Accounts -> Nat]
           /\ OpenedStakes \subseteq Stake
           /\ \A s \in OpenedStakes : s.id = 0 /\ s.nonce <= Cardinality(Members \X Tables)
           /\ Cardinality(Members \X Tables) \in Nat
           /\ ~conf.sat => OpenedStakes = {}
           /\ conf.sat => \A m \in Members, t \in Tables :
                             \E s \in OpenedStakes : s.who = m /\ s.table = t
<1>1. OpenedBal \in [Accounts -> Nat]
  <2>1. ASSUME NEW a \in Accounts PROVE OpenedBal[a] \in Nat
    <3>1. CASE a = House
      BY <3>1, AccountsFacts, AccountsAssumption, AmountsAssumption DEF OpenedBal
    <3>2. CASE a # House /\ a \in Members
      BY <3>2, AmountsAssumption DEF OpenedBal
    <3>3. CASE a # House /\ a \notin Members
      BY <3>3, AmountsAssumption DEF OpenedBal
    <3> QED BY <3>1, <3>2, <3>3
  <2> QED BY <2>1 DEF OpenedBal
<1> DEFINE seats == Members \X Tables
           n     == Cardinality(seats)
           One(f) == f \in [seats -> 1 .. n] /\ \A p, q \in seats : f[p] = f[q] => p = q
<1>2. IsFiniteSet(seats) /\ n \in Nat
  BY FiniteAssumption, FS_Product, FS_CardinalityType
<1>3. \E f \in [seats -> 1 .. n] : \A p, q \in seats : f[p] = f[q] => p = q
  BY SeatsNumbered
<1> DEFINE nonce == CHOOSE f \in [seats -> 1 .. n] : \A p, q \in seats : f[p] = f[q] => p = q
<1>4. nonce \in [seats -> 1 .. n]
  BY <1>3
<1> DEFINE S(p) == [nonce |-> nonce[p], who |-> p[1], table |-> p[2],
                    amount |-> Staked0, id |-> 0, fate |-> "open"]
<1>5. OpenedStakes = IF ~conf.sat THEN {} ELSE {S(p) : p \in seats}
  BY DEF OpenedStakes
<1> HIDE DEF nonce
<1>6. ASSUME NEW p \in seats
      PROVE  S(p) \in Stake /\ S(p).id = 0 /\ S(p).nonce <= n /\ S(p).who = p[1] /\ S(p).table = p[2]
  <2>1. nonce[p] \in Nat /\ nonce[p] <= n
    BY <1>2, <1>4
  <2>2. p[1] \in Members /\ p[2] \in Tables /\ Staked0 \in Nat
    BY AmountsAssumption
  <2> QED BY <2>1, <2>2 DEF Stake, Fates
<1> HIDE DEF S
<1>7. ASSUME NEW m \in Members, NEW t \in Tables
      PROVE  \E p \in seats : p[1] = m /\ p[2] = t
  <2>1. <<m, t>> \in seats
    OBVIOUS
  <2> QED BY <2>1
<1> HIDE DEF seats
<1>8. conf.sat => \A m \in Members, t \in Tables : \E s \in OpenedStakes : s.who = m /\ s.table = t
  <2> SUFFICES ASSUME conf.sat, NEW m \in Members, NEW t \in Tables
               PROVE  \E s \in OpenedStakes : s.who = m /\ s.table = t
    OBVIOUS
  <2>1. PICK p \in seats : p[1] = m /\ p[2] = t
    BY <1>7
  <2>2. S(p) \in OpenedStakes
    BY <1>5
  <2> QED BY <1>6, <2>1, <2>2
<1>9. /\ \A s \in OpenedStakes : s \in Stake /\ s.id = 0 /\ s.nonce <= n
      /\ ~conf.sat => OpenedStakes = {}
  BY <1>5, <1>6
<1> QED BY <1>1, <1>2, <1>8, <1>9 DEF seats

LEMMA Initially ==
    ASSUME Init PROVE TypeInv
<1>1. conf \in Conf /\ conf \in Confs
  BY RequestsAssumption DEF Init
<1>2. club \in ClubState
  <2>1. /\ club = [ledger |-> << >>, bal |-> OpenedBal, stakes |-> OpenedStakes, ops |-> {},
                   banned |-> {}, invites |-> 0]
    BY DEF Init
  <2>2. OpenedBal \in [Accounts -> Nat] /\ OpenedStakes \in SUBSET Stake /\ << >> \in Seq(Entry)
    BY <1>1, OpenedFacts
  <2> QED BY <2>1, <2>2 DEF ClubState
<1>3. issued \in Nat
  BY <1>1, OpenedFacts DEF Init
<1>4. call \in [Calls -> CallState] /\ \A c \in Calls : CallOK(call[c]) /\ call[c].pc = "new"
  <2>1. << >> \in Seq(Draft)
    OBVIOUS
  <2>2. NewCall \in CallState /\ NewCall.pc = "new" /\ NewCall.reclaim = {} /\ NewCall.nonces = {}
    BY <2>1 DEF NewCall, CallState, PCs
  <2> HIDE DEF NewCall
  <2>3. CallOK(NewCall)
    BY <2>2 DEF CallOK, Ended
  <2> QED BY <2>2, <2>3 DEF Init
<1>5. line \in Seq(Calls) /\ LineInv
  <2>1. << >> \in Seq(Calls) /\ DOMAIN << >> = {}
    OBVIOUS
  <2>2. {c \in Calls : call[c].pc \in Holding} = {}
    BY <1>4 DEF Holding
  <2>3. line = << >>
    BY DEF Init
  <2> QED BY <2>1, <2>2, <2>3 DEF LineInv, IsInjective, Range
<1> QED BY <1>1, <1>2, <1>3, <1>4, <1>5 DEF Init, TypeInv

(* Types, and where the locals of every call come from, in every state.      *)
THEOREM Typed == Spec => []TypeInv
<1>1. Init => TypeInv
  BY Initially
<1>2. TypeInv /\ [Next]_vars => TypeInv'
  <2> SUFFICES ASSUME TypeInv, [Next]_vars PROVE TypeInv'
    OBVIOUS
  <2>1. CASE Next
    BY <2>1, Steps
  <2>2. CASE UNCHANGED vars
    BY <2>2 DEF vars, TypeInv, LineInv
  <2> QED BY <2>1, <2>2
<1> QED BY <1>1, <1>2, PTL DEF Spec

(* No account is ever overdrawn, and every variable has its type.           *)
THEOREM BooksTyped == Spec => []TypeOK
<1>1. TypeInv => TypeOK
  BY DEF TypeInv, TypeOK
<1> QED BY <1>1, Typed, PTL

-----------------------------------------------------------------------------
(* What is being signed. *)

(* The entry of a call that is being signed, and what it is about.           *)
Coming(c) == call[c].next.ledger[Len(call[c].next.ledger)]
IdOf(c)   == IF call[c].reclaim = {} THEN call[c].req.id ELSE 0

(* What is stored is the ledger of now with one entry more, which is followed by
   a burn at most.                                                          *)
SignOK(c) ==
    LET k == call[c]
        e == Coming(c)
    IN  /\ e \in Entry /\ k.next.ledger = Append(club.ledger, e)
        /\ k.next.ops = club.ops /\ k.next.banned = {}
        /\ e.by = c /\ e.nonces = k.nonces /\ e.id = IdOf(c)
        /\ e.last <=> k.todo = << >>
        /\ k.todo # << >> => /\ e.kind = "result" /\ k.req.op \in {"settle", "result"}
                             /\ \E a \in Accounts, n \in Nat :
                                   /\ k.todo = <<Burn(a, n)>>
                                   /\ WinnersPay => k.next.bal[a] >= n

SignInv == ~conf.admins => /\ club.banned = {}
                           /\ \A c \in Calls : /\ call[c].pc # "inviting"
                                               /\ call[c].pc = "signing" => SignOK(c)

LEMMA OnlyHeadSigns ==
    ASSUME NEW c, AtWork(c), NEW d \in Calls, d # c PROVE call[d].pc \notin Holding \ {"queued"}
BY InLine DEF AtWork, TypeInv

(* The last of a sequence that has been appended to.                        *)
LEMMA LastOf ==
    ASSUME NEW S, NEW s \in Seq(S), NEW e \in S
    PROVE  Append(s, e)[Len(Append(s, e))] = e
<1> DEFINE t == Append(s, e)
<1>1. t = Append(s, e)
  OBVIOUS
<1> HIDE DEF t
<1>2. Len(t) = Len(s) + 1 /\ t[Len(s) + 1] = e
  BY <1>1, AppendFacts
<1> QED BY <1>2 DEF t

(* Drafts that are left once the first one is signed.                       *)
LEMMA DraftsLeft ==
    ASSUME NEW b \in ClubState, NEW todo \in Seq(Draft), todo # << >>, Drafted(todo),
           Tail(todo) # << >>
    PROVE  /\ Head(todo).kind = "result"
           /\ \E a \in Accounts, n \in Nat :
                 /\ Tail(todo) = <<Burn(a, n)>>
                 /\ WinnersPay => b.bal[a] + Head(todo).lines[a] >= n
<1>1. CASE OneDraft(todo)
  <2>1. PICK d : todo = <<d>>
    BY <1>1 DEF OneDraft
  <2> QED BY <2>1
<1>2. CASE HandDrafts(todo)
  <2>1. PICK d \in Draft, a \in Accounts, n \in Nat :
           d.kind = "result" /\ todo = <<d, Burn(a, n)>> /\ (WinnersPay => d.lines[a] >= n)
    BY <1>2 DEF HandDrafts
  <2> DEFINE u == Burn(a, n)
  <2>2. u \in Draft
    BY BurnFacts
  <2> HIDE DEF u
  <2>3. Head(<<d, u>>) = d /\ Tail(<<d, u>>) = <<u>>
    BY <2>2
  <2>4. b.bal[a] \in Nat /\ d.lines[a] \in Int
    BY DEF ClubState, Draft
  <2>5. WinnersPay => b.bal[a] + d.lines[a] >= n
    BY <2>1, <2>4
  <2> QED BY <2>1, <2>3, <2>5 DEF u
<1> QED BY <1>1, <1>2 DEF Drafted

LEMMA WorkSigns ==
    ASSUME SignInv, ~conf.admins, NEW c, AtWork(c), NEW base \in ClubState,
           NEW todo \in Seq(Draft), Signs(c, base, todo),
           \/ call[c].pc = "signing" /\ base = call[c].next /\ todo = call[c].todo
           \/ Opens(c, base, todo)
    PROVE  /\ SignOK(c)' /\ Coming(c)' = NewEntry(todo, c) /\ call'[c].pc = "signing"
           /\ club' = base /\ IdOf(c)' = IdOf(c) /\ call'[c].next = Entered(base, todo, c)
           /\ call'[c].nonces = call[c].nonces /\ call'[c].reclaim = call[c].reclaim
           /\ call'[c].req = call[c].req
<1> DEFINE next == Entered(base, todo, c)
           e    == NewEntry(todo, c)
<1>1. /\ c \in Calls /\ call[c] \in CallState /\ call[c].req \in Request /\ TypeInv
  BY RequestsAssumption DEF AtWork, TypeInv
<1>2. /\ todo # << >> /\ Valid(Head(todo), base) /\ club' = base
      /\ call'[c] = [call[c] EXCEPT !.pc = "signing", !.todo = Tail(todo), !.next = next]
  BY DEF Signs
<1>3. /\ next \in ClubState /\ next.ledger = Append(base.ledger, e)
      /\ next.ops = base.ops /\ next.banned = base.banned
      /\ \A a \in Accounts : next.bal[a] = base.bal[a] + Head(todo).lines[a]
  BY <1>1, <1>2, EnteredFacts
<1> HIDE DEF next
<1>4. /\ call'[c].pc = "signing" /\ call'[c].todo = Tail(todo) /\ call'[c].next = next
      /\ call'[c].nonces = call[c].nonces /\ call'[c].req = call[c].req
      /\ call'[c].reclaim = call[c].reclaim
  BY <1>1, <1>2 DEF CallState
<1>5. e \in Entry /\ base.ledger \in Seq(Entry)
  BY <1>1, <1>2, NewEntryFacts DEF ClubState
<1>6. /\ e.by = c /\ e.nonces = call[c].nonces /\ e.id = IdOf(c) /\ e.kind = Head(todo).kind
      /\ e.last <=> Tail(todo) = << >>
  BY DEF NewEntry, IdOf
<1> HIDE DEF e
<1>7. Coming(c)' = e
  BY <1>3, <1>4, <1>5, LastOf DEF Coming
<1>8. base.banned = {}
  BY <1>1 DEF SignInv, SignOK, Opens
<1>9. Tail(todo) # << >> =>
        /\ e.kind = "result" /\ call[c].req.op \in {"settle", "result"}
        /\ \E a \in Accounts, n \in Nat : /\ Tail(todo) = <<Burn(a, n)>>
                                          /\ WinnersPay => next.bal[a] >= n
  <2>1. CASE Opens(c, base, todo)
    <3> SUFFICES ASSUME Tail(todo) # << >>
                 PROVE  /\ e.kind = "result" /\ call[c].req.op \in {"settle", "result"}
                        /\ \E a \in Accounts, n \in Nat : /\ Tail(todo) = <<Burn(a, n)>>
                                                          /\ WinnersPay => next.bal[a] >= n
      OBVIOUS
    <3>1. Drafted(todo) /\ call[c].req.op \in {"settle", "result"}
      BY <1>2, <2>1 DEF Opens
    <3>2. Head(todo).kind = "result"
      BY <1>2, <3>1, DraftsLeft
    <3>3. PICK a \in Accounts, n \in Nat :
             /\ Tail(todo) = <<Burn(a, n)>>
             /\ WinnersPay => base.bal[a] + Head(todo).lines[a] >= n
      BY <1>2, <3>1, DraftsLeft
    <3> QED BY <1>3, <1>6, <3>1, <3>2, <3>3
  <2>2. CASE call[c].pc = "signing" /\ todo = call[c].todo
    <3>1. PICK a \in Accounts, n \in Nat : todo = <<Burn(a, n)>>
      BY <1>1, <1>2, <2>2 DEF SignInv, SignOK
    <3> QED BY <3>1
  <2> QED BY <2>1, <2>2
<1>10. IdOf(c)' = IdOf(c)
  BY <1>4 DEF IdOf
<1>11. SignOK(c)'
  BY <1>2, <1>3, <1>4, <1>5, <1>6, <1>7, <1>8, <1>9, <1>10 DEF SignOK
<1> QED BY <1>2, <1>4, <1>7, <1>10, <1>11 DEF next, e

(* Where a call stops, nothing is being signed any more.                    *)
LEMMA WorkStops ==
    ASSUME NEW c, AtWork(c), NEW base \in ClubState, NEW todo \in Seq(Draft), Stops(c, base, todo)
    PROVE  /\ club'.ledger = base.ledger /\ club'.bal = base.bal /\ club'.banned = base.banned
           /\ call'[c].pc \in {"reclaiming", "queued", "ok", "staking", "unseating", "failed"}
           /\ \A d \in Calls : call'[d].pc # "signing"
<1>1. /\ c \in Calls /\ call[c] \in CallState /\ call[c].req \in Request /\ TypeInv
  BY RequestsAssumption DEF AtWork, TypeInv
<1>2. club'.ledger = base.ledger /\ club'.bal = base.bal /\ club'.banned = base.banned
  BY <1>1, FinishedFacts DEF Stops
<1>3. call'[c].pc \in {"reclaiming", "queued", "ok", "staking", "unseating", "failed"}
  BY <1>1 DEF Stops, CallState
<1>4. ASSUME NEW d \in Calls, d # c PROVE call'[d].pc # "signing"
  <2>1. call'[d] = call[d] /\ call[d].pc # "signing"
    BY <1>4, OnlyHeadSigns DEF Stops, Moves, Holding
  <2> QED BY <2>1
<1> QED BY <1>2, <1>3, <1>4

LEMMA TakesStakeFacts ==
    ASSUME NEW c, TakesStake(c)
    PROVE  /\ club'.ledger = club.ledger /\ club'.bal = club.bal /\ club'.banned = club.banned
           /\ club'.ops = club.ops \cup {OpOf(c)} /\ OpOf(c).id = call[c].req.id
           /\ club'.stakes = club.stakes \cup {NewStake(c)}
           /\ NewStake(c).id = call[c].req.id /\ NewStake(c).nonce = issued + 1
           /\ NewStake(c).who = call[c].req.who /\ NewStake(c).table = call[c].req.table
           /\ call[c].reclaim = {} /\ call[c].req.op = "sit"
<1> DEFINE with == [club EXCEPT !.stakes = @ \cup {NewStake(c)}]
<1>1. /\ AtWork(c) /\ call[c].pc = "staking" /\ club' = RecordOp(with, c)
  BY DEF TakesStake
<1>2. /\ c \in Calls /\ call[c] \in CallState /\ call[c].req \in Request /\ club \in ClubState
      /\ CallOK(call[c]) /\ issued \in Nat
  BY <1>1, RequestsAssumption DEF AtWork, TypeInv
<1>3. NewStake(c) \in Stake
  BY <1>2 DEF NewStake, Stake, Fates, Request
<1>4. club.stakes \cup {NewStake(c)} \in SUBSET Stake
  BY <1>2, <1>3 DEF ClubState
<1>5. /\ with \in ClubState /\ with.ledger = club.ledger /\ with.bal = club.bal
      /\ with.banned = club.banned /\ with.ops = club.ops
      /\ with.stakes = club.stakes \cup {NewStake(c)}
  BY <1>2, <1>4 DEF ClubState
<1> HIDE DEF with
<1>6. call[c].reclaim = {} /\ call[c].req.op = "sit"
  BY <1>1, <1>2 DEF CallOK
<1> QED BY <1>1, <1>2, <1>5, <1>6, RecordFacts DEF NewStake

(* What happens beside the call at work only closes stakes.                 *)
LEMMA AsideFacts ==
    ASSUME TypeInv, SignInv, ~conf.admins, Outside \/ \E c : Apart(c)
    PROVE  /\ club'.ledger = club.ledger /\ club'.bal = club.bal /\ club'.banned = club.banned
           /\ club'.ops = club.ops /\ Kept(club'.stakes, club.stakes)
           /\ ~conf.clock => UNCHANGED club
           /\ UNCHANGED <<conf, issued, crashes>>
           /\ \A d \in Calls :
                 /\ call'[d].pc \in Holding \ {"queued"} => call'[d] = call[d]
                 /\ call[d].pc \in Holding => call'[d] = call[d]
                 /\ call[d].pc = "lost" => call'[d].pc = "lost"
                 /\ call'[d].pc # "inviting"
<1>1. club \in ClubState
  BY DEF TypeInv
<1>2. CASE Outside
  BY <1>2, KeptSame DEF Outside, SignInv
<1>3. ASSUME NEW c, Apart(c) PROVE
        /\ \/ UNCHANGED club
           \/ conf.clock /\ \E nonces : club' = Close(club, nonces, "expired")
        /\ UNCHANGED <<conf, issued, crashes>>
        /\ \A d \in Calls :
                 /\ call'[d].pc \in Holding \ {"queued"} => call'[d] = call[d]
                 /\ call[d].pc \in Holding => call'[d] = call[d]
                 /\ call[d].pc = "lost" => call'[d].pc = "lost"
                 /\ call'[d].pc # "inviting"
  <2>1. /\ c \in Calls /\ Moves(c) /\ call[c].pc \in {"new", "standing", "reclaiming", "inviting"}
        /\ call'[c].pc \in {"queued", "ok", "failed", "standing", "reclaiming", "inviting"}
        /\ call'[c].pc # "inviting" /\ call[c].pc # "inviting"
        /\ UNCHANGED issued /\ UNCHANGED frame
    BY <1>3 DEF Apart, SignInv
  <2>2. \/ UNCHANGED club
        \/ conf.clock /\ \E nonces : club' = Close(club, nonces, "expired")
    BY <1>3, <2>1 DEF Apart
  <2>3. \A d \in Calls : d # c => call'[d] = call[d] /\ call[d].pc # "inviting"
    BY <2>1 DEF Moves, SignInv
  <2> QED BY <2>1, <2>2, <2>3 DEF frame, Holding
<1>4. ASSUME NEW nonces, club' = Close(club, nonces, "expired")
      PROVE  /\ club'.ledger = club.ledger /\ club'.bal = club.bal /\ club'.banned = club.banned
             /\ club'.ops = club.ops /\ Kept(club'.stakes, club.stakes)
  <2>1. "expired" \in Fates /\ "expired" # "open"
    BY DEF Fates
  <2> QED BY <1>1, <1>4, <2>1, CloseFacts, CloseKeeps
<1>5. CASE \E c : Apart(c)
  <2>1. PICK c : Apart(c)
    BY <1>5
  <2>2. CASE UNCHANGED club
    BY <1>3, <2>1, <2>2, KeptSame
  <2>3. CASE conf.clock /\ \E nonces : club' = Close(club, nonces, "expired")
    BY <1>3, <1>4, <2>1, <2>3
  <2> QED BY <1>3, <2>1, <2>2, <2>3
<1> QED BY <1>2, <1>5

(* While a call waits for something else than a signature, nothing is signed. *)
LEMMA NoneSigns ==
    ASSUME NEW c, TakesSeat(c) \/ Leaves(c) \/ TakesStake(c)
    PROVE  /\ AtWork(c) /\ Moves(c) /\ UNCHANGED <<conf, crashes>>
           /\ \A d \in Calls : /\ call[d].pc # "signing" /\ call'[d].pc # "signing"
                               /\ d # c => call'[d] = call[d]
           /\ club'.ledger = club.ledger /\ club'.bal = club.bal /\ club'.banned = club.banned
           /\ call'[c].pc \in {"seating", "ok", "failed"}
<1>1. AtWork(c) /\ Moves(c) /\ call[c].pc # "signing" /\ UNCHANGED <<conf, crashes>>
  BY DEF TakesSeat, Leaves, TakesStake, frame
<1>2. call'[c].pc \in {"seating", "ok", "failed"}
  <2>1. call[c] \in CallState
    BY <1>1 DEF AtWork, TypeInv
  <2> QED BY <2>1 DEF TakesSeat, Leaves, TakesStake, CallState
<1>3. \A d \in Calls : d # c => call[d].pc # "signing" /\ call'[d] = call[d]
  BY <1>1, OnlyHeadSigns DEF Holding, Moves
<1>4. club'.ledger = club.ledger /\ club'.bal = club.bal /\ club'.banned = club.banned
  BY TakesStakeFacts DEF TakesSeat, Leaves
<1> QED BY <1>1, <1>2, <1>3, <1>4

LEMMA SignKept ==
    ASSUME TypeInv, SignInv, Step PROVE SignInv'
<1> SUFFICES ASSUME ~conf'.admins
             PROVE  /\ club'.banned = {}
                    /\ \A d \in Calls : /\ call'[d].pc # "inviting"
                                        /\ call'[d].pc = "signing" => SignOK(d)'
  BY DEF SignInv
<1>1. conf' = conf
  BY DEF Step, Works, TakesSeat, Leaves, TakesStake, Apart, Dies, Outside, frame
<1>2. /\ club.banned = {}
      /\ \A d \in Calls : /\ call[d].pc # "inviting"
                          /\ call[d].pc = "signing" => SignOK(d)
  BY <1>1 DEF SignInv
<1>3. ASSUME NEW c \in Calls, Works(c)
      PROVE  /\ club'.banned = {}
             /\ \A d \in Calls : /\ call'[d].pc # "inviting"
                                 /\ call'[d].pc = "signing" => SignOK(d)'
  <2>1. PICK base \in ClubState, todo \in Seq(Draft) :
          /\ Signs(c, base, todo) \/ Stops(c, base, todo)
          /\ \/ call[c].pc = "signing" /\ base = call[c].next /\ todo = call[c].todo
             \/ Opens(c, base, todo)
    BY <1>3 DEF Works
  <2>2. AtWork(c) /\ Moves(c)
    BY <1>3, <2>1 DEF Works, Signs, Stops
  <2>3. base.banned = {}
    BY <1>2, <2>1 DEF SignOK, Opens
  <2>4. ASSUME NEW d \in Calls, d # c PROVE call'[d].pc # "inviting" /\ call'[d].pc # "signing"
    BY <1>2, <2>2, <2>4, OnlyHeadSigns DEF Moves, Holding
  <2>5. CASE Signs(c, base, todo)
    BY <1>1, <2>1, <2>2, <2>3, <2>4, <2>5, WorkSigns
  <2>6. CASE Stops(c, base, todo)
    BY <2>1, <2>2, <2>3, <2>4, <2>6, WorkStops
  <2> QED BY <2>1, <2>5, <2>6
<1>4. ASSUME NEW c \in Calls, TakesSeat(c) \/ Leaves(c) \/ TakesStake(c)
      PROVE  /\ club'.banned = {}
             /\ \A d \in Calls : /\ call'[d].pc # "inviting"
                                 /\ call'[d].pc = "signing" => SignOK(d)'
  BY <1>2, <1>4, NoneSigns
<1>5. CASE Outside \/ \E c : Apart(c)
  <2>1. /\ club'.ledger = club.ledger /\ club'.ops = club.ops /\ club'.banned = {}
        /\ \A d \in Calls : /\ call'[d].pc = "signing" => call'[d] = call[d]
                            /\ call'[d].pc # "inviting"
    BY <1>1, <1>2, <1>5, AsideFacts DEF Holding
  <2>2. ASSUME NEW d \in Calls, call'[d].pc = "signing" PROVE SignOK(d)'
    <3>1. call'[d] = call[d] /\ SignOK(d)
      BY <1>2, <2>1, <2>2
    <3> QED BY <2>1, <3>1 DEF SignOK, Coming, IdOf
  <2> QED BY <2>1, <2>2
<1>6. CASE Dies
  BY <1>2, <1>6 DEF Dies, Ended
<1> QED BY <1>3, <1>4, <1>5, <1>6 DEF Step

(* The burn that follows a result is stored, or is being signed, or was lost
   with the process.                                                        *)
Followed(i) ==
    LET c == club.ledger[i].by
    IN  \/ call[c].pc = "lost"
        \/ i < Len(club.ledger) /\ club.ledger[i + 1].kind = "burn" /\ club.ledger[i + 1].by = c
        \/ i = Len(club.ledger) /\ call[c].pc = "signing" /\ Coming(c).kind = "burn"

HandInv == WinnersPay /\ ~conf.admins =>
               \A i \in DOMAIN club.ledger :
                  (Result(i) /\ ~club.ledger[i].last) => Followed(i)

LEMMA BurnValid ==
    ASSUME NEW b \in ClubState, b.banned = {}, NEW a \in Accounts, NEW n \in Nat, b.bal[a] >= n
    PROVE  Valid(Burn(a, n), b)
<1>1. \A x \in Accounts : Burn(a, n).lines[x] = IF x = a THEN -n ELSE 0
  BY BurnFacts
<1>2. \A x \in Accounts : b.bal[x] \in Nat
  BY DEF ClubState
<1> QED BY <1>1, <1>2 DEF Valid

(* What a call at work does to the ledger.                                  *)
LEMMA WorkAppends ==
    ASSUME TypeInv, SignInv, ~conf.admins, NEW c, Works(c)
    PROVE  \E base \in ClubState, todo \in Seq(Draft) :
             /\ AtWork(c) /\ Moves(c) /\ (Signs(c, base, todo) \/ Stops(c, base, todo))
             /\ club'.ledger = base.ledger /\ club'.bal = base.bal
             /\ \/ /\ Opens(c, base, todo) /\ club'.ledger = club.ledger
                   /\ \A d \in Calls : call[d].pc # "signing"
                \/ /\ call[c].pc = "signing" /\ base = call[c].next /\ todo = call[c].todo
                   /\ SignOK(c) /\ club'.ledger = Append(club.ledger, Coming(c))
                   /\ todo # << >> => Head(todo).kind = "burn"
                   /\ WinnersPay /\ todo # << >> => Signs(c, base, todo)
<1>1. PICK base \in ClubState, todo \in Seq(Draft) :
        /\ Signs(c, base, todo) \/ Stops(c, base, todo)
        /\ \/ call[c].pc = "signing" /\ base = call[c].next /\ todo = call[c].todo
           \/ Opens(c, base, todo)
  BY DEF Works
<1>2. AtWork(c) /\ Moves(c) /\ c \in Calls
  BY <1>1 DEF Works, Signs, Stops, AtWork
<1>3. club'.ledger = base.ledger /\ club'.bal = base.bal
  BY <1>1, <1>2, WorkStops DEF Signs
<1>4. CASE Opens(c, base, todo)
  <2>1. \A d \in Calls : call[d].pc # "signing"
    BY <1>2, <1>4, OnlyHeadSigns DEF Opens, Holding
  <2> QED BY <1>1, <1>2, <1>3, <1>4, <2>1 DEF Opens
<1>5. CASE call[c].pc = "signing" /\ base = call[c].next /\ todo = call[c].todo
  <2>1. SignOK(c)
    BY <1>2, <1>5 DEF SignInv
  <2>2. club'.ledger = Append(club.ledger, Coming(c))
    BY <1>3, <1>5, <2>1 DEF SignOK
  <2>3. ASSUME todo # << >>
        PROVE  /\ Head(todo).kind = "burn"
               /\ WinnersPay => Signs(c, base, todo)
    <3>1. PICK a \in Accounts, n \in Nat :
            todo = <<Burn(a, n)>> /\ (WinnersPay => base.bal[a] >= n)
      BY <1>5, <2>1, <2>3 DEF SignOK
    <3> DEFINE u == Burn(a, n)
    <3>2. u.kind = "burn"
      BY BurnFacts
    <3>3. WinnersPay => Valid(u, base)
      BY <1>5, <2>1, <3>1, BurnValid DEF SignOK
    <3>4. todo = <<u>>
      BY <3>1
    <3> HIDE DEF u
    <3>5. Head(todo) = u
      BY <3>4
    <3> QED BY <1>1, <2>3, <3>2, <3>3, <3>5 DEF Stops
  <2> QED BY <1>1, <1>2, <1>3, <1>5, <2>1, <2>2, <2>3
<1> QED BY <1>1, <1>4, <1>5

(* A result keeps its burn: whoever stored it is the one who signs next, and
   the burn that is signed can be paid.                                     *)
LEMMA HandKept ==
    ASSUME TypeInv, SignInv, HandInv, Step PROVE HandInv'
<1> SUFFICES ASSUME WinnersPay, ~conf'.admins, NEW i \in DOMAIN club'.ledger,
                    Result(i)', ~club'.ledger[i].last
             PROVE  Followed(i)'
  BY DEF HandInv, WinnersPay
<1>1. conf' = conf
  BY DEF Step, Works, TakesSeat, Leaves, TakesStake, Apart, Dies, Outside, frame
<1>2. club.ledger \in Seq(Entry) /\ DOMAIN club.ledger = 1 .. Len(club.ledger)
      /\ Len(club.ledger) \in Nat
  BY LenProperties DEF TypeInv, ClubState
<1>3. ASSUME NEW j \in DOMAIN club.ledger PROVE club.ledger[j].by \in Calls
  <2>1. club.ledger[j] \in Entry
    BY <1>2, SeqEntries
  <2> QED BY <2>1 DEF Entry
<1>4. \A j \in DOMAIN club.ledger : Result(j) /\ ~club.ledger[j].last => Followed(j)
  BY <1>1 DEF HandInv
(* A ledger that nobody appends to, and calls that do not sign.             *)
<1>5. ASSUME club'.ledger = club.ledger,
             \A d \in Calls : call[d].pc = "lost" => call'[d].pc = "lost",
             \A d \in Calls : call[d].pc = "signing" => call'[d] = call[d] \/ call'[d].pc = "lost"
      PROVE  Followed(i)'
  <2> DEFINE d == club.ledger[i].by
  <2>1. d \in Calls /\ Followed(i) /\ d = club'.ledger[i].by
    BY <1>3, <1>4, <1>5 DEF Result
  <2>2. CASE call[d].pc = "signing" /\ call'[d] = call[d]
    BY <1>5, <2>1, <2>2 DEF Followed, Coming
  <2>3. CASE call'[d].pc = "lost"
    BY <2>1, <2>3 DEF Followed
  <2>4. CASE call[d].pc # "signing" /\ call'[d].pc # "lost"
    BY <1>5, <2>1, <2>4 DEF Followed
  <2> QED BY <1>5, <2>1, <2>2, <2>3, <2>4
<1>6. ASSUME NEW c \in Calls, Works(c) PROVE Followed(i)'
  <2>1. PICK base \in ClubState, todo \in Seq(Draft) :
             /\ AtWork(c) /\ Moves(c) /\ (Signs(c, base, todo) \/ Stops(c, base, todo))
             /\ \/ /\ Opens(c, base, todo) /\ club'.ledger = club.ledger
                   /\ \A d \in Calls : call[d].pc # "signing"
                \/ /\ call[c].pc = "signing" /\ base = call[c].next /\ todo = call[c].todo
                   /\ SignOK(c) /\ club'.ledger = Append(club.ledger, Coming(c))
                   /\ todo # << >> => Head(todo).kind = "burn" /\ Signs(c, base, todo)
    BY <1>1, <1>6, WorkAppends
  <2>2. \A d \in Calls : call[d].pc = "lost" => call'[d].pc = "lost"
    <3>1. call[c].pc # "lost"
      BY <2>1 DEF Opens
    <3> QED BY <2>1, <3>1 DEF Moves
  <2>3. CASE club'.ledger = club.ledger /\ \A d \in Calls : call[d].pc # "signing"
    BY <1>5, <2>2, <2>3
  <2>4. CASE /\ call[c].pc = "signing" /\ base = call[c].next /\ todo = call[c].todo
             /\ SignOK(c) /\ club'.ledger = Append(club.ledger, Coming(c))
             /\ todo # << >> => Head(todo).kind = "burn" /\ Signs(c, base, todo)
    <3> DEFINE n == Len(club.ledger)
    <3>1. /\ Coming(c) \in Entry /\ Coming(c).by = c
          /\ DOMAIN club'.ledger = 1 .. n + 1 /\ Len(club'.ledger) = n + 1
          /\ club'.ledger[n + 1] = Coming(c) /\ \A j \in 1 .. n : club'.ledger[j] = club.ledger[j]
      BY <1>2, <2>4, AppendFacts DEF SignOK
    <3>2. CASE i \in 1 .. n
      <4> DEFINE d == club.ledger[i].by
      <4>1. d \in Calls /\ Followed(i) /\ d = club'.ledger[i].by
        BY <1>2, <1>3, <1>4, <3>1, <3>2 DEF Result
      <4>2. CASE call[d].pc = "lost"
        BY <2>2, <4>1, <4>2 DEF Followed
      <4>3. CASE i < n /\ club.ledger[i + 1].kind = "burn" /\ club.ledger[i + 1].by = d
        <5>1. i + 1 \in 1 .. n /\ i < n + 1
          BY <1>2, <3>2, <4>3
        <5> QED BY <3>1, <4>1, <4>3, <5>1 DEF Followed
      <4>4. CASE i = n /\ call[d].pc = "signing" /\ Coming(d).kind = "burn"
        <5>1. d = c
          BY <2>1, <4>1, <4>4, OnlyHeadSigns DEF Holding
        <5>2. i < n + 1
          BY <1>2, <4>4
        <5> QED BY <3>1, <4>1, <4>4, <5>1, <5>2 DEF Followed
      <4> QED BY <4>1, <4>2, <4>3, <4>4 DEF Followed
    <3>3. CASE i = n + 1
      <4>1. todo # << >>
        BY <2>4, <3>1, <3>3 DEF SignOK
      <4>2. Signs(c, base, todo) /\ Head(todo).kind = "burn"
        BY <2>4, <4>1
      <4>3. call'[c].pc = "signing" /\ Coming(c)' = NewEntry(todo, c)
        BY <1>1, <2>1, <2>4, <4>2, WorkSigns
      <4>4. Coming(c)'.kind = "burn"
        BY <4>2, <4>3 DEF NewEntry
      <4> QED BY <3>1, <3>3, <4>3, <4>4 DEF Followed
    <3> QED BY <1>2, <3>1, <3>2, <3>3
  <2> QED BY <2>1, <2>3, <2>4
<1>7. ASSUME NEW c \in Calls, TakesSeat(c) \/ Leaves(c) \/ TakesStake(c) PROVE Followed(i)'
  <2>1. call[c].pc # "lost"
    BY <1>7 DEF TakesSeat, Leaves, TakesStake
  <2> QED BY <1>5, <1>7, <2>1, NoneSigns
<1>8. CASE Outside \/ \E c : Apart(c)
  BY <1>1, <1>5, <1>8, AsideFacts DEF Holding
<1>9. CASE Dies
  BY <1>5, <1>9 DEF Dies, Ended
<1> QED BY <1>6, <1>7, <1>8, <1>9 DEF Step

LEMMA InitSigned ==
    ASSUME Init PROVE SignInv /\ HandInv /\ (\A c \in Calls : call[c].pc = "new")
<1>1. club.ledger = << >> /\ club.banned = {}
  BY DEF Init
<1>2. \A c \in Calls : call[c].pc = "new"
  BY DEF Init, NewCall
<1>3. DOMAIN << >> = {}
  OBVIOUS
<1> QED BY <1>1, <1>2, <1>3 DEF SignInv, HandInv

(* A state in which everything stays: what is true of it is true of the next. *)
LEMMA SignStutter ==
    ASSUME TypeInv, SignInv, HandInv, UNCHANGED vars PROVE SignInv' /\ HandInv'
<1>1. UNCHANGED <<club, call, conf>>
  BY DEF vars
<1>2. \A c : SignOK(c)' <=> SignOK(c)
  BY <1>1 DEF SignOK, Coming, IdOf
<1>3. \A i : (Followed(i)' <=> Followed(i)) /\ (Result(i)' <=> Result(i))
  BY <1>1 DEF Followed, Coming, Result
<1> QED BY <1>1, <1>2, <1>3 DEF SignInv, HandInv, WinnersPay

(* What is signed is the ledger of now and one entry more, in every state; and a
   result whose burn is to come is the last entry until it came.             *)
THEOREM Signing == Spec => [](TypeInv /\ SignInv /\ HandInv)
<1> DEFINE Inv == TypeInv /\ SignInv /\ HandInv
<1>1. Init => Inv
  BY Initially, InitSigned
<1>2. Inv /\ [Next]_vars => Inv'
  <2> SUFFICES ASSUME Inv, [Next]_vars PROVE Inv'
    OBVIOUS
  <2>1. CASE Next
    BY <2>1, Steps, SignKept, HandKept
  <2>2. CASE UNCHANGED vars
    <3>1. TypeInv'
      BY <2>2 DEF vars, TypeInv, LineInv
    <3> QED BY <2>2, <3>1, SignStutter
  <2> QED BY <2>1, <2>2
<1> QED BY <1>1, <1>2, PTL DEF Spec

(* "The result and its rake burn are one serialised step", crashes included, when
   those who win from a hand or a tally can pay its rake.                   *)
THEOREM HandsWhole ==
    ASSUME WinnersPay PROVE Spec => []HandWhole
<1>1. TypeInv /\ SignInv /\ HandInv => HandWhole
  <2> SUFFICES ASSUME TypeInv, HandInv, ~conf.admins, NEW i \in DOMAIN club.ledger,
                      Result(i), i < Len(club.ledger), call[club.ledger[i].by].pc # "lost",
                      ~club.ledger[i].last
               PROVE  /\ club.ledger[i + 1].kind = "burn"
                      /\ club.ledger[i + 1].by = club.ledger[i].by
    BY DEF HandWhole
  <2>1. Followed(i)
    BY DEF HandInv
  <2>2. i # Len(club.ledger)
    BY LenProperties DEF TypeInv, ClubState
  <2> QED BY <2>1, <2>2 DEF Followed
<1> QED BY <1>1, Signing, PTL

(* A ledger is only ever appended to.                                       *)
LEMMA LedgerGrows ==
    ASSUME TypeInv, SignInv, ~conf.admins, Step
    PROVE  \/ club'.ledger = club.ledger
           \/ \E e \in Entry : club'.ledger = Append(club.ledger, e)
<1>1. ASSUME NEW c, Works(c)
      PROVE  \/ club'.ledger = club.ledger
             \/ \E e \in Entry : club'.ledger = Append(club.ledger, e)
  BY <1>1, WorkAppends DEF SignOK
<1>2. CASE Outside \/ \E c : Apart(c)
  BY <1>2, AsideFacts
<1> QED BY <1>1, <1>2, NoneSigns DEF Step, Dies

(* "Two concurrent appends reading the same base state would otherwise lose one of
   the entries": in a club whose admins neither ban nor invite, whatever is
   called and whenever the process dies, no entry is lost.  The run club_invite
   has an invite lose one.                                                  *)
THEOREM LedgerKept ==
    ASSUME \A k \in Confs : ~k.admins PROVE Spec => EntriesKept
<1> DEFINE A == /\ Len(club'.ledger) >= Len(club.ledger)
                /\ SubSeq(club'.ledger, 1, Len(club.ledger)) = club.ledger
<1>1. ASSUME TypeInv, SignInv, [Next]_vars PROVE [A]_vars
  <2>1. CASE UNCHANGED vars
    BY <2>1
  <2>2. CASE Next
    <3> DEFINE s == club.ledger
               t == club'.ledger
    <3>1. s \in Seq(Entry) /\ Len(s) \in Nat /\ DOMAIN s = 1 .. Len(s)
      BY <1>1, LenProperties DEF TypeInv, ClubState
    <3>2. ~conf.admins
      BY <1>1 DEF TypeInv
    <3>3. t = s \/ \E e \in Entry : t = Append(s, e)
      BY <1>1, <2>2, <3>2, Steps, LedgerGrows
    <3> HIDE DEF s, t
    <3>4. CASE t = s
      BY <3>1, <3>4, SubSeqFull DEF s, t
    <3>5. ASSUME NEW e \in Entry, t = Append(s, e) PROVE A
      <4>1. /\ t \in Seq(Entry) /\ Len(t) = Len(s) + 1
            /\ \A i \in 1 .. Len(s) : t[i] = s[i] /\ t[i] \in Entry
        BY <3>1, <3>5, AppendFacts, SeqEntries
      <4> DEFINE u == SubSeq(t, 1, Len(s))
      <4>2. /\ u \in Seq(Entry)
            /\ Len(u) = IF 1 <= Len(s) THEN Len(s) - 1 + 1 ELSE 0
            /\ \A i \in 1 .. Len(s) - 1 + 1 : u[i] = t[1 + i - 1]
        BY <3>1, <4>1, SubSeqProperties
      <4> HIDE DEF u
      <4>3. Len(u) = Len(s) /\ \A i \in 1 .. Len(u) : u[i] = s[i]
        BY <3>1, <4>1, <4>2
      <4>4. u = s
        BY <3>1, <4>2, <4>3, SeqEqual
      <4> QED BY <3>1, <4>1, <4>4 DEF u, s, t
    <3> QED BY <3>3, <3>4, <3>5
  <2> QED BY <1>1, <2>1, <2>2
<1>2. TypeInv /\ SignInv /\ [Next]_vars => [A]_vars
  BY <1>1
<1> QED BY <1>2, Signing, PTL DEF Spec, EntriesKept

-----------------------------------------------------------------------------
(* Chips on a table. *)

Takes(t, m, stakes) == \E s \in stakes : s.who = m /\ s.table = t

(* The call gives a member a seat at a table.                               *)
Seats(c, t, m) == /\ call[c].req.op = "sit" /\ call[c].reclaim = {}
                  /\ call[c].req.who = m /\ call[c].req.table = t

(* Whoever has chips on a table, or will have them when the entry that is being
   signed is stored, has a stake there, or is being given a seat.           *)
Held(t, m) ==
    /\ club.bal[<<t, m>>] > 0 =>
          \/ Takes(t, m, club.stakes)
          \/ \E c \in Calls : call[c].pc = "staking" /\ Seats(c, t, m)
    /\ \A c \in Calls : call[c].pc = "signing" =>
          /\ call[c].next.stakes = club.stakes
          /\ call[c].next.bal[<<t, m>>] > 0 => Takes(t, m, club.stakes) \/ Seats(c, t, m)
    /\ \A c \in Calls :
          (/\ call[c].pc = "queued" /\ call[c].req.op \in {"settle", "result"}
           /\ call[c].req.to = m /\ call[c].req.table = t) => Takes(t, m, club.stakes)

Timeless == ~conf.admins /\ crashes = 0 /\ ~conf.clock

StrandInv == Timeless => \A t \in Tables, m \in Members : Held(t, m)

(* The configuration stays, and a process that did not die before this step and
   did not die in it has never died.                                        *)
LEMMA Lives ==
    ASSUME TypeInv, Step
    PROVE  conf' = conf /\ (crashes' = 0 => crashes = 0 /\ ~Dies)
<1>1. ASSUME Dies PROVE conf' = conf /\ crashes' # 0
  BY <1>1 DEF Dies, TypeInv
<1>2. ASSUME ~Dies PROVE conf' = conf /\ crashes' = crashes
  BY <1>2 DEF Step, Works, TakesSeat, Leaves, TakesStake, Apart, Outside, frame
<1> QED BY <1>1, <1>2

LEMMA KeptTakes ==
    ASSUME NEW new, NEW old, Kept(new, old), NEW t, NEW m
    PROVE  Takes(t, m, new) <=> Takes(t, m, old)
BY DEF Kept, Takes

(* Closing and forgetting stakes takes nobody's seat, while none is forgotten. *)
LEMMA FinishedTakes ==
    ASSUME NEW b \in ClubState, NEW c \in Calls, call[c] \in CallState, call[c].req \in Request,
           aged = {}, NEW t, NEW m
    PROVE  Takes(t, m, Finished(c, b).stakes) <=> Takes(t, m, b.stakes)
<1> DEFINE closed == Close(b, call[c].nonces, "settled")
<1>1. CASE call[c].req.op = "settle"
  <2>1. "settled" \in Fates /\ "settled" # "open"
    BY DEF Fates
  <2>2. closed \in ClubState /\ Kept(closed.stakes, b.stakes)
    BY <2>1, CloseFacts, CloseKeeps
  <2> HIDE DEF closed
  <2>3. Prune(closed).stakes = closed.stakes
    BY <2>2, PruneFacts
  <2>4. Finished(c, b).stakes = closed.stakes
    BY <1>1, <2>3, FinishedFacts DEF closed
  <2> QED BY <2>2, <2>4, KeptTakes
<1>2. CASE call[c].req.op # "settle"
  BY <1>2, FinishedFacts
<1> QED BY <1>1, <1>2

(* The step of the call at work: chips only go onto a table for whoever has a
   stake there or is being seated.                                          *)
LEMMA StrandWorks ==
    ASSUME TypeInv, SignInv, StrandInv, Timeless, NEW c, Works(c),
           NEW t \in Tables, NEW m \in Members
    PROVE  Held(t, m)'
<1>1. PICK base \in ClubState, todo \in Seq(Draft) :
        /\ Signs(c, base, todo) \/ Stops(c, base, todo)
        /\ \/ call[c].pc = "signing" /\ base = call[c].next /\ todo = call[c].todo
           \/ Opens(c, base, todo)
  BY DEF Works
<1>2. /\ c \in Calls /\ call[c] \in CallState /\ call[c].req \in Request /\ AtWork(c) /\ Moves(c)
      /\ CallOK(call[c]) /\ ~conf.admins /\ aged = {}
  BY <1>1, RequestsAssumption DEF Works, AtWork, TypeInv, Signs, Stops, Timeless
<1>3. Held(t, m) /\ (call[c].pc = "signing" => SignOK(c))
  BY <1>2 DEF StrandInv, SignInv
<1>4. Takes(t, m, base.stakes) <=> Takes(t, m, club.stakes)
  BY <1>1, <1>2, <1>3, KeptTakes DEF Opens, Held
<1>5. ASSUME NEW d \in Calls, d # c
      PROVE  /\ call'[d] = call[d] /\ call[d].pc # "signing" /\ call[d].pc # "staking"
  BY <1>2, <1>5, OnlyHeadSigns DEF Moves, Holding
<1>6. base.bal[<<t, m>>] \in Nat
  BY AccountsFacts DEF ClubState
(* What is stored now.                                                      *)
<1>7. base.bal[<<t, m>>] > 0 =>
        \/ Takes(t, m, base.stakes)
        \/ call[c].pc = "signing" /\ Seats(c, t, m)
  <2>1. CASE Opens(c, base, todo)
    <3>1. call[c].pc # "staking" /\ base.bal = club.bal
      BY <2>1 DEF Opens
    <3> QED BY <1>3, <1>4, <1>5, <3>1 DEF Held
  <2>2. CASE call[c].pc = "signing" /\ base = call[c].next
    BY <1>2, <1>3, <1>4, <2>2 DEF Held
  <2> QED BY <1>1, <2>1, <2>2
<1>8. CASE Signs(c, base, todo)
  <2>0. todo # << >>
    BY <1>8 DEF Signs
  <2>1. /\ todo # << >> /\ club' = base /\ call'[c].pc = "signing"
        /\ call'[c].next = Entered(base, todo, c) /\ call'[c].req = call[c].req
        /\ call'[c].reclaim = call[c].reclaim
    BY <1>1, <1>2, <1>8, <2>0, WorkSigns
  <2>2. /\ call'[c].next.stakes = base.stakes
        /\ call'[c].next.bal[<<t, m>>] = base.bal[<<t, m>>] + Head(todo).lines[<<t, m>>]
    BY <1>2, <1>8, <2>1, EnteredFacts, AccountsFacts DEF Signs
  <2>3. Head(todo).lines[<<t, m>>] \in Int
    BY <1>2, <2>1, NewEntryFacts, AccountsFacts DEF Draft
  <2>4. ~(call[c].pc = "signing" /\ Seats(c, t, m))
    BY <1>1, <1>3, <2>1 DEF SignOK, Seats, Opens
  <2>5. Head(todo).lines[<<t, m>>] > 0 => Takes(t, m, base.stakes) \/ Seats(c, t, m)
    <3>1. CASE Opens(c, base, todo)
      <4> SUFFICES ASSUME Head(todo).lines[<<t, m>>] > 0
                   PROVE  Takes(t, m, base.stakes) \/ Seats(c, t, m)
        OBVIOUS
      <4>1. Receives(c, t, m) /\ call[c].pc \in {"queued", "seating"}
        BY <2>1, <3>1 DEF Opens
      <4>2. CASE call[c].req.op = "sit"
        BY <4>1, <4>2 DEF Receives, Seats
      <4>3. CASE call[c].req.op \in {"settle", "result"}
        <5>1. call[c].pc = "queued"
          BY <1>2, <4>1, <4>3 DEF CallOK
        <5> QED BY <1>2, <1>3, <1>4, <4>1, <4>3, <5>1 DEF Held, Receives
      <4> QED BY <4>1, <4>2, <4>3 DEF Receives
    <3>2. CASE call[c].pc = "signing" /\ todo = call[c].todo
      <4>1. PICK a \in Accounts, n \in Nat : todo = <<Burn(a, n)>>
        BY <1>3, <2>1, <3>2 DEF SignOK
      <4> DEFINE u == Burn(a, n)
      <4>2. \A x \in Accounts : ~(u.lines[x] > 0)
        BY BurnFacts
      <4>3. todo = <<u>>
        BY <4>1
      <4> HIDE DEF u
      <4> QED BY <4>2, <4>3, AccountsFacts
    <3> QED BY <1>1, <3>1, <3>2
  <2>6. club'.bal[<<t, m>>] > 0 => Takes(t, m, club'.stakes)
    BY <1>7, <2>1, <2>4
  <2>7. call'[c].next.bal[<<t, m>>] > 0 => Takes(t, m, club'.stakes) \/ Seats(c, t, m)'
    <3>1. Seats(c, t, m)' <=> Seats(c, t, m)
      BY <2>1 DEF Seats
    <3> QED BY <1>6, <1>7, <2>1, <2>2, <2>3, <2>4, <2>5, <3>1
  <2>8. Takes(t, m, club'.stakes) <=> Takes(t, m, club.stakes)
    BY <1>4, <2>1
  <2> QED BY <1>3, <1>5, <2>1, <2>2, <2>6, <2>7, <2>8 DEF Held
<1>9. CASE Stops(c, base, todo)
  <2>1. /\ club'.bal = base.bal /\ \A d \in Calls : call'[d].pc # "signing"
    BY <1>2, <1>9, WorkStops
  <2>2. Takes(t, m, club'.stakes) <=> Takes(t, m, base.stakes)
    BY <1>2, <1>9, FinishedTakes DEF Stops
  <2>3. ASSUME call[c].pc = "signing", Seats(c, t, m)
        PROVE  call'[c].pc = "staking" /\ Seats(c, t, m)'
    <3>1. todo = << >>
      BY <1>1, <1>3, <2>3 DEF SignOK, Seats, Opens
    <3>2. call'[c] = [call[c] EXCEPT !.pc = "staking"]
      BY <1>9, <2>3, <3>1 DEF Stops, Seats
    <3>3. "staking" \in PCs
      BY DEF PCs
    <3>4. /\ call'[c].pc = "staking" /\ call'[c].req = call[c].req
          /\ call'[c].reclaim = call[c].reclaim
      BY <1>2, <3>2, <3>3, PlaceFacts
    <3> QED BY <2>3, <3>4 DEF Seats
  <2>4. call'[c].pc = "queued" => call'[c].req.op \in {"sit", "lobby"}
    BY <1>2, <1>9 DEF Stops, CallOK, CallState
  <2> QED BY <1>2, <1>3, <1>4, <1>5, <1>7, <2>1, <2>2, <2>3, <2>4 DEF Held
<1> QED BY <1>1, <1>8, <1>9

LEMMA StrandKept ==
    ASSUME TypeInv, SignInv, StrandInv, Step PROVE StrandInv'
<1> SUFFICES ASSUME Timeless', NEW t \in Tables, NEW m \in Members
             PROVE  Held(t, m)'
  BY Zenon DEF StrandInv
<1>1. Timeless /\ ~Dies
  BY Lives DEF Timeless
<1>2. Held(t, m)
  BY <1>1 DEF StrandInv
<1>3. ASSUME NEW c \in Calls, TakesSeat(c) \/ Leaves(c)
      PROVE  Held(t, m)'
  <2>1. /\ UNCHANGED club /\ AtWork(c) /\ call[c].pc # "staking"
        /\ \A d \in Calls : /\ call[d].pc # "signing" /\ call'[d].pc # "signing"
                            /\ d # c => call'[d] = call[d]
        /\ call'[c].pc \in {"seating", "ok", "failed"}
    BY <1>3, NoneSigns DEF TakesSeat, Leaves
  <2>2. \A d \in Calls : call[d].pc # "staking"
    BY <2>1, OnlyHeadSigns DEF Holding
  <2> QED BY <1>2, <2>1, <2>2 DEF Held
<1>4. ASSUME NEW c \in Calls, TakesStake(c)
      PROVE  Held(t, m)'
  <2>1. /\ AtWork(c) /\ club'.bal = club.bal /\ club'.stakes = club.stakes \cup {NewStake(c)}
        /\ NewStake(c).who = call[c].req.who /\ NewStake(c).table = call[c].req.table
        /\ \A d \in Calls : call'[d].pc # "signing" /\ (d # c => call'[d] = call[d])
        /\ call'[c].pc = "ok"
    BY <1>4, NoneSigns, TakesStakeFacts DEF TakesStake
  <2>2. \A d \in Calls : d # c => call[d].pc # "staking"
    BY <2>1, OnlyHeadSigns DEF Holding
  <2>3. Takes(t, m, club.stakes) => Takes(t, m, club'.stakes)
    BY <2>1 DEF Takes
  <2>4. Seats(c, t, m) => Takes(t, m, club'.stakes)
    BY <2>1 DEF Takes, Seats
  <2> QED BY <1>2, <2>1, <2>2, <2>3, <2>4 DEF Held
<1>5. ASSUME Outside \/ \E c : Apart(c)
      PROVE  Held(t, m)'
  <2>1. /\ UNCHANGED club
        /\ \A d \in Calls : /\ call'[d].pc \in Holding \ {"queued"} => call'[d] = call[d]
                            /\ call[d].pc \in Holding => call'[d] = call[d]
    BY <1>1, <1>5, AsideFacts DEF Timeless
  <2>2. ASSUME NEW d \in Calls, call'[d].pc = "queued", call[d].pc # "queued",
               call'[d].req.op \in {"settle", "result"}, call'[d].req.to = m,
               call'[d].req.table = t
        PROVE  Takes(t, m, club.stakes)
    <3>1. PICK c : Apart(c)
      BY <1>5, <2>2 DEF Outside
    <3>2. d = c
      BY <2>2, <3>1 DEF Apart, Moves
    <3>3. Stakes(m, t) # {}
      BY <2>2, <3>1, <3>2 DEF Apart
    <3> QED BY <3>3 DEF Stakes, Takes
  <2>3. \A d \in Calls : call[d].pc = "staking" => call'[d] = call[d]
    BY <2>1 DEF Holding
  <2>4. \A d \in Calls : call[d].pc = "queued" => call'[d] = call[d]
    BY <2>1 DEF Holding
  <2>5. \A d \in Calls : call'[d].pc = "signing" => call'[d] = call[d]
    BY <2>1 DEF Holding
  <2> QED BY <1>2, <2>1, <2>2, <2>3, <2>4, <2>5 DEF Held, Seats
<1> QED BY <1>1, <1>2, <1>3, <1>4, <1>5, StrandWorks DEF Step

-----------------------------------------------------------------------------
(* Operations that are repeated. *)

Recorded(id) == \E o \in club.ops : o.id = id

(* As long as the process lives and no admin interferes.                    *)
Calm == WinnersPay /\ ~conf.admins /\ crashes = 0

StakeIds(stakes) == /\ UniqueIds(stakes)
                    /\ \A s \in stakes : s.id # 0 => Recorded(s.id)

(* An entry of an operation: it is remembered, or its call is at work.       *)
EntryKnown(i) ==
    club.ledger[i].id # 0 =>
       \/ Recorded(club.ledger[i].id)
       \/ \E c \in Calls : /\ call[c].pc \in {"signing", "staking"}
                           /\ IdOf(c) = club.ledger[i].id

(* A call at work: its operation is not remembered yet, and has no entry but the
   result whose burn is being signed.                                       *)
NotYet(c) ==
    /\ (call[c].pc \in {"seating", "signing", "staking"} /\ IdOf(c) # 0) => ~Recorded(IdOf(c))
    /\ call[c].pc = "signing" =>
          /\ StakeIds(call[c].next.stakes)
          /\ \A i \in DOMAIN club.ledger :
                (IdOf(c) # 0 /\ club.ledger[i].id = IdOf(c))
                   => Result(i) /\ Coming(c).kind = "burn"

OpInv ==
    Calm => /\ \A i \in DOMAIN club.ledger : EntryKnown(i)
            /\ \A c \in Calls : NotYet(c)
            /\ StakeIds(club.stakes)
            /\ MovedOnce

LEMMA CalmBefore ==
    ASSUME TypeInv, Step, Calm' PROVE Calm /\ ~Dies
BY Lives DEF Calm, WinnersPay

(* What a call that ends leaves of the stakes.                              *)
LEMMA FinishedStakes ==
    ASSUME NEW b \in ClubState, NEW c \in Calls, call[c] \in CallState, call[c].req \in Request
    PROVE  /\ \A s \in Finished(c, b).stakes : \E r \in b.stakes :
                 s.id = r.id /\ s.nonce = r.nonce /\ (s.fate = "open" => r.fate = "open")
           /\ UniqueIds(b.stakes) => UniqueIds(Finished(c, b).stakes)
           /\ call[c].req.op = "settle" =>
                 \A n \in call[c].nonces, s \in Finished(c, b).stakes :
                    s.nonce = n => s.fate # "open"
<1> DEFINE closed == Close(b, call[c].nonces, "settled")
<1>1. CASE call[c].req.op = "settle"
  <2>1. "settled" \in Fates /\ "settled" # "open"
    BY DEF Fates
  <2>2. closed \in ClubState /\ Kept(closed.stakes, b.stakes)
    BY <2>1, CloseFacts, CloseKeeps
  <2>3. closed.stakes = {IF s.nonce \in call[c].nonces /\ s.fate = "open"
                         THEN [s EXCEPT !.fate = "settled"] ELSE s : s \in b.stakes}
    BY <2>1, CloseFacts
  <2>4. ASSUME NEW n \in call[c].nonces, NEW s \in closed.stakes, s.nonce = n
        PROVE  s.fate # "open"
    <3>1. PICK r \in b.stakes : s = IF r.nonce \in call[c].nonces /\ r.fate = "open"
                                    THEN [r EXCEPT !.fate = "settled"] ELSE r
      BY <2>3
    <3>2. r \in Stake
      BY DEF ClubState
    <3> QED BY <2>4, <3>1, <3>2 DEF Stake
  <2> HIDE DEF closed
  <2>5. Finished(c, b).stakes \subseteq closed.stakes
    BY <1>1, <2>2, FinishedFacts, PruneFacts DEF closed
  <2>6. UniqueIds(b.stakes) => UniqueIds(Finished(c, b).stakes)
    BY <2>2, <2>5 DEF Kept, UniqueIds
  <2> QED BY <2>2, <2>4, <2>5, <2>6 DEF Kept
<1>2. CASE call[c].req.op # "settle"
  BY <1>2, FinishedFacts
<1> QED BY <1>1, <1>2

(* The operations that have an id are those that mutate.                    *)
LEMMA IdFacts ==
    ASSUME NEW c, AtWork(c)
    PROVE  /\ IdOf(c) # 0 => /\ call[c].reclaim = {} /\ IdOf(c) = call[c].req.id
                             /\ call[c].req.op \in {"sit", "leave", "settle", "transfer"}
           /\ call[c].reclaim = {} /\ call[c].req.op = "sit" => IdOf(c) # 0
BY RequestsAssumption DEF IdOf, AtWork

(* A step after which nothing of an operation has changed.                  *)
LEMMA OpSame ==
    ASSUME TypeInv, Calm, OpInv, club'.ledger = club.ledger, club'.ops = club.ops,
           Kept(club'.stakes, club.stakes),
           \A d \in Calls : /\ call'[d].pc \in Holding \ {"queued"} => call'[d] = call[d]
                            /\ call[d].pc \in {"signing", "staking"} => call'[d] = call[d]
    PROVE  OpInv'
<1>1. \A id : Recorded(id)' <=> Recorded(id)
  BY DEF Recorded
<1>2. /\ \A i \in DOMAIN club.ledger : EntryKnown(i)
      /\ \A c \in Calls : NotYet(c)
      /\ StakeIds(club.stakes) /\ MovedOnce
  BY DEF OpInv
<1>3. \A i \in DOMAIN club'.ledger : EntryKnown(i)'
  BY <1>1, <1>2 DEF EntryKnown, IdOf
<1>4. StakeIds(club.stakes)' /\ MovedOnce'
  BY <1>1, <1>2 DEF StakeIds, Kept, MovedOnce, UniqueIds
<1>5. ASSUME NEW c \in Calls PROVE NotYet(c)'
  <2>1. CASE call'[c] = call[c]
    BY <1>1, <1>2, <2>1 DEF NotYet, IdOf, Coming, StakeIds, Result
  <2>2. CASE call'[c].pc \notin Holding \ {"queued"}
    BY <2>2 DEF NotYet, Holding
  <2> QED BY <2>1, <2>2
<1> QED BY <1>3, <1>4, <1>5 DEF OpInv

LEMMA OpQuiet ==
    ASSUME TypeInv, Calm, OpInv, NEW c, TakesSeat(c) \/ Leaves(c) PROVE OpInv'
<1>1. /\ UNCHANGED club /\ AtWork(c) /\ c \in Calls /\ call[c].pc \notin {"signing", "staking"}
      /\ \A d \in Calls : d # c => call'[d] = call[d]
      /\ call'[c].pc \in {"seating", "ok", "failed"} /\ call[c] \in CallState
  BY NoneSigns DEF TakesSeat, Leaves, AtWork, TypeInv
<1>2. \A d \in Calls : d # c => call[d].pc \notin Holding \ {"queued"}
  BY <1>1, OnlyHeadSigns
<1>3. CASE call'[c].pc \in {"ok", "failed"}
  BY <1>1, <1>2, <1>3, OpSame, KeptSame DEF Holding
<1>4. CASE call'[c].pc = "seating"
  <2>1. TakesSeat(c)
    BY <1>4 DEF Leaves
  <2>2. /\ call'[c].req = call[c].req /\ call'[c].reclaim = call[c].reclaim
        /\ call[c].reclaim = {} /\ ~Known(c)
    BY <1>1, <2>1 DEF TakesSeat, CallState
  <2>3. \A id : Recorded(id)' <=> Recorded(id)
    BY <1>1 DEF Recorded
  <2>4. \A i \in DOMAIN club'.ledger : EntryKnown(i)'
    BY <1>1, <1>2, <2>3 DEF OpInv, EntryKnown, IdOf, Holding
  <2>5. StakeIds(club.stakes)' /\ MovedOnce'
    BY <1>1, <2>3 DEF OpInv, StakeIds, MovedOnce, UniqueIds
  <2>6. NotYet(c)'
    BY <1>1, <1>4, <2>2 DEF NotYet, IdOf, Known, Recorded
  <2>7. ASSUME NEW d \in Calls, d # c PROVE NotYet(d)'
    BY <1>1, <1>2, <2>7 DEF NotYet, Holding
  <2> QED BY <2>4, <2>5, <2>6, <2>7 DEF OpInv
<1> QED BY <1>1, <1>3, <1>4

LEMMA OpStaked ==
    ASSUME TypeInv, Calm, OpInv, NEW c, TakesStake(c) PROVE OpInv'
<1>1. /\ AtWork(c) /\ c \in Calls /\ call[c].pc = "staking" /\ call'[c].pc = "ok"
      /\ \A d \in Calls : d # c => call'[d] = call[d]
  BY NoneSigns DEF TakesStake, AtWork
<1>2. \A d \in Calls : d # c => call[d].pc \notin Holding \ {"queued"}
  BY <1>1, OnlyHeadSigns
<1>3. /\ club'.ledger = club.ledger /\ club'.ops = club.ops \cup {OpOf(c)}
      /\ OpOf(c).id = call[c].req.id /\ club'.stakes = club.stakes \cup {NewStake(c)}
      /\ NewStake(c).id = call[c].req.id /\ call[c].reclaim = {} /\ call[c].req.op = "sit"
  BY TakesStakeFacts
<1>4. IdOf(c) # 0 /\ IdOf(c) = call[c].req.id
  BY <1>1, <1>3, IdFacts
<1>5. \A id : Recorded(id)' <=> Recorded(id) \/ id = IdOf(c)
  BY <1>3, <1>4 DEF Recorded
<1>6. ~Recorded(IdOf(c))
  BY <1>1, <1>4 DEF OpInv, NotYet
<1>7. \A i \in DOMAIN club'.ledger : EntryKnown(i)'
  <2>1. ASSUME NEW i \in DOMAIN club.ledger, club.ledger[i].id # 0
        PROVE  Recorded(club.ledger[i].id)'
    <3>1. EntryKnown(i)
      BY DEF OpInv
    <3> QED BY <1>2, <1>3, <1>5, <2>1, <3>1 DEF EntryKnown, Holding
  <2> QED BY <1>3, <2>1 DEF EntryKnown
<1>8. StakeIds(club.stakes)' /\ MovedOnce'
  <2>1. \A s \in club.stakes : s.id # IdOf(c)
    BY <1>4, <1>6 DEF OpInv, StakeIds
  <2>2. UniqueIds(club'.stakes)
    BY <1>3, <1>4, <2>1 DEF UniqueIds, OpInv, StakeIds
  <2>3. \A s \in club'.stakes : s.id # 0 => Recorded(s.id)'
    BY <1>3, <1>4, <1>5 DEF OpInv, StakeIds
  <2> QED BY <1>3, <2>2, <2>3 DEF StakeIds, MovedOnce, UniqueIds, OpInv
<1>9. ASSUME NEW d \in Calls PROVE NotYet(d)'
  BY <1>1, <1>2, <1>9 DEF NotYet, Holding
<1> QED BY <1>7, <1>8, <1>9 DEF OpInv

(* A call at work, before it goes on.                                       *)
LEMMA BeforeWork ==
    ASSUME TypeInv, SignInv, Calm, OpInv, NEW c, AtWork(c),
           NEW base \in ClubState, NEW todo \in Seq(Draft),
           \/ /\ Opens(c, base, todo)
              /\ \A d \in Calls : call[d].pc # "signing"
           \/ /\ call[c].pc = "signing" /\ base = call[c].next /\ SignOK(c)
    PROVE  /\ base.ops = club.ops /\ StakeIds(base.stakes)
           /\ IdOf(c) # 0 => ~Recorded(IdOf(c))
           /\ \A i \in DOMAIN club.ledger :
                 (club.ledger[i].id # 0 /\ ~Recorded(club.ledger[i].id))
                    => call[c].pc = "signing" /\ club.ledger[i].id = IdOf(c)
<1>1. c \in Calls /\ \A d \in Calls : d # c => call[d].pc \notin Holding \ {"queued"}
  BY OnlyHeadSigns DEF AtWork
<1>2. /\ \A i \in DOMAIN club.ledger : EntryKnown(i)
      /\ NotYet(c) /\ StakeIds(club.stakes)
  BY <1>1 DEF OpInv
<1>3. CASE Opens(c, base, todo)
  <2>1. /\ base.ops = club.ops /\ Kept(base.stakes, club.stakes)
        /\ call[c].pc \in {"queued", "seating"}
        /\ call[c].pc = "queued" /\ call[c].reclaim = {} => ~Known(c)
    BY <1>3 DEF Opens
  <2>2. IdOf(c) # 0 => ~Recorded(IdOf(c))
    BY <1>2, <2>1, IdFacts DEF NotYet, Known, Recorded
  <2>3. StakeIds(base.stakes)
    BY <1>2, <2>1 DEF StakeIds, Kept
  <2>4. \A i \in DOMAIN club.ledger : club.ledger[i].id # 0 => Recorded(club.ledger[i].id)
    BY <1>1, <1>2, <2>1 DEF EntryKnown, Holding
  <2> QED BY <2>1, <2>2, <2>3, <2>4
<1>4. CASE call[c].pc = "signing" /\ base = call[c].next /\ SignOK(c)
  <2>1. base.ops = club.ops /\ StakeIds(base.stakes)
    BY <1>2, <1>4 DEF NotYet, SignOK
  <2>2. IdOf(c) # 0 => ~Recorded(IdOf(c))
    BY <1>2, <1>4 DEF NotYet
  <2>3. ASSUME NEW i \in DOMAIN club.ledger, club.ledger[i].id # 0, ~Recorded(club.ledger[i].id)
        PROVE  club.ledger[i].id = IdOf(c)
    BY <1>1, <1>2, <2>3 DEF EntryKnown, Holding
  <2> QED BY <1>4, <2>1, <2>2, <2>3
<1> QED BY <1>3, <1>4

LEMMA OpWorks ==
    ASSUME TypeInv, SignInv, Calm, OpInv, NEW c, Works(c) PROVE OpInv'
<1>1. PICK base \in ClubState, todo \in Seq(Draft) :
         /\ AtWork(c) /\ Moves(c) /\ (Signs(c, base, todo) \/ Stops(c, base, todo))
         /\ club'.ledger = base.ledger
         /\ \/ /\ Opens(c, base, todo) /\ club'.ledger = club.ledger
               /\ \A d \in Calls : call[d].pc # "signing"
            \/ /\ call[c].pc = "signing" /\ base = call[c].next /\ todo = call[c].todo
               /\ SignOK(c) /\ club'.ledger = Append(club.ledger, Coming(c))
               /\ todo # << >> => Head(todo).kind = "burn" /\ Signs(c, base, todo)
  BY WorkAppends DEF Calm
<1>2. /\ c \in Calls /\ call[c] \in CallState /\ call[c].req \in Request /\ ~conf.admins
      /\ club.ledger \in Seq(Entry)
  BY <1>1, RequestsAssumption DEF AtWork, TypeInv, Calm, ClubState
<1>3. /\ base.ops = club.ops /\ StakeIds(base.stakes)
      /\ IdOf(c) # 0 => ~Recorded(IdOf(c))
      /\ \A i \in DOMAIN club.ledger :
            (club.ledger[i].id # 0 /\ ~Recorded(club.ledger[i].id))
               => call[c].pc = "signing" /\ club.ledger[i].id = IdOf(c)
  BY <1>1, BeforeWork
<1>4. \A d \in Calls : d # c => call'[d].pc \notin Holding \ {"queued"}
  BY <1>1, OnlyHeadSigns DEF Moves
<1>5. PICK x : x = IdOf(c)
  OBVIOUS
<1>6. \A id : Recorded(id) => Recorded(id)'
  <2>1. club'.ops = base.ops \/ club'.ops = base.ops \cup {OpOf(c)}
    BY <1>1, <1>2, FinishedFacts DEF Signs, Stops
  <2> QED BY <1>3, <2>1 DEF Recorded
<1>7. StakeIds(club.stakes)'
  <2>1. UniqueIds(base.stakes) /\ \A s \in base.stakes : s.id # 0 => Recorded(s.id)
    BY <1>3 DEF StakeIds
  <2>2. CASE club'.stakes = base.stakes
    <3>1. \A s \in base.stakes : s.id # 0 => \E o \in club'.ops : o.id = s.id
      BY <1>6, <2>1 DEF Recorded
    <3> QED BY <2>1, <2>2, <3>1 DEF StakeIds, Recorded
  <2>3. CASE club' = Finished(c, base)
    <3>1. UniqueIds(club'.stakes) /\ \A s \in club'.stakes : \E r \in base.stakes : s.id = r.id
      BY <1>2, <2>1, <2>3, FinishedStakes
    <3>2. ASSUME NEW s \in club'.stakes, s.id # 0 PROVE \E o \in club'.ops : o.id = s.id
      <4>1. PICK r \in base.stakes : s.id = r.id
        BY <3>1
      <4>2. Recorded(r.id)
        BY <2>1, <3>2, <4>1
      <4>3. Recorded(r.id)'
        BY <1>6, <4>2
      <4> QED BY <4>1, <4>3 DEF Recorded
    <3> QED BY <3>1, <3>2 DEF StakeIds, Recorded
  <2> QED BY <1>1, <2>2, <2>3 DEF Signs, Stops
(* An entry of the call itself is remembered, or the call is still at work.  *)
<1>8. call[c].pc = "signing" /\ x # 0 =>
         \/ Recorded(x)'
         \/ call'[c].pc \in {"signing", "staking"} /\ IdOf(c)' = x
  <2> SUFFICES ASSUME call[c].pc = "signing", x # 0
               PROVE  \/ Recorded(x)'
                      \/ call'[c].pc \in {"signing", "staking"} /\ IdOf(c)' = x
    OBVIOUS
  <2>1. call[c].reclaim = {} /\ x = call[c].req.id
        /\ call[c].req.op \in {"sit", "leave", "settle", "transfer"}
    BY <1>1, <1>5, IdFacts
  <2>2. CASE Signs(c, base, todo)
    BY <1>1, <1>2, <1>5, <2>2, WorkSigns
  <2>3. CASE Stops(c, base, todo) /\ ~Signs(c, base, todo)
    <3>1. todo = << >>
      BY <1>1, <2>3 DEF Opens
    <3>2. CASE call[c].req.op = "sit"
      <4>1. call'[c] = [call[c] EXCEPT !.pc = "staking"]
        BY <2>1, <2>3, <3>1, <3>2 DEF Stops
      <4>2. "staking" \in PCs
        BY DEF PCs
      <4>3. /\ call'[c].pc = "staking" /\ call'[c].req = call[c].req
            /\ call'[c].reclaim = call[c].reclaim
        BY <1>2, <4>1, <4>2, PlaceFacts
      <4> QED BY <1>5, <4>3 DEF IdOf
    <3>3. CASE call[c].req.op # "sit"
      <4>1. club' = Finished(c, base)
        BY <2>1, <2>3, <3>1, <3>3 DEF Stops
      <4>2. club'.ops = base.ops \cup {OpOf(c)} /\ OpOf(c).id = x
        BY <1>2, <2>1, <3>3, <4>1, FinishedFacts, RecordFacts
      <4> QED BY <4>2 DEF Recorded
    <3> QED BY <3>2, <3>3
  <2> QED BY <1>1, <2>2, <2>3
(* The ledger of now.                                                       *)
<1>9. \/ club'.ledger = club.ledger /\ call[c].pc # "signing"
      \/ /\ call[c].pc = "signing" /\ SignOK(c) /\ club'.ledger = Append(club.ledger, Coming(c))
         /\ DOMAIN club.ledger = 1 .. Len(club.ledger) /\ Len(club.ledger) \in Nat
         /\ DOMAIN club'.ledger = 1 .. Len(club.ledger) + 1
         /\ \A i \in DOMAIN club.ledger : club'.ledger[i] = club.ledger[i]
         /\ club'.ledger[Len(club.ledger) + 1] = Coming(c) /\ Coming(c).id = x
         /\ Coming(c).kind = "burn" \/ \A i \in DOMAIN club.ledger : x # 0 => club.ledger[i].id # x
         /\ \A i \in DOMAIN club.ledger : x # 0 /\ club.ledger[i].id = x => Result(i)
  <2>1. CASE call[c].pc # "signing"
    BY <1>1, <2>1
  <2>2. CASE call[c].pc = "signing"
    <3>1. SignOK(c) /\ club'.ledger = Append(club.ledger, Coming(c))
      BY <1>1, <2>2 DEF Opens
    <3>2. Coming(c) \in Entry /\ Coming(c).id = x
      BY <1>5, <3>1 DEF SignOK
    <3>3. NotYet(c)
      BY <1>2 DEF OpInv
    <3> QED BY <1>2, <1>5, <2>2, <3>1, <3>2, <3>3, AppendFacts DEF NotYet
  <2> QED BY <2>1, <2>2
<1>10. MovedOnce'
  <2> SUFFICES ASSUME NEW i \in DOMAIN club'.ledger, NEW j \in DOMAIN club'.ledger,
                      club'.ledger[i].id # 0, club'.ledger[i].id = club'.ledger[j].id,
                      club'.ledger[i].kind = club'.ledger[j].kind
               PROVE  i = j
    BY <1>7 DEF MovedOnce, StakeIds, UniqueIds
  <2>1. \A k, l \in DOMAIN club.ledger :
          (/\ club.ledger[k].id # 0 /\ club.ledger[k].id = club.ledger[l].id
           /\ club.ledger[k].kind = club.ledger[l].kind) => k = l
    BY DEF OpInv, MovedOnce
  <2>2. CASE club'.ledger = club.ledger
    BY <2>1, <2>2
  <2>3. CASE i \in DOMAIN club.ledger /\ j \in DOMAIN club.ledger
    BY <1>9, <2>1, <2>3
  <2>4. CASE call[c].pc = "signing" /\ ~(i \in DOMAIN club.ledger /\ j \in DOMAIN club.ledger)
    <3> DEFINE n == Len(club.ledger) + 1
    <3>1. \A k \in DOMAIN club'.ledger : k \in DOMAIN club.ledger \/ k = n
      BY <1>9, <2>4
    <3>2. \A k \in DOMAIN club.ledger :
             ~(club.ledger[k].id = x /\ x # 0 /\ club.ledger[k].kind = Coming(c).kind)
      BY <1>9, <2>4 DEF Result
    <3>3. /\ club'.ledger[n] = Coming(c) /\ Coming(c).id = x
          /\ \A k \in DOMAIN club.ledger : club'.ledger[k] = club.ledger[k]
      BY <1>9, <2>4
    <3> HIDE DEF n
    <3> QED BY <2>4, <3>1, <3>2, <3>3
  <2> QED BY <1>9, <2>2, <2>3, <2>4
<1>11. ASSUME NEW i \in DOMAIN club'.ledger PROVE EntryKnown(i)'
  <2>0. PICK y : y = club'.ledger[i].id
    OBVIOUS
  <2> SUFFICES ASSUME y # 0
               PROVE  \/ Recorded(y)'
                      \/ \E d \in Calls : /\ call'[d].pc \in {"signing", "staking"}
                                          /\ IdOf(d)' = y
    BY <2>0 DEF EntryKnown, Recorded
  <2>1. Recorded(y) \/ (call[c].pc = "signing" /\ y = x)
    BY <1>3, <1>5, <1>9, <2>0
  <2>2. CASE Recorded(y)
    BY <1>6, <2>2
  <2>3. CASE call[c].pc = "signing" /\ y = x
    BY <1>2, <1>8, <2>3
  <2> QED BY <2>1, <2>2, <2>3
<1>12. ASSUME NEW d \in Calls PROVE NotYet(d)'
  <2>1. CASE d # c
    BY <1>4, <2>1, <1>12 DEF NotYet, Holding
  <2>2. CASE d = c /\ Signs(c, base, todo)
    <3>1. /\ club' = base /\ call'[c].pc = "signing" /\ IdOf(c)' = x
          /\ Coming(c)' = NewEntry(todo, c) /\ call'[c].next = Entered(base, todo, c)
      BY <1>1, <1>2, <1>5, <2>2, WorkSigns
    <3>2. \A id : Recorded(id)' <=> Recorded(id)
      BY <1>3, <3>1 DEF Recorded
    <3>3. call'[c].next.stakes = base.stakes
      BY <1>2, <2>2, <3>1, EnteredFacts DEF Signs
    <3>4. StakeIds(call[c].next.stakes)'
      BY <1>3, <3>2, <3>3 DEF StakeIds
    <3>5. x # 0 => ~Recorded(x)'
      BY <1>3, <1>5, <3>2
    <3>6. ASSUME NEW i \in DOMAIN club'.ledger, x # 0, club'.ledger[i].id = x
          PROVE  Result(i)' /\ Coming(c)'.kind = "burn"
      <4>1. call[c].pc = "signing"
        BY <1>3, <1>5, <1>9, <3>6
      <4>2. todo # << >> /\ Head(todo).kind = "burn" /\ SignOK(c) /\ todo = call[c].todo
        BY <1>1, <2>2, <4>1 DEF Signs, Opens
      <4>3. Coming(c)'.kind = "burn"
        BY <3>1, <4>2 DEF NewEntry
      <4>4. Coming(c).kind = "result"
        BY <4>2 DEF SignOK
      <4>5. i = Len(club.ledger) + 1 /\ club'.ledger[i] = Coming(c)
        BY <1>9, <3>6, <4>1, <4>4
      <4> QED BY <4>3, <4>4, <4>5 DEF Result
    <3> QED BY <2>2, <3>1, <3>4, <3>5, <3>6 DEF NotYet, Recorded
  <2>3. CASE d = c /\ Stops(c, base, todo)
    <3>1. call'[c].pc \in {"reclaiming", "queued", "ok", "staking", "unseating", "failed"}
      BY <1>1, <2>3, WorkStops
    <3>2. CASE call'[c].pc = "staking"
      <4>1. /\ call[c].reclaim = {} /\ call[c].req.op = "sit" /\ club' = base
            /\ call'[c] = [call[c] EXCEPT !.pc = IF todo = << >> THEN "staking" ELSE "unseating"]
        BY <1>1, <2>3, <3>2 DEF Stops
      <4>2. "staking" \in PCs /\ "unseating" \in PCs
        BY DEF PCs
      <4>3. call'[c].req = call[c].req /\ call'[c].reclaim = call[c].reclaim
        BY <1>2, <4>1, <4>2, PlaceFacts
      <4>4. IdOf(c)' = x
        BY <1>5, <4>3 DEF IdOf
      <4>5. x # 0 => ~Recorded(x)'
        BY <1>3, <1>5, <4>1 DEF Recorded
      <4> QED BY <2>3, <3>2, <4>4, <4>5 DEF NotYet, Recorded
    <3>3. CASE call'[c].pc # "staking"
      BY <2>3, <3>1, <3>3 DEF NotYet
    <3> QED BY <3>2, <3>3
  <2> QED BY <1>1, <2>1, <2>2, <2>3
<1> QED BY <1>7, <1>10, <1>11, <1>12 DEF OpInv

LEMMA OpKept ==
    ASSUME TypeInv, SignInv, OpInv, Step PROVE OpInv'
<1> SUFFICES ASSUME Calm' PROVE OpInv'
  BY DEF OpInv
<1>1. Calm /\ ~Dies
  BY CalmBefore
<1>2. CASE Outside \/ \E c : Apart(c)
  <2>1. /\ club'.ledger = club.ledger /\ club'.ops = club.ops /\ Kept(club'.stakes, club.stakes)
        /\ \A d \in Calls : /\ call'[d].pc \in Holding \ {"queued"} => call'[d] = call[d]
                            /\ call[d].pc \in {"signing", "staking"} => call'[d] = call[d]
    BY <1>1, <1>2, AsideFacts DEF Calm, Holding
  <2> QED BY <1>1, <2>1, OpSame
<1> QED BY <1>1, <1>2, OpWorks, OpQuiet, OpStaked DEF Step

-----------------------------------------------------------------------------
(* Stakes that are settled. *)

Spent(n, stakes)  == \A s \in stakes : s.nonce = n => s.fate # "open"
Issued(stakes)    == \A s \in stakes : s.nonce <= issued

(* A call closes stakes once the burn that it signs is stored.              *)
Closing(c, n) == call[c].pc = "signing" /\ Coming(c).kind = "burn" /\ n \in call[c].nonces

(* A stake that a result names is no longer open, nor will be when what is being
   signed is stored, unless a call is about to close it.                    *)
Settled(n) ==
    /\ n <= issued
    /\ Spent(n, club.stakes) \/ \E c \in Calls : Closing(c, n)
    /\ \A c \in Calls : call[c].pc = "signing" => Spent(n, call[c].next.stakes) \/ Closing(c, n)

(* A result that is being signed names stakes of its own.                   *)
Fresh(c) ==
    call[c].pc = "signing" =>
        /\ Issued(call[c].next.stakes)
        /\ Coming(c).kind = "result" =>
              /\ \A n \in call[c].nonces : n <= issued
              /\ \A i \in DOMAIN club.ledger :
                    Result(i) => club.ledger[i].nonces \cap call[c].nonces = {}

Disjoint == \A i, j \in DOMAIN club.ledger :
               (Result(i) /\ Result(j) /\ i # j)
                  => club.ledger[i].nonces \cap club.ledger[j].nonces = {}

SettleInv ==
    Calm => /\ Issued(club.stakes)
            /\ \A c \in Calls : Fresh(c)
            /\ \A i \in DOMAIN club.ledger : Result(i) => \A n \in club.ledger[i].nonces : Settled(n)
            /\ Disjoint

(* A step after which nothing that was signed has changed, and stakes have only
   been closed, or one was issued.                                          *)
LEMMA SettleSame ==
    ASSUME TypeInv, Calm, SettleInv, club'.ledger = club.ledger,
           issued' \in {issued, issued + 1},
           \A s \in club'.stakes :
              \/ s.nonce = issued + 1 /\ issued' = issued + 1
              \/ \E r \in club.stakes : s.nonce = r.nonce /\ (s.fate = "open" => r.fate = "open"),
           \A d \in Calls : /\ call'[d].pc = "signing" => call'[d] = call[d]
                            /\ call[d].pc = "signing" => call'[d] = call[d]
    PROVE  SettleInv'
<1>1. /\ Issued(club.stakes)
      /\ \A c \in Calls : Fresh(c)
      /\ \A i \in DOMAIN club.ledger : Result(i) => \A n \in club.ledger[i].nonces : Settled(n)
      /\ Disjoint
  BY DEF SettleInv
<1>2. issued \in Nat /\ club.ledger \in Seq(Entry) /\ club.stakes \subseteq Stake
  BY DEF TypeInv, ClubState
<1>3. Issued(club.stakes)'
  BY <1>1, <1>2 DEF Issued, Stake
<1>4. ASSUME NEW c \in Calls PROVE Fresh(c)'
  <2> SUFFICES ASSUME call'[c].pc = "signing" PROVE Fresh(c)'
    BY DEF Fresh
  <2>1. call'[c] = call[c] /\ Fresh(c) /\ call[c] \in CallState /\ CallOK(call[c])
    BY <1>1 DEF TypeInv
  <2>2. /\ \A s \in call[c].next.stakes : s.nonce \in Nat
        /\ \A n \in call[c].nonces : n \in Nat
    BY <2>1 DEF CallOK, CallState, ClubState, Stake
  <2>3. Issued(call[c].next.stakes)'
    BY <1>2, <2>1, <2>2 DEF Fresh, Issued
  <2>4. Coming(c)' = Coming(c)
    BY <2>1 DEF Coming
  <2>5. \A i : Result(i)' <=> Result(i)
    BY DEF Result
  <2> QED BY <1>2, <2>1, <2>2, <2>3, <2>4, <2>5 DEF Fresh
<1>5. ASSUME NEW i \in DOMAIN club'.ledger, Result(i)', NEW n \in club'.ledger[i].nonces
      PROVE  Settled(n)'
  <2>1. Settled(n) /\ n \in Nat
    <3>1. club.ledger[i] \in Entry
      BY <1>2, SeqEntries
    <3> QED BY <1>1, <1>5, <3>1 DEF Result, Entry
  <2>2. n <= issued' /\ n # issued + 1
    BY <1>2, <2>1 DEF Settled
  <2>3. Spent(n, club.stakes) => Spent(n, club.stakes)'
    BY <2>2 DEF Spent
  <2>4. \A c \in Calls : Closing(c, n)' <=> Closing(c, n)
    BY DEF Closing, Coming
  <2>5. \A c \in Calls : call'[c].pc = "signing" =>
           Spent(n, call[c].next.stakes)' \/ Closing(c, n)'
    BY <2>1, <2>4 DEF Settled, Spent
  <2> QED BY <2>1, <2>2, <2>3, <2>4, <2>5 DEF Settled
<1>6. Disjoint'
  BY <1>1 DEF Disjoint, Result
<1> QED BY <1>3, <1>4, <1>5, <1>6 DEF SettleInv

(* A tally that is let through names open stakes.                           *)
LEMMA TallyFresh ==
    ASSUME TypeInv, Calm, SettleInv, NEW c \in Calls, TallyOk(c),
           \A d \in Calls : call[d].pc # "signing"
    PROVE  /\ \A n \in call[c].nonces : n <= issued
           /\ \A i \in DOMAIN club.ledger :
                 Result(i) => club.ledger[i].nonces \cap call[c].nonces = {}
<1>1. \A n \in call[c].nonces : \E s \in club.stakes : s.nonce = n /\ s.fate = "open"
  BY DEF TallyOk
<1>2. \A n \in call[c].nonces : n <= issued
  BY <1>1 DEF SettleInv, Issued
<1>3. \A i \in DOMAIN club.ledger : Result(i) => \A n \in club.ledger[i].nonces : Spent(n, club.stakes)
  BY DEF SettleInv, Settled, Closing
<1> QED BY <1>1, <1>2, <1>3 DEF Spent

LEMMA SettleWorks ==
    ASSUME TypeInv, SignInv, Calm, SettleInv, NEW c, Works(c) PROVE SettleInv'
<1>1. PICK base \in ClubState, todo \in Seq(Draft) :
         /\ AtWork(c) /\ Moves(c) /\ (Signs(c, base, todo) \/ Stops(c, base, todo))
         /\ club'.ledger = base.ledger
         /\ \/ /\ Opens(c, base, todo) /\ club'.ledger = club.ledger
               /\ \A d \in Calls : call[d].pc # "signing"
            \/ /\ call[c].pc = "signing" /\ base = call[c].next /\ todo = call[c].todo
               /\ SignOK(c) /\ club'.ledger = Append(club.ledger, Coming(c))
               /\ todo # << >> => Head(todo).kind = "burn" /\ Signs(c, base, todo)
  BY WorkAppends DEF Calm
<1>2. /\ c \in Calls /\ call[c] \in CallState /\ call[c].req \in Request /\ ~conf.admins
      /\ club.ledger \in Seq(Entry) /\ CallOK(call[c]) /\ issued' = issued
  BY <1>1, RequestsAssumption DEF AtWork, TypeInv, Calm, ClubState, Works
<1>3. \A d \in Calls : d # c => call[d].pc # "signing" /\ call'[d].pc # "signing"
  BY <1>1, OnlyHeadSigns DEF Moves, Holding
<1>4. /\ Issued(club.stakes) /\ Fresh(c) /\ Disjoint
      /\ \A i \in DOMAIN club.ledger : Result(i) => \A n \in club.ledger[i].nonces : Settled(n)
  BY <1>2 DEF SettleInv
(* What is stored now, or closed now.                                       *)
<1>5. /\ Issued(base.stakes)
      /\ \A i \in DOMAIN club.ledger : Result(i) =>
            \A n \in club.ledger[i].nonces : Spent(n, base.stakes) \/ Closing(c, n)
  <2>1. CASE Opens(c, base, todo) /\ \A d \in Calls : call[d].pc # "signing"
    <3>1. \A s \in base.stakes : \E r \in club.stakes :
             s.nonce = r.nonce /\ (s.fate = "open" => r.fate = "open")
      BY <2>1 DEF Opens, Kept
    <3>2. \A n : Spent(n, club.stakes) => Spent(n, base.stakes)
      BY <3>1 DEF Spent
    <3>3. \A n : Settled(n) => Spent(n, club.stakes)
      BY <2>1 DEF Settled, Closing
    <3> QED BY <1>4, <3>1, <3>2, <3>3 DEF Issued
  <2>2. CASE call[c].pc = "signing" /\ base = call[c].next
    BY <1>2, <1>4, <2>2 DEF Fresh, Settled
  <2> QED BY <1>1, <2>1, <2>2
(* The ledger of now.                                                       *)
<1>6. \/ club'.ledger = club.ledger /\ call[c].pc # "signing"
      \/ /\ call[c].pc = "signing" /\ SignOK(c) /\ base = call[c].next /\ todo = call[c].todo
         /\ DOMAIN club.ledger = 1 .. Len(club.ledger) /\ Len(club.ledger) \in Nat
         /\ DOMAIN club'.ledger = 1 .. Len(club.ledger) + 1
         /\ \A i \in DOMAIN club.ledger : club'.ledger[i] = club.ledger[i]
         /\ club'.ledger[Len(club.ledger) + 1] = Coming(c) /\ Coming(c).nonces = call[c].nonces
  <2>1. CASE call[c].pc # "signing"
    BY <1>1, <2>1
  <2>2. CASE call[c].pc = "signing"
    <3>1. /\ SignOK(c) /\ club'.ledger = Append(club.ledger, Coming(c))
          /\ base = call[c].next /\ todo = call[c].todo
      BY <1>1, <2>2 DEF Opens
    <3>2. Coming(c) \in Entry /\ Coming(c).nonces = call[c].nonces
      BY <3>1 DEF SignOK
    <3> QED BY <1>2, <2>2, <3>1, <3>2, AppendFacts
  <2> QED BY <2>1, <2>2
<1>7. Disjoint'
  <2> SUFFICES ASSUME NEW i \in DOMAIN club'.ledger, NEW j \in DOMAIN club'.ledger, i # j,
                      club'.ledger[i].kind = "result", club'.ledger[j].kind = "result"
               PROVE  club'.ledger[i].nonces \cap club'.ledger[j].nonces = {}
    BY DEF Disjoint, Result
  <2>1. \A k, l \in DOMAIN club.ledger :
           (/\ club.ledger[k].kind = "result" /\ club.ledger[l].kind = "result" /\ k # l)
              => club.ledger[k].nonces \cap club.ledger[l].nonces = {}
    BY <1>4 DEF Disjoint, Result
  <2>2. CASE call[c].pc # "signing"
    BY <1>6, <2>1, <2>2
  <2>3. CASE call[c].pc = "signing"
    <3> DEFINE n == Len(club.ledger) + 1
    <3>1. \A k \in DOMAIN club'.ledger : k \in DOMAIN club.ledger \/ k = n
      BY <1>6, <2>3
    <3>2. /\ club'.ledger[n] = Coming(c) /\ Coming(c).nonces = call[c].nonces
          /\ \A k \in DOMAIN club.ledger : club'.ledger[k] = club.ledger[k]
      BY <1>6, <2>3
    <3>3. Coming(c).kind = "result" => \A k \in DOMAIN club.ledger :
             club.ledger[k].kind = "result" => club.ledger[k].nonces \cap call[c].nonces = {}
      BY <1>4, <2>3 DEF Fresh, Result
    <3> HIDE DEF n
    <3>4. CASE i \in DOMAIN club.ledger /\ j \in DOMAIN club.ledger
      BY <2>1, <3>2, <3>4
    <3>5. CASE i = n /\ j \in DOMAIN club.ledger
      BY <3>2, <3>3, <3>5
    <3>6. CASE i \in DOMAIN club.ledger /\ j = n
      BY <3>2, <3>3, <3>6
    <3> QED BY <3>1, <3>4, <3>5, <3>6
  <2> QED BY <2>2, <2>3
<1>8. CASE Signs(c, base, todo)
  <2>1. /\ club' = base /\ call'[c].pc = "signing"
        /\ Coming(c)' = NewEntry(todo, c) /\ call'[c].next = Entered(base, todo, c)
        /\ call'[c].nonces = call[c].nonces
    BY <1>1, <1>2, <1>8, WorkSigns
  <2>2. call'[c].next.stakes = base.stakes /\ todo # << >>
    BY <1>2, <1>8, <2>1, EnteredFacts DEF Signs
  <2>3. Issued(club.stakes)'
    BY <1>2, <1>5, <2>1 DEF Issued
  <2>4. Fresh(c)'
    <3>1. Issued(call[c].next.stakes)'
      BY <1>2, <1>5, <2>2 DEF Issued
    <3>2. ASSUME Coming(c)'.kind = "result"
          PROVE  /\ \A n \in call[c].nonces : n <= issued
                 /\ \A i \in DOMAIN club.ledger :
                       Result(i) => club.ledger[i].nonces \cap call[c].nonces = {}
                 /\ club'.ledger = club.ledger
      <4>1. /\ Opens(c, base, todo) /\ club'.ledger = club.ledger
            /\ \A d \in Calls : call[d].pc # "signing"
        BY <1>1, <2>1, <2>2, <3>2 DEF NewEntry
      <4>2. CASE call[c].req.op = "settle"
        BY <1>2, <4>1, <4>2, TallyFresh DEF Opens
      <4>3. CASE call[c].req.op # "settle"
        <5>1. call[c].nonces = {}
          BY <1>2, <4>3 DEF CallOK
        <5> QED BY <4>1, <5>1
      <4> QED BY <4>2, <4>3
    <3> QED BY <1>2, <2>1, <3>1, <3>2 DEF Fresh, Result
  <2>5. ASSUME NEW n, Spent(n, base.stakes) \/ Closing(c, n)', n <= issued
        PROVE  Settled(n)'
    <3>1. Spent(n, base.stakes) <=> Spent(n, club.stakes)'
      BY <2>1 DEF Spent
    <3>2. Spent(n, base.stakes) <=> Spent(n, call[c].next.stakes)'
      BY <2>2 DEF Spent
    <3> QED BY <1>2, <1>3, <2>5, <3>1, <3>2 DEF Settled
  <2>6. ASSUME NEW i \in DOMAIN club'.ledger, Result(i)', NEW n \in club'.ledger[i].nonces
        PROVE  Settled(n)'
    <3>1. CASE call[c].pc # "signing"
      <4>1. Result(i) /\ i \in DOMAIN club.ledger /\ n \in club.ledger[i].nonces
        BY <1>6, <2>6, <3>1 DEF Result
      <4>2. Settled(n) /\ Spent(n, base.stakes)
        BY <1>4, <1>5, <3>1, <4>1 DEF Closing
      <4> QED BY <2>5, <4>2 DEF Settled
    <3>2. CASE call[c].pc = "signing"
      <4>1. /\ Coming(c).kind = "result" /\ Head(todo).kind = "burn"
        BY <1>1, <1>6, <2>2, <3>2 DEF SignOK, Opens
      <4>2. CASE i \in DOMAIN club.ledger
        <5>1. Result(i) /\ n \in club.ledger[i].nonces
          BY <1>6, <2>6, <3>2, <4>2 DEF Result
        <5>2. Settled(n) /\ Spent(n, base.stakes)
          BY <1>4, <1>5, <4>1, <4>2, <5>1 DEF Closing
        <5> QED BY <2>5, <5>2 DEF Settled
      <4>3. CASE club'.ledger[i] = Coming(c)
        <5>1. n \in call[c].nonces /\ n <= issued
          BY <1>4, <1>6, <2>6, <3>2, <4>1, <4>3 DEF Fresh
        <5>2. Closing(c, n)'
          BY <2>1, <4>1, <5>1 DEF Closing, NewEntry
        <5> QED BY <2>5, <5>1, <5>2
      <4> QED BY <1>6, <3>2, <4>2, <4>3
    <3> QED BY <3>1, <3>2
  <2>7. \A d \in Calls : Fresh(d)'
    BY <1>3, <2>4 DEF Fresh
  <2> QED BY <1>7, <2>3, <2>6, <2>7 DEF SettleInv
<1>9. CASE Stops(c, base, todo) /\ ~Signs(c, base, todo)
  <2>1. /\ \A d \in Calls : call'[d].pc # "signing"
        /\ club' = base \/ club' = Finished(c, base)
    BY <1>1, <1>9, WorkStops DEF Stops
  <2>2. \A s \in club'.stakes : \E r \in base.stakes :
           s.nonce = r.nonce /\ (s.fate = "open" => r.fate = "open")
    BY <1>2, <2>1, FinishedStakes
  <2>3. Issued(club.stakes)'
    BY <1>2, <1>5, <2>2 DEF Issued
  <2>4. ASSUME NEW n, Spent(n, base.stakes) \/ Spent(n, club'.stakes), n <= issued
        PROVE  Settled(n)'
    <3>1. Spent(n, base.stakes) => Spent(n, club'.stakes)
      BY <2>2 DEF Spent
    <3>2. Spent(n, club.stakes)' <=> Spent(n, club'.stakes)
      BY DEF Spent
    <3> QED BY <1>2, <2>1, <2>4, <3>1, <3>2 DEF Settled
  <2>5. ASSUME call[c].pc = "signing", NEW n \in call[c].nonces PROVE Spent(n, club'.stakes)
    <3>1. call[c].req.op = "settle" /\ call[c].reclaim = {}
      BY <1>2, <2>5 DEF CallOK
    <3>2. todo = << >>
      BY <1>1, <1>9, <2>5 DEF Opens
    <3>3. club' = Finished(c, base)
      BY <1>9, <3>1, <3>2 DEF Stops
    <3> QED BY <1>2, <3>1, <3>3, FinishedStakes DEF Spent
  <2>6. ASSUME NEW i \in DOMAIN club'.ledger, Result(i)', NEW n \in club'.ledger[i].nonces
        PROVE  Settled(n)'
    <3>1. CASE i \in DOMAIN club.ledger /\ club'.ledger[i] = club.ledger[i]
      <4>1. Result(i) /\ n \in club.ledger[i].nonces
        BY <2>6, <3>1 DEF Result
      <4>2. n <= issued /\ (Spent(n, base.stakes) \/ Closing(c, n))
        BY <1>4, <1>5, <3>1, <4>1 DEF Settled
      <4> QED BY <2>4, <2>5, <4>2 DEF Closing
    <3>2. CASE call[c].pc = "signing" /\ club'.ledger[i] = Coming(c)
      <4>1. Coming(c).kind = "result" /\ n \in call[c].nonces
        BY <1>6, <2>6, <3>2 DEF Result
      <4>2. n <= issued
        BY <1>4, <3>2, <4>1 DEF Fresh
      <4> QED BY <2>4, <2>5, <3>2, <4>1, <4>2
    <3> QED BY <1>6, <3>1, <3>2
  <2> QED BY <1>7, <2>1, <2>3, <2>6 DEF SettleInv, Fresh
<1> QED BY <1>1, <1>8, <1>9

LEMMA SettleKept ==
    ASSUME TypeInv, SignInv, SettleInv, Step PROVE SettleInv'
<1> SUFFICES ASSUME Calm' PROVE SettleInv'
  BY DEF SettleInv
<1>1. Calm /\ ~Dies
  BY CalmBefore
<1>2. ASSUME NEW c, TakesSeat(c) \/ Leaves(c) PROVE SettleInv'
  <2>1. /\ UNCHANGED <<club, issued>>
        /\ \A d \in Calls : call[d].pc # "signing" /\ call'[d].pc # "signing"
    BY <1>2, NoneSigns DEF TakesSeat, Leaves
  <2> QED BY <1>1, <2>1, SettleSame
<1>3. ASSUME NEW c, TakesStake(c) PROVE SettleInv'
  <2>1. /\ club'.ledger = club.ledger /\ club'.stakes = club.stakes \cup {NewStake(c)}
        /\ NewStake(c).nonce = issued + 1 /\ issued' = issued + 1
        /\ \A d \in Calls : call[d].pc # "signing" /\ call'[d].pc # "signing"
    BY <1>3, NoneSigns, TakesStakeFacts DEF TakesStake
  <2> QED BY <1>1, <2>1, SettleSame
<1>4. CASE Outside \/ \E c : Apart(c)
  <2>1. /\ club'.ledger = club.ledger /\ Kept(club'.stakes, club.stakes) /\ issued' = issued
        /\ \A d \in Calls : /\ call'[d].pc = "signing" => call'[d] = call[d]
                            /\ call[d].pc = "signing" => call'[d] = call[d]
    BY <1>1, <1>4, AsideFacts DEF Calm, Holding
  <2> QED BY <1>1, <2>1, SettleSame DEF Kept
<1> QED BY <1>1, <1>2, <1>3, <1>4, SettleWorks DEF Step

-----------------------------------------------------------------------------
(* The invariants together. *)

LEMMA InitBooks ==
    ASSUME Init PROVE StrandInv /\ OpInv /\ SettleInv
<1>1. /\ club.ledger = << >> /\ club.bal = OpenedBal /\ club.stakes = OpenedStakes
      /\ conf \in Conf /\ DOMAIN << >> = {}
  BY RequestsAssumption DEF Init
<1>2. \A c \in Calls : call[c].pc = "new"
  BY InitSigned
<1>3. StrandInv
  <2> SUFFICES ASSUME NEW t \in Tables, NEW m \in Members PROVE Held(t, m)
    BY DEF StrandInv
  <2>1. <<t, m>> \in Accounts /\ <<t, m>> # House /\ <<t, m>> \notin Members
    BY AccountsFacts, AccountsAssumption
  <2>2. conf.sat \/ club.bal[<<t, m>>] = 0
    BY <1>1, <2>1 DEF OpenedBal
  <2>3. conf.sat => Takes(t, m, club.stakes)
    BY <1>1, OpenedFacts DEF Takes
  <2> QED BY <1>2, <2>2, <2>3 DEF Held
<1>4. \A s \in club.stakes : s.id = 0 /\ s.nonce <= issued
  <2>1. conf.sat => issued = Cardinality(Members \X Tables)
    BY DEF Init
  <2> QED BY <1>1, <2>1, OpenedFacts
<1>5. OpInv
  BY <1>1, <1>2, <1>4 DEF OpInv, NotYet, StakeIds, UniqueIds, MovedOnce
<1>6. SettleInv
  BY <1>1, <1>2, <1>4 DEF SettleInv, Fresh, Issued, Disjoint
<1> QED BY <1>3, <1>5, <1>6

LEMMA BooksStutter ==
    ASSUME StrandInv, OpInv, SettleInv, UNCHANGED vars
    PROVE  StrandInv' /\ OpInv' /\ SettleInv'
<1>1. UNCHANGED <<club, call, conf, issued, crashes>>
  BY DEF vars
<1>2. StrandInv'
  <2>1. \A t, m : Held(t, m)' <=> Held(t, m)
    BY <1>1 DEF Held, Takes, Seats
  <2> QED BY <1>1, <2>1 DEF StrandInv, Timeless
<1>3. Calm' <=> Calm
  BY <1>1 DEF Calm, WinnersPay
<1>4. \A c : Coming(c)' = Coming(c) /\ IdOf(c)' = IdOf(c)
  BY <1>1 DEF Coming, IdOf
<1>5. OpInv'
  <2>1. \A n : Recorded(n)' <=> Recorded(n)
    BY <1>1 DEF Recorded
  <2>2. \A i : EntryKnown(i)' <=> EntryKnown(i)
    BY <1>1, <1>4, <2>1 DEF EntryKnown
  <2>3. \A c : NotYet(c)' <=> NotYet(c)
    BY <1>1, <1>4, <2>1 DEF NotYet, StakeIds, Result
  <2>4. StakeIds(club.stakes)' <=> StakeIds(club.stakes)
    BY <1>1, <2>1 DEF StakeIds
  <2>5. MovedOnce' <=> MovedOnce
    BY <1>1 DEF MovedOnce
  <2> QED BY <1>1, <1>3, <2>2, <2>3, <2>4, <2>5 DEF OpInv
<1>6. SettleInv'
  <2>1. \A c, n : Closing(c, n)' <=> Closing(c, n)
    BY <1>1, <1>4 DEF Closing
  <2>2. \A n : Settled(n)' <=> Settled(n)
    BY <1>1, <2>1 DEF Settled, Spent
  <2>3. \A c : Fresh(c)' <=> Fresh(c)
    BY <1>1, <1>4 DEF Fresh, Issued, Result
  <2>4. Disjoint' <=> Disjoint
    BY <1>1 DEF Disjoint, Result
  <2> QED BY <1>1, <1>3, <2>2, <2>3, <2>4 DEF SettleInv, Issued, Result
<1> QED BY <1>2, <1>5, <1>6

BooksInv == TypeInv /\ SignInv /\ HandInv /\ StrandInv /\ OpInv /\ SettleInv

(* The inductive invariant of the books.                                    *)
THEOREM Books == Spec => []BooksInv
<1>1. Init => BooksInv
  BY Initially, InitSigned, InitBooks DEF BooksInv
<1>2. BooksInv /\ [Next]_vars => BooksInv'
  <2> SUFFICES ASSUME BooksInv, [Next]_vars PROVE BooksInv'
    OBVIOUS
  <2>1. CASE Next
    BY <2>1, Steps, SignKept, HandKept, StrandKept, OpKept, SettleKept DEF BooksInv
  <2>2. CASE UNCHANGED vars
    <3>1. TypeInv'
      BY <2>2 DEF vars, TypeInv, LineInv, BooksInv
    <3> QED BY <2>2, <3>1, SignStutter, BooksStutter DEF BooksInv
  <2> QED BY <2>1, <2>2
<1> QED BY <1>1, <1>2, PTL DEF Spec

(* "The same id returns the original answer and moves no chips a second time":
   whatever calls overlap and however often one is repeated, an operation has at
   most one entry of a kind and one commitment, as long as the process lives. *)
THEOREM OperationsOnce ==
    ASSUME WinnersPay PROVE Spec => []OpOnce
<1>1. BooksInv => OpOnce
  BY DEF BooksInv, OpInv, OpOnce, Calm
<1> QED BY <1>1, Books, PTL

(* "A settled commitment cannot be settled again": no two results name the same
   stake, whatever calls overlap and whatever expires or is pruned meanwhile. *)
THEOREM StakesSettledOnce ==
    ASSUME WinnersPay PROVE Spec => []SettledOnce
<1>1. BooksInv => SettledOnce
  BY DEF BooksInv, SettleInv, SettledOnce, Calm, Disjoint
<1> QED BY <1>1, Books, PTL

(* Chips on a table can be taken off it: without a clock, whoever has a stack has
   a commitment, which tables.leave asks for, or is being given one.        *)
THEOREM StacksHeld == Spec => []NothingStranded
<1>1. BooksInv => NothingStranded
  <2> SUFFICES ASSUME StrandInv, Timeless, NEW t \in Tables, NEW m \in Members,
                      club.bal[<<t, m>>] > 0
               PROVE  \/ Stakes(m, t) # {}
                      \/ \E c \in Calls : At(c, "staking") /\ call[c].req.who = m
    BY DEF BooksInv, NothingStranded, Stack, Timeless
  <2>1. \/ Takes(t, m, club.stakes)
        \/ \E c \in Calls : call[c].pc = "staking" /\ Seats(c, t, m)
    BY DEF StrandInv, Held
  <2> QED BY <2>1 DEF Takes, Stakes, Seats, At
<1> QED BY <1>1, Books, PTL

-----------------------------------------------------------------------------
(* What a set of stakes adds up to. *)

(* Of sets of subsets of a finite set, a smallest.                          *)
LEMMA SmallestSet ==
    ASSUME NEW S, IsFiniteSet(S), NEW B \in SUBSET SUBSET S, B # {}
    PROVE  \E T \in B : \A U \in SUBSET T : U # T => U \notin B
<1> DEFINE N == {Cardinality(T) : T \in B}
<1>1. \A T \in B : IsFiniteSet(T) /\ Cardinality(T) \in Nat
  BY FS_Subset, FS_CardinalityType
<1>2. N \subseteq Nat /\ N # {}
  BY <1>1
<1>3. PICK n \in N : \A k \in N : n <= k
  <2> HIDE DEF N
  <2> QED BY <1>2, LeastNat
<1>4. PICK T \in B : Cardinality(T) = n
  BY <1>3
<1>5. ASSUME NEW U \in SUBSET T, U # T, U \in B PROVE FALSE
  <2>1. Cardinality(U) <= Cardinality(T) /\ Cardinality(T) # Cardinality(U)
    BY <1>1, <1>5, FS_Subset
  <2>2. n <= Cardinality(U)
    BY <1>3, <1>5
  <2> QED BY <1>1, <1>4, <1>5, <2>1, <2>2
<1> QED BY <1>4, <1>5

(* What a set of stakes adds up to, as the fold over sets defines it.       *)
Amounts(S) == MapThenSumSet(LAMBDA s : s.amount, S)
OneOf(S)   == CHOOSE s \in S : TRUE
Adds(f, S) == f = [T \in SUBSET S |-> IF T = {} THEN 0
                                      ELSE OneOf(T).amount + f[T \ {OneOf(T)}]]

(* The sum is that of some function which adds up one stake after the other. *)
LEMMA AmountsAre ==
    ASSUME NEW S
    PROVE  Amounts(S) = (CHOOSE f : Adds(f, S))[S]
BY DEF Amounts, MapThenSumSet, MapThenFoldSet, Adds, OneOf

(* Two such functions agree where both are defined.                         *)
LEMMA AddsSame ==
    ASSUME NEW S, IsFiniteSet(S), NEW T \in SUBSET S, NEW f, Adds(f, S), NEW g, Adds(g, T)
    PROVE  \A U \in SUBSET T : f[U] = g[U]
<1> DEFINE B == {U \in SUBSET T : f[U] # g[U]}
<1>1. ASSUME B # {} PROVE FALSE
  <2>1. PICK U \in B : \A V \in SUBSET U : V # U => V \notin B
    <3>1. B \in SUBSET SUBSET S
      OBVIOUS
    <3> HIDE DEF B
    <3> QED BY <1>1, <3>1, SmallestSet
  <2> DEFINE V == U \ {OneOf(U)}
  <2>2. U # {} => V \in SUBSET U /\ V # U
    BY DEF OneOf
  <2>3. U # {} => f[V] = g[V]
    BY <2>1, <2>2
  <2>4. U \in SUBSET T /\ U \in SUBSET S
    OBVIOUS
  <2>5. /\ f[U] = IF U = {} THEN 0 ELSE OneOf(U).amount + f[V]
        /\ g[U] = IF U = {} THEN 0 ELSE OneOf(U).amount + g[V]
    BY <2>4 DEF Adds
  <2> QED BY <2>3, <2>5
<1> QED BY <1>1

(* There is one, for every finite set.                                      *)
LEMMA AddsExists ==
    ASSUME NEW S, IsFiniteSet(S) PROVE \E f : Adds(f, S)
<1> DEFINE B == {T \in SUBSET S : ~ \E f : Adds(f, T)}
<1>1. ASSUME B # {} PROVE FALSE
  <2>1. PICK T \in B : \A U \in SUBSET T : U # T => U \notin B
    <3>1. B \in SUBSET SUBSET S
      OBVIOUS
    <3> HIDE DEF B
    <3> QED BY <1>1, <3>1, SmallestSet
  <2>2. T \in SUBSET S /\ IsFiniteSet(T)
    BY FS_Subset
  <2>3. \A U \in SUBSET T : U # T => \E f : Adds(f, U)
    BY <2>1, <2>2
  <2> DEFINE g == [U \in SUBSET T |-> IF U = {} THEN 0
                                      ELSE OneOf(U).amount + Amounts(U \ {OneOf(U)})]
  <2>4. ASSUME NEW V \in SUBSET T, V # T PROVE g[V] = Amounts(V)
    <3> DEFINE h == CHOOSE f : Adds(f, V)
               W == V \ {OneOf(V)}
               k == CHOOSE f : Adds(f, W)
    <3>1. Adds(h, V)
      BY <2>3, <2>4
    <3>2. V # {} => W \in SUBSET V /\ W # V
      BY DEF OneOf
    <3>3. V # {} => Adds(k, W)
      BY <2>3, <2>4, <3>2
    <3>4. IsFiniteSet(V)
      BY <2>2, FS_Subset
    <3>5. h[V] = Amounts(V) /\ k[W] = Amounts(W)
      BY AmountsAre
    <3> HIDE DEF h, k
    <3>6. h[V] = IF V = {} THEN 0 ELSE OneOf(V).amount + h[W]
      BY <3>1 DEF Adds
    <3>7. V # {} => h[W] = k[W]
      BY <3>1, <3>2, <3>3, <3>4, AddsSame
    <3> QED BY <3>5, <3>6, <3>7
  <2>5. ASSUME NEW U \in SUBSET T, U # {} PROVE Amounts(U \ {OneOf(U)}) = g[U \ {OneOf(U)}]
    <3>1. U \ {OneOf(U)} \in SUBSET T /\ U \ {OneOf(U)} # T
      BY <2>5 DEF OneOf
    <3> HIDE DEF g
    <3> QED BY <2>4, <3>1
  <2>6. g = [U \in SUBSET T |-> IF U = {} THEN 0 ELSE OneOf(U).amount + g[U \ {OneOf(U)}]]
    <3> DEFINE e(U) == IF U = {} THEN 0 ELSE OneOf(U).amount + g[U \ {OneOf(U)}]
    <3>1. \A U \in SUBSET T : g[U] = e(U)
      BY <2>5
    <3>2. g = [U \in SUBSET T |-> g[U]]
      OBVIOUS
    <3> HIDE DEF g, e
    <3>3. g = [U \in SUBSET T |-> e(U)]
      BY <3>1, <3>2
    <3> QED BY <3>3 DEF e
  <2>7. Adds(g, T)
    BY <2>6 DEF Adds
  <2> QED BY <2>1, <2>7
<1> QED BY <1>1

(* The sum of a set by way of a smaller one.                                *)
LEMMA AmountsDef ==
    ASSUME NEW S, IsFiniteSet(S)
    PROVE  Amounts(S) = IF S = {} THEN 0 ELSE OneOf(S).amount + Amounts(S \ {OneOf(S)})
<1> DEFINE W == S \ {OneOf(S)}
           h == CHOOSE f : Adds(f, S)
           k == CHOOSE f : Adds(f, W)
<1>1. Adds(h, S)
  BY AddsExists
<1>2. IsFiniteSet(W) /\ W \in SUBSET S
  BY FS_Subset
<1>3. Adds(k, W)
  <2> HIDE DEF W
  <2> QED BY <1>2, AddsExists
<1>4. h[S] = Amounts(S) /\ k[W] = Amounts(W)
  BY AmountsAre
<1> HIDE DEF h, k
<1>5. h[S] = IF S = {} THEN 0 ELSE OneOf(S).amount + h[W]
  BY <1>1 DEF Adds
<1>6. h[W] = k[W]
  BY <1>1, <1>2, <1>3, AddsSame
<1> QED BY <1>4, <1>5, <1>6

Amounted(S) == IsFiniteSet(S) /\ \A s \in S : s.amount \in Nat

(* A sum of amounts is a number.                                            *)
LEMMA AmountsNat ==
    ASSUME NEW S, Amounted(S) PROVE Amounts(S) \in Nat
<1> DEFINE B == {T \in SUBSET S : Amounts(T) \notin Nat}
<1>1. ASSUME B # {} PROVE FALSE
  <2>1. PICK T \in B : \A U \in SUBSET T : U # T => U \notin B
    <3>1. B \in SUBSET SUBSET S
      OBVIOUS
    <3> HIDE DEF B
    <3> QED BY <1>1, <3>1, SmallestSet DEF Amounted
  <2> DEFINE W == T \ {OneOf(T)}
  <2>2. IsFiniteSet(T)
    BY FS_Subset DEF Amounted
  <2>3. T # {} => W \in SUBSET T /\ W # T /\ OneOf(T) \in S
    BY DEF OneOf
  <2>4. T # {} => Amounts(W) \in Nat
    BY <2>1, <2>3
  <2>5. Amounts(T) = IF T = {} THEN 0 ELSE OneOf(T).amount + Amounts(W)
    BY <2>2, AmountsDef
  <2> QED BY <2>3, <2>4, <2>5 DEF Amounted
<1> QED BY <1>1

(* Whichever is taken from the sum first.                                   *)
LEMMA AmountsTake ==
    ASSUME NEW S, Amounted(S), NEW x \in S
    PROVE  Amounts(S) = x.amount + Amounts(S \ {x})
<1> DEFINE Bad(T) == \E y \in T : Amounts(T) # y.amount + Amounts(T \ {y})
           B == {T \in SUBSET S : Bad(T)}
<1>1. ASSUME B # {} PROVE FALSE
  <2>1. PICK T \in B : \A U \in SUBSET T : U # T => U \notin B
    <3>1. B \in SUBSET SUBSET S
      OBVIOUS
    <3> HIDE DEF B
    <3> QED BY <1>1, <3>1, SmallestSet DEF Amounted
  <2>2. PICK y \in T : Amounts(T) # y.amount + Amounts(T \ {y})
    OBVIOUS
  <2> DEFINE o == OneOf(T)
             U == T \ {o}
             V == T \ {y}
             W == (T \ {o}) \ {y}
  <2>3. o \in T /\ o \in S /\ y \in S
    BY DEF OneOf
  <2>4. o # y
    <3>1. IsFiniteSet(T)
      BY FS_Subset DEF Amounted
    <3> QED BY <2>2, <3>1, AmountsDef
  <2>5. /\ Amounted(T) /\ Amounted(U) /\ Amounted(V) /\ Amounted(W)
    BY FS_Subset DEF Amounted
  <2>6. Amounts(T) = o.amount + Amounts(U)
    BY <2>5, AmountsDef DEF Amounted
  <2>7. Amounts(U) = y.amount + Amounts(W)
    <3>1. U \in SUBSET T /\ U # T /\ y \in U /\ U \in SUBSET S
      BY <2>3, <2>4
    <3>2. ~Bad(U)
      BY <2>1, <3>1
    <3> QED BY <3>1, <3>2
  <2>8. Amounts(V) = o.amount + Amounts(W)
    <3>1. V \in SUBSET T /\ V # T /\ o \in V /\ V \in SUBSET S /\ V \ {o} = W
      BY <2>3, <2>4
    <3>2. ~Bad(V)
      BY <2>1, <3>1
    <3> QED BY <3>1, <3>2
  <2>9. Amounts(W) \in Nat /\ o.amount \in Nat /\ y.amount \in Nat
    BY <2>3, <2>5, AmountsNat DEF Amounted
  <2> QED BY <2>2, <2>6, <2>7, <2>8, <2>9
<1>2. ~Bad(S)
  BY <1>1
<1> QED BY <1>2

(* One stake more.                                                          *)
LEMMA AmountsAdd ==
    ASSUME NEW S, Amounted(S), NEW x, x \notin S, x.amount \in Nat
    PROVE  Amounts(S \cup {x}) = x.amount + Amounts(S) /\ Amounted(S \cup {x})
<1>1. Amounted(S \cup {x})
  BY FS_AddElement DEF Amounted
<1>2. (S \cup {x}) \ {x} = S
  OBVIOUS
<1> QED BY <1>1, <1>2, AmountsTake

(* A part adds up to no more than the whole, and to less by what is missing. *)
LEMMA AmountsPart ==
    ASSUME NEW S, Amounted(S), NEW T \in SUBSET S PROVE Amounts(T) <= Amounts(S)
<1> DEFINE B == {U \in SUBSET S : T \subseteq U /\ ~(Amounts(T) <= Amounts(U))}
<1>1. ASSUME B # {} PROVE FALSE
  <2>1. PICK U \in B : \A V \in SUBSET U : V # U => V \notin B
    <3>1. B \in SUBSET SUBSET S
      OBVIOUS
    <3> HIDE DEF B
    <3> QED BY <1>1, <3>1, SmallestSet DEF Amounted
  <2>2. Amounted(T) /\ Amounted(U)
    BY FS_Subset DEF Amounted
  <2>3. Amounts(T) \in Nat /\ Amounts(U) \in Nat
    BY <2>2, AmountsNat
  <2>4. T # U
    BY <2>3
  <2>5. PICK x \in U : x \notin T
    BY <2>4
  <2> DEFINE V == U \ {x}
  <2>6. V \in SUBSET U /\ V # U /\ T \subseteq V /\ V \in SUBSET S /\ Amounted(V)
    BY <2>2, <2>5, FS_Subset DEF Amounted
  <2>7. Amounts(T) <= Amounts(V)
    BY <2>1, <2>6
  <2>8. Amounts(U) = x.amount + Amounts(V) /\ x.amount \in Nat /\ Amounts(V) \in Nat
    BY <2>2, <2>6, AmountsTake, AmountsNat DEF Amounted
  <2> HIDE DEF V
  <2> QED BY <2>3, <2>7, <2>8
<1> QED BY <1>1

(* A part that lacks a stake is less by its amount.                         *)
LEMMA AmountsLess ==
    ASSUME NEW S, Amounted(S), NEW T \in SUBSET S, NEW x \in S, x \notin T
    PROVE  Amounts(T) + x.amount <= Amounts(S)
<1> DEFINE V == S \ {x}
<1>1. Amounted(V) /\ T \in SUBSET V /\ Amounted(T)
  BY FS_Subset DEF Amounted
<1>2. Amounts(T) <= Amounts(V) /\ Amounts(S) = x.amount + Amounts(V)
  BY <1>1, AmountsPart, AmountsTake
<1>3. Amounts(T) \in Nat /\ Amounts(V) \in Nat /\ x.amount \in Nat
  BY <1>1, AmountsNat DEF Amounted
<1> HIDE DEF V
<1> QED BY <1>2, <1>3

(* Stakes of no more than k each.                                           *)
LEMMA AmountsBound ==
    ASSUME NEW S, Amounted(S), NEW k \in Nat, \A s \in S : s.amount <= k
    PROVE  Amounts(S) <= k * Cardinality(S)
<1> DEFINE B == {T \in SUBSET S : ~(Amounts(T) <= k * Cardinality(T))}
<1>1. ASSUME B # {} PROVE FALSE
  <2>1. PICK T \in B : \A U \in SUBSET T : U # T => U \notin B
    <3>1. B \in SUBSET SUBSET S
      OBVIOUS
    <3> HIDE DEF B
    <3> QED BY <1>1, <3>1, SmallestSet DEF Amounted
  <2>2. Amounted(T)
    BY FS_Subset DEF Amounted
  <2>3. T # {}
    <3>1. Amounts({}) = 0 /\ Cardinality({}) = 0
      BY AmountsDef, FS_EmptySet
    <3>2. 0 <= k * 0
      OBVIOUS
    <3>3. Amounts({}) <= k * Cardinality({})
      BY <3>1, <3>2
    <3>4. ~(Amounts(T) <= k * Cardinality(T))
      OBVIOUS
    <3> QED BY <3>3, <3>4
  <2>4. PICK x \in T : TRUE
    BY <2>3
  <2> DEFINE V == T \ {x}
  <2>5. V \in SUBSET T /\ V # T /\ V \in SUBSET S /\ Amounted(V)
    BY <2>2, <2>4, FS_Subset DEF Amounted
  <2>6. Amounts(V) <= k * Cardinality(V)
    BY <2>1, <2>5
  <2>7. Cardinality(V) = Cardinality(T) - 1 /\ Cardinality(T) \in Nat /\ Cardinality(V) \in Nat
    BY <2>2, <2>5, FS_RemoveElement, FS_CardinalityType DEF Amounted
  <2>8. Amounts(T) = x.amount + Amounts(V) /\ x.amount \in Nat /\ Amounts(V) \in Nat /\ x.amount <= k
    BY <2>2, <2>5, AmountsTake, AmountsNat DEF Amounted
  <2>9. k * Cardinality(V) + k = k * Cardinality(T) /\ k * Cardinality(V) \in Nat
    <3>1. \A n \in Nat : k * n + k = k * (n + 1) /\ k * n \in Nat
      OBVIOUS
    <3> HIDE DEF V
    <3> QED BY <2>7, <3>1
  <2> HIDE DEF V
  <2> QED BY <2>6, <2>8, <2>9
<1>2. ~(S \in B)
  BY <1>1
<1> QED BY <1>2

-----------------------------------------------------------------------------
(* Stakes that are covered. *)

(* What is promised of a member's chips.                                    *)
Live(stakes, m) == {s \in stakes : s.who = m /\ s.fate = "open"}
Cost(stakes, m) == Amounts(Live(stakes, m))

(* Where the promise is kept: chips move only in tallies.                    *)
Strict == Deferred /\ ~conf.admins /\ ~conf.transfers /\ ~conf.clock /\ crashes = 0

StakesKnown(stakes) == /\ IsFiniteSet(stakes)
                       /\ \A r, s \in stakes : r.nonce = s.nonce => r = s
                       /\ \A s \in stakes : s.nonce <= issued

NoStacks(base) == \A t \in Tables, m \in Members : base.bal[<<t, m>>] = 0

(* A tally names a stake of each of its players, while it is there.          *)
Names(c) == \E i, j \in Nat :
               /\ call[c].nonces = {i, j} /\ i <= issued /\ j <= issued
               /\ \A s \in club.stakes : /\ s.nonce = i => s.who = call[c].req.who
                                         /\ s.nonce = j => s.who = call[c].req.to

(* When what a tally has left to sign is signed, its players can do without the
   stakes it names, and everybody else keeps their promise.                  *)
Enough(c, base, todo) ==
    LET r == call[c].req
    IN  /\ \E s, o \in base.stakes, n \in Nat :
              /\ s.fate = "open" /\ s.who = r.who /\ s.nonce \in call[c].nonces
              /\ o.fate = "open" /\ o.who = r.to /\ o.nonce \in call[c].nonces
              /\ (todo = << >> /\ n = 0) \/ todo = <<Burn(r.to, n)>>
              /\ Cost(base.stakes, r.who) <= base.bal[r.who] + s.amount
              /\ Cost(base.stakes, r.to) + n <= base.bal[r.to] + o.amount
        /\ \A m \in Members \ {r.who, r.to} : Cost(base.stakes, m) <= base.bal[m]

Pays(c) == /\ call[c].req.op = "settle" /\ call[c].req.who # call[c].req.to
           /\ call[c].next.stakes = club.stakes /\ NoStacks(call[c].next)
           /\ Enough(c, call[c].next, call[c].todo)

CallCovers(c) ==
    call[c].pc \notin Ended =>
        LET r == call[c].req
        IN  /\ call[c].reclaim = {} /\ r.op \in {"sit", "leave", "settle"}
            /\ r.op = "settle" => Names(c)
            /\ call[c].pc \in {"seating", "staking"} =>
                  Cost(club.stakes, r.who) + r.amount <= club.bal[r.who]
            /\ call[c].pc = "signing" => Pays(c)

Covered(base) == \A m \in Members : Cost(base.stakes, m) <= base.bal[m]

CoverInv ==
    Strict => /\ StakesKnown(club.stakes) /\ NoStacks(club)
              /\ \A c \in Calls : CallCovers(c)
              /\ (\A c \in Calls : call[c].pc # "signing") => Covered(club)

(* Stakes have amounts, and so has every part of them.                       *)
LEMMA LiveFacts ==
    ASSUME NEW S \in SUBSET Stake, IsFiniteSet(S), NEW m
    PROVE  /\ Amounted(Live(S, m)) /\ Cost(S, m) \in Nat
           /\ \A s \in Live(S, m) : s.amount \in Nat /\ s.amount <= Cost(S, m)
<1> DEFINE L == Live(S, m)
<1>1. L \in SUBSET S /\ \A s \in L : s.amount \in Nat
  BY DEF Live, Stake
<1>2. Amounted(L)
  BY <1>1, FS_Subset DEF Amounted
<1> HIDE DEF L
<1>3. Amounts(L) \in Nat /\ Amounts({}) \in Nat
  <2>1. Amounted({})
    BY FS_EmptySet DEF Amounted
  <2> QED BY <1>2, <2>1, AmountsNat
<1>4. ASSUME NEW s \in L PROVE s.amount <= Amounts(L)
  <2>1. Amounts({}) + s.amount <= Amounts(L)
    BY <1>2, AmountsLess
  <2> QED BY <1>1, <1>3, <2>1
<1> QED BY <1>1, <1>2, <1>3, <1>4 DEF L, Cost

(* Before any deadline, what encumbers a balance is the sum of its live stakes. *)
LEMMA EncumberedIs ==
    ASSUME late = {}, NEW b, NEW m PROVE Encumbered(b, m) = Cost(b.stakes, m)
<1> DEFINE L == {s \in b.stakes : s.who = m /\ s.fate = "open" /\ s.nonce \notin late}
<1>1. L = Live(b.stakes, m)
  BY DEF Live
<1>2. Encumbered(b, m) = (CHOOSE f : Adds(f, L))[L]
  BY DEF Encumbered, MapThenSumSet, MapThenFoldSet, Adds, OneOf
<1> HIDE DEF L
<1> QED BY <1>1, <1>2, AmountsAre DEF Cost

(* Stakes of which some are closed.                                          *)
LEMMA CloseCovers ==
    ASSUME NEW b \in ClubState, NEW nonces, NEW fate \in Fates, fate # "open",
           issued \in Nat, StakesKnown(b.stakes), NEW T, T = Close(b, nonces, fate).stakes
    PROVE  /\ StakesKnown(T) /\ T \in SUBSET Stake
           /\ \A s \in T : \E r \in b.stakes : s.nonce = r.nonce /\ s.who = r.who
           /\ \A m : Live(T, m) = {s \in Live(b.stakes, m) : s.nonce \notin nonces}
<1> DEFINE f(s) == IF s.nonce \in nonces /\ s.fate = "open" THEN [s EXCEPT !.fate = fate] ELSE s
<1>1. b.stakes \subseteq Stake
  BY DEF ClubState
<1>2. ASSUME NEW s \in Stake
      PROVE  /\ f(s) \in Stake /\ f(s).nonce = s.nonce /\ f(s).who = s.who
             /\ s.nonce \in nonces => f(s).fate # "open"
             /\ s.nonce \notin nonces => f(s) = s
  BY DEF Stake
<1>3. T = {f(s) : s \in b.stakes} /\ T \in SUBSET Stake
  BY CloseFacts DEF ClubState
<1>4. IsFiniteSet(T)
  <2> DEFINE g == [s \in b.stakes |-> f(s)]
  <2>1. g \in Surjection(b.stakes, T)
    <3>1. g \in [b.stakes -> T] /\ \A t \in T : \E s \in b.stakes : g[s] = t
      BY <1>3
    <3> HIDE DEF g
    <3> QED BY <3>1 DEF Surjection
  <2> HIDE DEF g
  <2> QED BY <2>1, FS_Surjection DEF StakesKnown
<1> HIDE DEF f
<1>5. StakesKnown(T)
  BY <1>1, <1>2, <1>3, <1>4 DEF StakesKnown
<1>6. ASSUME NEW m PROVE Live(T, m) = {s \in Live(b.stakes, m) : s.nonce \notin nonces}
  <2>1. ASSUME NEW t \in Live(T, m) PROVE t \in Live(b.stakes, m) /\ t.nonce \notin nonces
    <3>1. PICK s \in b.stakes : t = f(s)
      BY <1>3, <2>1 DEF Live
    <3> QED BY <1>1, <1>2, <2>1, <3>1 DEF Live
  <2>2. ASSUME NEW s \in Live(b.stakes, m), s.nonce \notin nonces PROVE s \in Live(T, m)
    <3>1. s \in b.stakes /\ s \in Stake /\ s = f(s)
      BY <1>1, <1>2, <2>2 DEF Live
    <3> QED BY <1>3, <2>2, <3>1 DEF Live
  <2> QED BY <2>1, <2>2
<1>7. \A s \in T : \E r \in b.stakes : s.nonce = r.nonce /\ s.who = r.who
  BY <1>1, <1>2, <1>3
<1> QED BY <1>3, <1>5, <1>6, <1>7

(* What closing stakes saves their owners.                                   *)
LEMMA CloseSaves ==
    ASSUME NEW b \in ClubState, issued \in Nat, StakesKnown(b.stakes), NEW nonces,
           NEW T \in SUBSET Stake,
           \A m : Live(T, m) = {s \in Live(b.stakes, m) : s.nonce \notin nonces}
    PROVE  /\ \A m : Cost(T, m) \in Nat /\ Cost(T, m) <= Cost(b.stakes, m)
           /\ \A s \in b.stakes : s.fate = "open" /\ s.nonce \in nonces =>
                 Cost(T, s.who) + s.amount <= Cost(b.stakes, s.who)
<1>1. b.stakes \in SUBSET Stake /\ IsFiniteSet(b.stakes)
  BY DEF ClubState, StakesKnown
<1>2. ASSUME NEW m
      PROVE  Amounted(Live(b.stakes, m)) /\ Amounted(Live(T, m)) /\ Live(T, m) \in SUBSET Live(b.stakes, m)
  <2>1. Amounted(Live(b.stakes, m))
    BY <1>1, LiveFacts
  <2>2. Live(T, m) \in SUBSET Live(b.stakes, m)
    OBVIOUS
  <2> QED BY <2>1, <2>2, FS_Subset DEF Amounted
<1>3. ASSUME NEW m PROVE Cost(T, m) \in Nat /\ Cost(T, m) <= Cost(b.stakes, m)
  BY <1>2, AmountsPart, AmountsNat DEF Cost
<1>4. ASSUME NEW s \in b.stakes, s.fate = "open", s.nonce \in nonces
      PROVE  Cost(T, s.who) + s.amount <= Cost(b.stakes, s.who)
  <2>1. s \in Live(b.stakes, s.who) /\ s \notin Live(T, s.who)
    BY <1>4 DEF Live
  <2> QED BY <1>2, <2>1, AmountsLess DEF Cost
<1> QED BY <1>3, <1>4

(* A settled tally: its stakes are closed, and what is closed may be forgotten. *)
LEMMA FinishedCovers ==
    ASSUME NEW b \in ClubState, issued \in Nat, StakesKnown(b.stakes),
           NEW c \in Calls, call[c] \in CallState, call[c].req \in Request,
           call[c].req.op = "settle", NEW T, T = Finished(c, b).stakes
    PROVE  /\ StakesKnown(T) /\ T \in SUBSET Stake
           /\ \A s \in T : \E r \in b.stakes : s.nonce = r.nonce /\ s.who = r.who
           /\ \A m : Live(T, m) = {s \in Live(b.stakes, m) : s.nonce \notin call[c].nonces}
<1> DEFINE d == Close(b, call[c].nonces, "settled")
<1>1. "settled" \in Fates /\ "settled" # "open"
  BY DEF Fates
<1>2. d \in ClubState
  BY <1>1, CloseFacts
<1>3. /\ StakesKnown(d.stakes) /\ d.stakes \in SUBSET Stake
      /\ \A s \in d.stakes : \E r \in b.stakes : s.nonce = r.nonce /\ s.who = r.who
      /\ \A m : Live(d.stakes, m) = {s \in Live(b.stakes, m) : s.nonce \notin call[c].nonces}
  BY <1>1, CloseCovers
<1>4. T = Prune(d).stakes
  BY FinishedFacts
<1> HIDE DEF d
<1>5. T = {s \in d.stakes : s.fate = "open" \/ s.nonce \notin aged}
  BY <1>2, <1>4, PruneFacts
<1>6. T \in SUBSET d.stakes /\ \A m : Live(T, m) = Live(d.stakes, m)
  BY <1>5 DEF Live
<1>7. StakesKnown(T)
  BY <1>3, <1>6, FS_Subset DEF StakesKnown
<1> QED BY <1>3, <1>6, <1>7

(* A call that works with the ledger: nothing else is signed, and what other
   calls rely on stays as long as stakes are only closed, or one is issued.  *)
LEMMA CoverOthers ==
    ASSUME TypeInv, CoverInv, Strict, NEW c, AtWork(c), Moves(c), issued' \in {issued, issued + 1},
           \A s \in club'.stakes :
              \/ s.nonce = issued + 1
              \/ \E r \in club.stakes : s.nonce = r.nonce /\ s.who = r.who
    PROVE  \A d \in Calls : d # c => CallCovers(d)' /\ call'[d].pc # "signing"
<1> SUFFICES ASSUME NEW d \in Calls, d # c PROVE CallCovers(d)' /\ call'[d].pc # "signing"
  OBVIOUS
<1>1. call'[d] = call[d] /\ call[d].pc \notin {"signing", "seating", "staking"}
  BY OnlyHeadSigns DEF Moves, Holding
<1>2. CallCovers(d) /\ issued \in Nat
  BY DEF CoverInv, TypeInv
<1>3. ASSUME Names(d) PROVE Names(d)'
  <2>1. PICK i \in Nat, j \in Nat :
               /\ call[d].nonces = {i, j} /\ i <= issued /\ j <= issued
               /\ \A s \in club.stakes : /\ s.nonce = i => s.who = call[d].req.who
                                         /\ s.nonce = j => s.who = call[d].req.to
    BY <1>3 DEF Names
  <2>2. i <= issued' /\ j <= issued' /\ i # issued + 1 /\ j # issued + 1
    BY <1>2, <2>1
  <2>3. \A s \in club'.stakes : /\ s.nonce = i => s.who = call[d].req.who
                                /\ s.nonce = j => s.who = call[d].req.to
    BY <2>1, <2>2
  <2> QED BY <1>1, <2>1, <2>2, <2>3 DEF Names
<1> QED BY <1>1, <1>2, <1>3 DEF CallCovers

(* A call that is answered, in a state where every promise is kept.         *)
LEMMA CoverEnds ==
    ASSUME TypeInv, CoverInv, Strict, NEW c, AtWork(c), Moves(c), call'[c].pc \in Ended,
           issued' \in {issued, issued + 1},
           \A s \in club'.stakes :
              \/ s.nonce = issued + 1
              \/ \E r \in club.stakes : s.nonce = r.nonce /\ s.who = r.who,
           StakesKnown(club.stakes)', NoStacks(club)', Covered(club)'
    PROVE  CoverInv'
<1>1. CallCovers(c)'
  BY DEF CallCovers
<1>2. \A d \in Calls : CallCovers(d)'
  BY <1>1, CoverOthers
<1> QED BY <1>2 DEF CoverInv

(* Calls move, and nothing that is stored changes.                          *)
LEMMA CoverCalls ==
    ASSUME CoverInv, Strict, UNCHANGED <<club, issued>>,
           \A d \in Calls : \/ call'[d] = call[d]
                            \/ call[d].pc # "signing" /\ CallCovers(d)'
    PROVE  CoverInv'
<1>1. ASSUME NEW d \in Calls, call'[d] = call[d] PROVE CallCovers(d)'
  <2>1. CallCovers(d)
    BY DEF CoverInv
  <2>2. Names(d)' <=> Names(d)
    BY <1>1 DEF Names
  <2>3. Pays(d)' <=> Pays(d)
    BY <1>1 DEF Pays, NoStacks, Enough
  <2> QED BY <1>1, <2>1, <2>2, <2>3 DEF CallCovers
<1>2. (\A c \in Calls : call'[c].pc # "signing") => \A c \in Calls : call[c].pc # "signing"
  OBVIOUS
<1>3. StakesKnown(club.stakes)' /\ NoStacks(club)' /\ (Covered(club) => Covered(club)')
  BY DEF CoverInv, StakesKnown, NoStacks, Covered
<1> QED BY <1>1, <1>2, <1>3 DEF CoverInv

(* What a tally moves, in full.                                             *)
HandLines(h, from, to, amount, rake) ==
    /\ h = << >> => amount = 0 /\ rake = 0
    /\ h # << >> =>
         \E n \in Nat :
            /\ (Tail(h) = << >> /\ n = 0) \/ Tail(h) = <<Burn(to, n)>>
            /\ \A a \in Accounts \ {from, to} : Head(h).lines[a] = 0
            /\ Head(h).lines[from] = - amount
            /\ Head(h).lines[to] - n = amount - rake

(* What Hand drafts.                                                        *)
LEMMA HandCases ==
    ASSUME NEW r \in Request, NEW from \in Accounts, NEW to \in Accounts, from # to,
           NEW rake \in Nat
    PROVE  HandLines(Hand(r, from, to, rake), from, to, r.amount, rake)
<1> DEFINE h == Hand(r, from, to, rake)
<1> SUFFICES HandLines(h, from, to, r.amount, rake)
  OBVIOUS
<1> DEFINE d == Pay("result", from, to, r.amount)
           b == Burn(to, rake)
<1>0. h = Hand(r, from, to, rake)
  OBVIOUS
<1> HIDE DEF h
<1>1. r.amount \in Nat
  BY DEF Request
<1>2. /\ \A a \in Accounts \ {from, to} : d.lines[a] = 0 /\ b.lines[a] = 0
      /\ d.lines[from] = - r.amount /\ d.lines[to] = r.amount
      /\ b.lines[from] = 0 /\ b.lines[to] = - rake
  <2>1. \A a \in Accounts : d.lines[a] = (IF a = to THEN r.amount ELSE 0)
                                         - (IF a = from THEN r.amount ELSE 0)
    BY DEF Pay
  <2>2. \A a \in Accounts : b.lines[a] = IF a = to THEN - rake ELSE 0
    BY BurnFacts
  <2> HIDE DEF d, b
  <2> QED BY <1>1, <2>1, <2>2
<1>3. CASE r.amount > 0 /\ rake > 0
  <2>1. h = <<d>> \o <<b>>
    BY <1>0, <1>3 DEF Hand
  <2> HIDE DEF d
  <2>2. h = <<d, Burn(to, rake)>>
    <3> HIDE DEF b
    <3>1. h = <<d, b>>
      BY <2>1, TwoEntries
    <3> QED BY <3>1 DEF b
  <2>3. h # << >> /\ Head(h) = d /\ Tail(h) = <<Burn(to, rake)>>
    <3> HIDE DEF b
    <3>1. h = <<d, b>>
      BY <2>2 DEF b
    <3>2. h # << >> /\ Head(h) = d /\ Tail(h) = <<b>>
      BY <3>1
    <3> QED BY <3>2 DEF b
  <2>4. d.lines[to] - rake = r.amount - rake
    BY <1>2
  <2> QED BY <1>2, <2>3, <2>4 DEF HandLines
<1>4. CASE r.amount > 0 /\ ~(rake > 0)
  <2>1. h = <<d>> \o << >>
    BY <1>0, <1>4 DEF Hand
  <2> HIDE DEF d
  <2>2. h # << >> /\ Head(h) = d /\ Tail(h) = << >>
    BY <2>1
  <2>3. d.lines[to] - 0 = r.amount - rake
    BY <1>1, <1>2, <1>4
  <2> QED BY <1>2, <2>2, <2>3 DEF HandLines
<1>5. CASE ~(r.amount > 0) /\ rake > 0
  <2>1. h = << >> \o <<b>>
    BY <1>0, <1>5 DEF Hand
  <2> HIDE DEF b, d
  <2>2. h # << >> /\ Head(h) = b /\ Tail(h) = << >>
    BY <2>1
  <2>3. r.amount = 0 /\ - r.amount = 0
    BY <1>1, <1>5
  <2>4. b.lines[to] - 0 = r.amount - rake
    BY <1>2, <2>3
  <2>5. b.lines[from] = - r.amount /\ \A a \in Accounts \ {from, to} : b.lines[a] = 0
    BY <1>2, <2>3
  <2> QED BY <2>2, <2>4, <2>5 DEF HandLines
<1>6. CASE ~(r.amount > 0) /\ ~(rake > 0)
  <2>1. h = << >> \o << >>
    BY <1>0, <1>6 DEF Hand
  <2> QED BY <1>1, <1>6, <2>1 DEF HandLines
<1> QED BY <1>3, <1>4, <1>5, <1>6

(* A tally that is let through names an open stake of each of its players, and
   neither loses more than theirs.                                          *)
LEMMA TallyStakes ==
    ASSUME NEW c, TallyOk(c), Names(c)
    PROVE  LET r == call[c].req
           IN  r.who # r.to /\ \E s, o \in club.stakes :
                  /\ s.fate = "open" /\ s.who = r.who /\ s.nonce \in call[c].nonces
                  /\ o.fate = "open" /\ o.who = r.to /\ o.nonce \in call[c].nonces
                  /\ r.amount <= s.amount /\ r.rake - r.amount <= o.amount
<1> DEFINE r == call[c].req
           named == {s \in club.stakes : s.nonce \in call[c].nonces}
<1>1. PICK i \in Nat, j \in Nat :
               /\ call[c].nonces = {i, j}
               /\ \A s \in club.stakes : /\ s.nonce = i => s.who = r.who
                                         /\ s.nonce = j => s.who = r.to
  BY DEF Names
<1>2. /\ r.who # r.to /\ call[c].nonces = {s.nonce : s \in named}
      /\ \A s \in named : s.fate = "open"
      /\ \A s \in named : s.who = r.who => r.amount <= s.amount
      /\ \A s \in named : s.who = r.to => r.rake - r.amount <= s.amount
  BY DEF TallyOk
<1>3. PICK s \in named : s.nonce = i
  BY <1>1, <1>2
<1>4. PICK o \in named : o.nonce = j
  BY <1>1, <1>2
<1>5. s \in club.stakes /\ o \in club.stakes /\ s.nonce \in call[c].nonces /\ o.nonce \in call[c].nonces
  OBVIOUS
<1>6. s.who = r.who /\ o.who = r.to
  BY <1>1, <1>3, <1>4, <1>5
<1> QED BY <1>2, <1>5, <1>6

(* No member's account is another's, or a seat's.                           *)
LEMMA MemberAccounts ==
    /\ Members \subseteq Accounts
    /\ \A t \in Tables, m \in Members : <<t, m>> \in Accounts /\ <<t, m>> \notin Members
BY AccountsFacts, NotStack

(* A tally that signs its first or its next entry.                          *)
LEMMA PaysOn ==
    ASSUME TypeInv, CoverInv, Strict, NEW c, AtWork(c), NEW base \in ClubState,
           NEW todo \in Seq(Draft), Signs(c, base, todo), UNCHANGED <<conf, issued, crashes>>,
           call[c].req.op = "settle", CallCovers(c), call[c].pc \in {"queued", "signing"},
           base.stakes = club.stakes, NoStacks(base), call[c].req.who # call[c].req.to,
           \A a \in Accounts \ {call[c].req.who, call[c].req.to} : Head(todo).lines[a] = 0,
           Enough(c, Entered(base, todo, c), Tail(todo))
    PROVE  CoverInv'
<1> DEFINE r    == call[c].req
           next == Entered(base, todo, c)
<1>1. /\ c \in Calls /\ call[c] \in CallState /\ r \in Request /\ Moves(c)
      /\ r.who \in Members /\ r.to \in Members
  BY RequestFacts DEF AtWork, TypeInv, Signs
<1>2. /\ todo # << >> /\ Valid(Head(todo), base) /\ club' = base
      /\ call'[c] = [call[c] EXCEPT !.pc = "signing", !.todo = Tail(todo), !.next = next]
  BY DEF Signs
<1>3. /\ next.stakes = base.stakes
      /\ \A a \in Accounts : next.bal[a] = base.bal[a] + Head(todo).lines[a]
  BY <1>1, <1>2, EnteredFacts
<1>4. Head(todo) \in Draft
  BY <1>1, <1>2, NewEntryFacts
<1>0. Enough(c, next, Tail(todo))
  OBVIOUS
<1> HIDE DEF next
<1>5. /\ call'[c].pc = "signing" /\ call'[c].todo = Tail(todo) /\ call'[c].next = next
      /\ call'[c].nonces = call[c].nonces /\ call'[c].req = r
      /\ call'[c].reclaim = call[c].reclaim
  BY <1>1, <1>2 DEF CallState
<1>6. \A a \in Accounts : base.bal[a] \in Nat /\ Head(todo).lines[a] \in Int
  BY <1>4 DEF ClubState, Draft
<1>7. \A a \in Accounts \ {r.who, r.to} : next.bal[a] = base.bal[a]
  BY <1>3, <1>6
<1>8. NoStacks(next)
  BY <1>1, <1>7, MemberAccounts DEF NoStacks
<1>9. Pays(c)'
  <2>1. next.stakes = club'.stakes
    BY <1>2, <1>3
  <2>2. NoStacks(call[c].next)'
    BY <1>5, <1>8 DEF NoStacks
  <2>3. Enough(c, call[c].next, call[c].todo)'
    BY <1>0, <1>5 DEF Enough
  <2> QED BY <1>5, <2>1, <2>2, <2>3 DEF Pays
<1>10. issued' = issued /\ club'.stakes = club.stakes
  BY <1>2
<1>11. CallCovers(c)'
  <2>1. r.op = "settle" /\ call[c].reclaim = {} /\ Names(c)
    BY DEF CallCovers, Ended
  <2>2. Names(c)'
    BY <1>5, <1>10, <2>1 DEF Names
  <2> QED BY <1>5, <1>9, <2>1, <2>2 DEF CallCovers
<1>12. StakesKnown(club.stakes)' /\ NoStacks(club)'
  BY <1>2, <1>10 DEF CoverInv, StakesKnown, NoStacks
<1>13. \A d \in Calls : CallCovers(d)'
  BY <1>1, <1>10, <1>11, CoverOthers
<1> QED BY <1>1, <1>5, <1>12, <1>13 DEF CoverInv

(* A tally that is done.                                                    *)
LEMMA PaidOff ==
    ASSUME TypeInv, CoverInv, Strict, NEW c, AtWork(c), Moves(c), NEW base \in ClubState,
           UNCHANGED <<conf, issued, crashes>>, call[c].req.op = "settle",
           club' = Finished(c, base), call'[c].pc \in Ended,
           base.stakes = club.stakes, NoStacks(base), Enough(c, base, << >>)
    PROVE  CoverInv'
<1> DEFINE r == call[c].req
           T == Finished(c, base).stakes
<1>1. /\ c \in Calls /\ call[c] \in CallState /\ r \in Request /\ issued \in Nat
      /\ r.who \in Members /\ r.to \in Members /\ StakesKnown(base.stakes)
      /\ club \in ClubState
  BY RequestFacts DEF AtWork, TypeInv, CoverInv
<1>2. /\ StakesKnown(T) /\ T \in SUBSET Stake
      /\ \A x \in T : \E y \in base.stakes : x.nonce = y.nonce /\ x.who = y.who
      /\ \A m : Live(T, m) = {x \in Live(base.stakes, m) : x.nonce \notin call[c].nonces}
  BY <1>1, FinishedCovers
<1>3. Finished(c, base).bal = base.bal
  BY <1>1, FinishedFacts
<1> HIDE DEF T
<1>10. PICK s \in club.stakes, o \in club.stakes :
              /\ s.fate = "open" /\ s.who = r.who /\ s.nonce \in call[c].nonces
              /\ o.fate = "open" /\ o.who = r.to /\ o.nonce \in call[c].nonces
              /\ Cost(club.stakes, r.who) <= base.bal[r.who] + s.amount
              /\ Cost(club.stakes, r.to) + 0 <= base.bal[r.to] + o.amount
  <2>1. \A n : << >> # <<Burn(r.to, n)>>
    OBVIOUS
  <2> QED BY <2>1 DEF Enough
<1>11. \A m \in Members \ {r.who, r.to} : Cost(club.stakes, m) <= base.bal[m]
  BY DEF Enough
<1>4. /\ \A m : Cost(T, m) \in Nat /\ Cost(T, m) <= Cost(base.stakes, m)
      /\ \A x \in base.stakes : x.fate = "open" /\ x.nonce \in call[c].nonces =>
            Cost(T, x.who) + x.amount <= Cost(base.stakes, x.who)
  BY <1>1, <1>2, CloseSaves
<1>5. /\ Cost(T, r.who) + s.amount <= Cost(club.stakes, r.who)
      /\ Cost(T, r.to) + o.amount <= Cost(club.stakes, r.to)
  BY <1>4, <1>10
<1>6. ASSUME NEW m \in Members PROVE Cost(T, m) <= base.bal[m]
  <2>1. /\ base.bal[m] \in Nat /\ Cost(T, m) \in Nat /\ Cost(club.stakes, m) \in Nat
        /\ s.amount \in Nat /\ o.amount \in Nat /\ Cost(T, m) <= Cost(club.stakes, m)
    BY <1>1, <1>4, MemberAccounts, LiveFacts DEF ClubState, StakesKnown, Stake
  <2>2. CASE m = r.who
    BY <1>5, <1>10, <2>1, <2>2
  <2>3. CASE m = r.to
    BY <1>5, <1>10, <2>1, <2>3
  <2>4. CASE m \notin {r.who, r.to}
    BY <1>11, <2>1, <2>4
  <2> QED BY <2>2, <2>3, <2>4
<1>7. club'.stakes = T /\ club'.bal = base.bal /\ issued' = issued
  BY <1>3 DEF T
<1>8. Covered(club)' /\ NoStacks(club)' /\ StakesKnown(club.stakes)'
  BY <1>2, <1>6, <1>7 DEF Covered, NoStacks, StakesKnown
<1>9. \A x \in club'.stakes : \E y \in club.stakes : x.nonce = y.nonce /\ x.who = y.who
  BY <1>2, <1>7
<1> QED BY <1>7, <1>8, <1>9, CoverEnds

(* Where chips are still, nothing is signed and every promise is kept.       *)
LEMMA CoveredNow ==
    ASSUME CoverInv, Strict, NEW c, AtWork(c), call[c].pc # "signing"
    PROVE  /\ Covered(club) /\ StakesKnown(club.stakes) /\ NoStacks(club) /\ CallCovers(c)
           /\ \A m \in Members : club.bal[m] \in Nat /\ Cost(club.stakes, m) \in Nat
<1>1. \A d \in Calls : call[d].pc # "signing"
  BY OnlyHeadSigns DEF Holding
<1>2. /\ Covered(club) /\ StakesKnown(club.stakes) /\ NoStacks(club) /\ CallCovers(c)
      /\ club \in ClubState
  BY <1>1 DEF CoverInv, AtWork, TypeInv
<1> QED BY <1>2, LiveFacts, MemberAccounts DEF ClubState, StakesKnown

(* A tally whose checks passed can be signed, and paid.                     *)
LEMMA SettleCovers ==
    ASSUME TypeInv, CoverInv, Strict, NEW c \in Calls, EnterSettle(c) PROVE CoverInv'
<1> DEFINE r    == call[c].req
           todo == Hand(r, r.who, r.to, r.rake)
<1>1. Enters(c, "settle")
  BY DEF EnterSettle
<1>2. /\ AtWork(c) /\ call[c] \in CallState /\ call[c].pc = "queued" /\ call[c].reclaim = {}
      /\ r.op = "settle" /\ issued' = issued /\ club \in ClubState
      /\ UNCHANGED <<conf, crashes>> /\ TypeInv'
  BY <1>1, EntersFacts, EnterSettleStep DEF frame
<1>3. /\ Covered(club) /\ StakesKnown(club.stakes) /\ NoStacks(club) /\ CallCovers(c) /\ Names(c)
      /\ \A m \in Members : club.bal[m] \in Nat /\ Cost(club.stakes, m) \in Nat
  BY <1>2, CoveredNow DEF CallCovers, Ended
<1>4. ASSUME Answer(c, "failed"), UNCHANGED club PROVE CoverInv'
  <2>1. "failed" \in Ended
    BY DEF Ended
  <2>2. Moves(c) /\ call'[c].pc \in Ended
    BY <1>2, <1>4, <2>1, AnswerTyped
  <2>3. StakesKnown(club.stakes)' /\ NoStacks(club)' /\ Covered(club)'
    BY <1>2, <1>3, <1>4 DEF StakesKnown, NoStacks, Covered
  <2>4. \A s \in club'.stakes : \E q \in club.stakes : s.nonce = q.nonce /\ s.who = q.who
    BY <1>4
  <2> QED BY <1>2, <2>2, <2>3, <2>4, CoverEnds
<1>5. CASE TallyOk(c) /\ Proceed(c, club, Hand(r, Account(r.table, r.who), Account(r.table, r.to),
                                               r.rake))
  <2>1. Proceed(c, club, todo)
    BY <1>5 DEF Account, Strict
  <2>2. /\ r \in Request /\ r.who \in Members /\ r.to \in Members /\ r.amount \in Nat
        /\ r.rake \in Nat /\ r.who \in Accounts /\ r.to \in Accounts
    BY <1>2, RequestFacts
  <2>3. PICK s \in club.stakes, o \in club.stakes :
           /\ r.who # r.to
           /\ s.fate = "open" /\ s.who = r.who /\ s.nonce \in call[c].nonces
           /\ o.fate = "open" /\ o.who = r.to /\ o.nonce \in call[c].nonces
           /\ r.amount <= s.amount /\ r.rake - r.amount <= o.amount
    BY <1>3, <1>5, TallyStakes
  <2>4. s.amount \in Nat /\ o.amount \in Nat
    BY <1>2 DEF ClubState, Stake
  <2>5. /\ Cost(club.stakes, r.who) <= club.bal[r.who] /\ Cost(club.stakes, r.to) <= club.bal[r.to]
        /\ club.bal[r.who] \in Nat /\ club.bal[r.to] \in Nat
        /\ Cost(club.stakes, r.who) \in Nat /\ Cost(club.stakes, r.to) \in Nat
        /\ \A m \in Members : Cost(club.stakes, m) <= club.bal[m]
    BY <1>3, <2>2 DEF Covered
  <2>6. todo \in Seq(Draft)
    <3>1. \A d \in Draft, e \in Draft : <<d>> \o <<e>> \in Seq(Draft)
      BY ConcatProperties
    <3>2. /\ Pay("result", r.who, r.to, r.amount) \in Draft /\ Burn(r.to, r.rake) \in Draft
      <4>1. "result" \in Kinds
        BY DEF Kinds
      <4> QED BY <2>2, <4>1, PayFacts, BurnFacts
    <3> DEFINE d == Pay("result", r.who, r.to, r.amount)
               e == Burn(r.to, r.rake)
    <3>3. d \in Draft /\ e \in Draft
      BY <3>2
    <3>4. todo = (IF r.amount > 0 THEN <<d>> ELSE << >>) \o (IF r.rake > 0 THEN <<e>> ELSE << >>)
      BY DEF Hand
    <3> HIDE DEF d, e, todo
    <3>5. (IF r.amount > 0 THEN <<d>> ELSE << >>) \in Seq(Draft)
      BY <3>3
    <3>6. (IF r.rake > 0 THEN <<e>> ELSE << >>) \in Seq(Draft)
      BY <3>3
    <3> QED BY <3>4, <3>5, <3>6, ConcatProperties
  <2>7. /\ todo = << >> => r.amount = 0 /\ r.rake = 0
        /\ todo # << >> =>
             \E n \in Nat :
                /\ (Tail(todo) = << >> /\ n = 0) \/ Tail(todo) = <<Burn(r.to, n)>>
                /\ \A a \in Accounts \ {r.who, r.to} : Head(todo).lines[a] = 0
                /\ Head(todo).lines[r.who] = - r.amount
                /\ Head(todo).lines[r.to] - n = r.amount - r.rake
    <3>1. r.rake \in Nat /\ r.who # r.to /\ r \in Request /\ r.who \in Accounts /\ r.to \in Accounts
      BY <2>2, <2>3
    <3>2. HandLines(todo, r.who, r.to, r.amount, r.rake)
      BY <3>1, HandCases
    <3> HIDE DEF todo
    <3> QED BY <3>2 DEF HandLines
  <2> HIDE DEF todo
  <2>8. Signs(c, club, todo) \/ Stops(c, club, todo)
    BY <1>2, <2>1, <2>6, ProceedTyped
  <2>9. CASE Signs(c, club, todo)
    <3>1. todo # << >>
      BY <2>9 DEF Signs
    <3>2. PICK n \in Nat :
                /\ (Tail(todo) = << >> /\ n = 0) \/ Tail(todo) = <<Burn(r.to, n)>>
                /\ \A a \in Accounts \ {r.who, r.to} : Head(todo).lines[a] = 0
                /\ Head(todo).lines[r.who] = - r.amount
                /\ Head(todo).lines[r.to] - n = r.amount - r.rake
      BY <2>7, <3>1
    <3>3. Head(todo).lines[r.to] \in Int
      <4>1. Head(todo) \in Draft
        BY <2>6, <3>1, HeadTailProperties
      <4> QED BY <2>2, <4>1 DEF Draft
    <3> DEFINE next == Entered(club, todo, c)
    <3>8. /\ next.stakes = club.stakes
          /\ \A a \in Accounts : next.bal[a] = club.bal[a] + Head(todo).lines[a]
      BY <1>2, <2>2, <2>6, <2>9, <3>1, EnteredFacts DEF Signs
    <3> HIDE DEF next
    <3>4. Cost(club.stakes, r.who) <= next.bal[r.who] + s.amount
      <4>1. next.bal[r.who] = club.bal[r.who] + (- r.amount)
        BY <2>2, <3>2, <3>8
      <4> QED BY <2>2, <2>3, <2>4, <2>5, <4>1
    <3>5. Cost(club.stakes, r.to) + n <= next.bal[r.to] + o.amount
      <4>1. Head(todo).lines[r.to] = r.amount - r.rake + n
        BY <2>2, <3>2, <3>3
      <4>2. r.amount + o.amount >= r.rake
        BY <2>2, <2>3, <2>4
      <4> QED BY <2>2, <2>4, <2>5, <3>8, <4>1, <4>2
    <3>6. call[c].pc \in {"queued", "signing"}
      BY <1>2
    <3>7. \A m \in Members \ {r.who, r.to} : Cost(club.stakes, m) <= next.bal[m]
      <4>1. \A m \in Members \ {r.who, r.to} : next.bal[m] = club.bal[m]
        BY <1>3, <3>2, <3>8, MemberAccounts
      <4> QED BY <2>5, <4>1
    <3>9. Enough(c, next, Tail(todo))
      BY <2>3, <3>2, <3>4, <3>5, <3>7, <3>8 DEF Enough
    <3> QED BY <1>2, <1>3, <2>3, <2>6, <2>9, <3>2, <3>6, <3>9, PaysOn DEF next
  <2>10. CASE Stops(c, club, todo) /\ todo # << >>
    <3>1. Moves(c) /\ call'[c].pc = "failed" /\ club' = club
      BY <1>2, <2>10 DEF Stops
    <3>2. StakesKnown(club.stakes)' /\ NoStacks(club)' /\ Covered(club)'
      BY <1>2, <1>3, <3>1 DEF StakesKnown, NoStacks, Covered
    <3>3. \A x \in club'.stakes : \E q \in club.stakes : x.nonce = q.nonce /\ x.who = q.who
      BY <3>1
    <3> QED BY <1>2, <3>1, <3>2, <3>3, CoverEnds DEF Ended
  <2>11. CASE Stops(c, club, todo) /\ todo = << >>
    <3>1. Moves(c) /\ call'[c].pc = "ok" /\ club' = Finished(c, club)
      BY <1>2, <2>11 DEF Stops
    <3>2. /\ Cost(club.stakes, r.who) <= club.bal[r.who] + s.amount
          /\ Cost(club.stakes, r.to) + 0 <= club.bal[r.to] + o.amount
      BY <2>4, <2>5
    <3>3. Enough(c, club, << >>)
      BY <2>3, <2>5, <3>2 DEF Enough
    <3> QED BY <1>2, <1>3, <3>1, <3>3, PaidOff DEF Ended
  <2> QED BY <2>8, <2>9, <2>10, <2>11
<1> QED BY <1>4, <1>5 DEF EnterSettle

(* Whatever a tally has to sign next can be signed.                         *)
LEMMA SignedCovers ==
    ASSUME TypeInv, SignInv, CoverInv, Strict, NEW c \in Calls, Signed(c) PROVE CoverInv'
<1> DEFINE r    == call[c].req
           base == call[c].next
           todo == call[c].todo
<1>1. /\ call[c].pc = "signing" /\ Proceed(c, base, todo) /\ issued' = issued
      /\ UNCHANGED <<conf, crashes>>
  BY DEF Signed, At, frame
<1>2. AtWork(c) /\ call[c] \in CallState /\ CallOK(call[c]) /\ club \in ClubState
  BY <1>1, AtWorkHere DEF TypeInv
<1>3. base \in ClubState /\ todo \in Seq(Draft)
  BY <1>1, <1>2 DEF CallOK, CallState
<1>4. /\ CallCovers(c) /\ Pays(c) /\ r.op = "settle" /\ call[c].reclaim = {}
      /\ StakesKnown(club.stakes)
  BY <1>1 DEF CoverInv, CallCovers, Pays, Ended
<1>5. /\ r.who # r.to /\ base.stakes = club.stakes /\ NoStacks(base)
      /\ \A m \in Members \ {r.who, r.to} : Cost(club.stakes, m) <= base.bal[m]
      /\ Enough(c, base, todo)
  BY <1>4 DEF Pays, Enough
<1>6. PICK s \in club.stakes, o \in club.stakes, n \in Nat :
              /\ s.fate = "open" /\ s.who = r.who /\ s.nonce \in call[c].nonces
              /\ o.fate = "open" /\ o.who = r.to /\ o.nonce \in call[c].nonces
              /\ (todo = << >> /\ n = 0) \/ todo = <<Burn(r.to, n)>>
              /\ Cost(club.stakes, r.who) <= base.bal[r.who] + s.amount
              /\ Cost(club.stakes, r.to) + n <= base.bal[r.to] + o.amount
  BY <1>4 DEF Pays, Enough
<1>7. /\ r.who \in Members /\ r.to \in Members /\ r.who \in Accounts /\ r.to \in Accounts
  BY <1>2, RequestFacts
<1>8. /\ o \in Stake /\ o \in Live(club.stakes, r.to) /\ o.amount \in Nat
      /\ o.amount <= Cost(club.stakes, r.to)
      /\ Cost(club.stakes, r.to) \in Nat /\ base.bal[r.to] \in Nat
      /\ s.amount \in Nat /\ base.bal[r.who] \in Nat /\ Cost(club.stakes, r.who) \in Nat
  <2>1. o \in Stake /\ s \in Stake /\ o \in Live(club.stakes, r.to)
    BY <1>2, <1>6 DEF ClubState, Live
  <2>2. club.stakes \in SUBSET Stake /\ IsFiniteSet(club.stakes)
    BY <1>2, <1>4 DEF ClubState, StakesKnown
  <2> QED BY <1>3, <1>7, <2>1, <2>2, LiveFacts DEF ClubState, Stake
<1>9. Signs(c, base, todo) \/ Stops(c, base, todo)
  BY <1>1, <1>2, <1>3, ProceedTyped
<1>10. CASE todo = << >>
  <2>1. Moves(c) /\ call'[c].pc = "ok" /\ club' = Finished(c, base)
    BY <1>4, <1>9, <1>10 DEF Signs, Stops
  <2>2. Enough(c, base, << >>)
    BY <1>5, <1>10
  <2> HIDE DEF base
  <2> QED BY <1>1, <1>2, <1>3, <1>4, <1>5, <2>1, <2>2, PaidOff DEF Ended
<1>11. CASE todo # << >>
  <2> DEFINE b == Burn(r.to, n)
  <2>1. todo = <<b>>
    BY <1>6, <1>11
  <2>2. /\ \A a \in Accounts \ {r.who, r.to} : b.lines[a] = 0
        /\ b.lines[r.who] = 0 /\ b.lines[r.to] = - n
    BY <1>5, <1>7, BurnFacts
  <2>3. base.bal[r.to] >= n
    BY <1>6, <1>8
  <2>4. base.banned = {}
    BY <1>1 DEF SignInv, SignOK, Strict
  <2>5. Valid(b, base)
    BY <1>3, <1>7, <2>3, <2>4, BurnValid
  <2> HIDE DEF b
  <2>6. Head(todo) = b /\ Tail(todo) = << >>
    BY <2>1
  <2>7. Signs(c, base, todo)
    BY <1>9, <1>11, <2>5, <2>6 DEF Stops
  <2> DEFINE next == Entered(base, todo, c)
  <2>8. /\ next.stakes = club.stakes
        /\ \A a \in Accounts : next.bal[a] = base.bal[a] + Head(todo).lines[a]
    <3>1. r \in Request
      BY <1>2, RequestFacts
    <3> QED BY <1>2, <1>3, <1>5, <1>11, <2>5, <2>6, <3>1, EnteredFacts
  <2> HIDE DEF next
  <2>9. \A a \in Accounts \ {r.who, r.to} : Head(todo).lines[a] = 0
    BY <2>2, <2>6
  <2>10. /\ \A m \in Members \ {r.who, r.to} : next.bal[m] = base.bal[m]
         /\ next.bal[r.who] = base.bal[r.who] /\ next.bal[r.to] = base.bal[r.to] - n
    <3>1. \A a \in Accounts : base.bal[a] \in Nat
      BY <1>3 DEF ClubState
    <3>2. \A a \in Accounts \ {r.who, r.to} : next.bal[a] = base.bal[a]
      BY <2>8, <2>9, <3>1
    <3>3. Head(todo).lines[r.who] = 0 /\ Head(todo).lines[r.to] = - n
      BY <2>2, <2>6
    <3>4. next.bal[r.who] = base.bal[r.who]
      BY <1>7, <2>8, <3>1, <3>3
    <3>5. next.bal[r.to] = base.bal[r.to] - n
      BY <1>7, <2>8, <3>1, <3>3
    <3>6. \A m \in Members \ {r.who, r.to} : next.bal[m] = base.bal[m]
      BY <3>2, MemberAccounts
    <3> QED BY <3>4, <3>5, <3>6
  <2>11. /\ Cost(club.stakes, r.who) <= next.bal[r.who] + s.amount
         /\ Cost(club.stakes, r.to) + 0 <= next.bal[r.to] + o.amount
         /\ \A m \in Members \ {r.who, r.to} : Cost(club.stakes, m) <= next.bal[m]
    BY <1>5, <1>6, <1>8, <2>10
  <2>12. Enough(c, next, Tail(todo))
    BY <1>6, <2>6, <2>8, <2>11 DEF Enough
  <2>13. call[c].pc \in {"queued", "signing"} /\ r.op = "settle"
    BY <1>1, <1>4
  <2> QED BY <1>1, <1>2, <1>3, <1>4, <1>5, <2>7, <2>9, <2>12, <2>13, PaysOn DEF next
<1> QED BY <1>10, <1>11

(* Leaving only closes stakes: on a deferred club no stack is cashed out.    *)
LEMMA LeaveCovers ==
    ASSUME TypeInv, CoverInv, Strict, NEW c \in Calls, EnterLeave(c) PROVE CoverInv'
<1> DEFINE r    == call[c].req
           mine == {s.nonce : s \in {x \in Stakes(r.who, r.table) : x.nonce \notin late}}
           base == Close(club, mine, "left")
<1>1. Enters(c, "leave") /\ Proceed(c, base, CashOut(base, r.table, r.who))
  BY DEF EnterLeave
<1>2. /\ AtWork(c) /\ call[c] \in CallState /\ call[c].pc = "queued" /\ call[c].reclaim = {}
      /\ r.op = "leave" /\ issued' = issued /\ club \in ClubState /\ r \in Request
      /\ r.who \in Members /\ r.table \in Tables
  BY <1>1, EntersFacts, RequestFacts
<1>3. Covered(club) /\ StakesKnown(club.stakes) /\ NoStacks(club) /\ issued \in Nat
  BY <1>2, CoveredNow DEF TypeInv
<1>4. "left" \in Fates /\ "left" # "open" /\ "ok" \in Ended
  BY DEF Fates, Ended
<1>5. base \in ClubState /\ base.bal = club.bal
  BY <1>2, <1>4, CloseFacts
<1> DEFINE T == base.stakes
<1>6. /\ StakesKnown(T) /\ T \in SUBSET Stake
      /\ \A s \in T : \E q \in club.stakes : s.nonce = q.nonce /\ s.who = q.who
      /\ \A m : Live(T, m) = {s \in Live(club.stakes, m) : s.nonce \notin mine}
  <2>1. T = Close(club, mine, "left").stakes
    OBVIOUS
  <2> HIDE DEF T, base, mine
  <2> QED BY <1>2, <1>3, <1>4, <2>1, CloseCovers
<1> HIDE DEF mine
<1>7. \A m : Cost(T, m) \in Nat /\ Cost(T, m) <= Cost(club.stakes, m)
  <2> HIDE DEF T
  <2> QED BY <1>2, <1>3, <1>6, CloseSaves
<1>8. CashOut(base, r.table, r.who) = << >>
  BY <1>2, <1>3, <1>5 DEF CashOut, Stack, NoStacks
<1> HIDE DEF base
<1>9. Stops(c, base, << >>)
  <2>1. << >> \in Seq(Draft)
    OBVIOUS
  <2> QED BY <1>1, <1>2, <1>5, <1>8, <2>1, ProceedTyped DEF Signs
<1>10. Moves(c) /\ club' = Finished(c, base) /\ call'[c].pc \in Ended
  BY <1>2, <1>4, <1>9 DEF Stops
<1>11. club'.bal = club.bal /\ club'.stakes = T
  BY <1>2, <1>5, <1>10, FinishedFacts
<1>12. Covered(club)'
  <2>1. ASSUME NEW m \in Members PROVE Cost(T, m) <= club.bal[m]
    <3>1. Cost(T, m) \in Nat /\ Cost(T, m) <= Cost(club.stakes, m)
      BY <1>7
    <3>2. Cost(club.stakes, m) <= club.bal[m] /\ club.bal[m] \in Nat /\ Cost(club.stakes, m) \in Nat
      BY <1>2, <1>3, CoveredNow DEF Covered
    <3> QED BY <3>1, <3>2
  <2> QED BY <1>11, <2>1 DEF Covered
<1>13. StakesKnown(club.stakes)' /\ NoStacks(club)'
  BY <1>2, <1>3, <1>6, <1>11 DEF StakesKnown, NoStacks
<1>14. \A s \in club'.stakes : \E q \in club.stakes : s.nonce = q.nonce /\ s.who = q.who
  BY <1>6, <1>11
<1> QED BY <1>2, <1>10, <1>12, <1>13, <1>14, CoverEnds

(* A call that is answered without having changed the books.                *)
LEMMA AnsweredCovers ==
    ASSUME TypeInv, CoverInv, Strict, NEW c, AtWork(c), call[c].pc # "signing", Moves(c),
           call'[c].pc \in Ended, UNCHANGED <<club, issued>>
    PROVE  CoverInv'
<1>1. Covered(club) /\ StakesKnown(club.stakes) /\ NoStacks(club)
  BY CoveredNow
<1>2. StakesKnown(club.stakes)' /\ NoStacks(club)' /\ Covered(club)'
  BY <1>1 DEF StakesKnown, NoStacks, Covered
<1> QED BY <1>2, CoverEnds

(* A member is seated who has the chips for the stake, and the others.       *)
LEMMA SitCovers ==
    ASSUME TypeInv, CoverInv, Strict, NEW c \in Calls, EnterSit(c) PROVE CoverInv'
<1> DEFINE r == call[c].req
<1>1. Enters(c, "sit") /\ UNCHANGED club
  BY DEF EnterSit
<1>2. /\ AtWork(c) /\ call[c] \in CallState /\ call[c].pc = "queued" /\ call[c].reclaim = {}
      /\ r.op = "sit" /\ issued' = issued /\ club \in ClubState /\ r \in Request
      /\ r.who \in Members /\ r.amount \in Nat
  BY <1>1, EntersFacts, RequestFacts
<1>3. CASE Answer(c, "failed")
  <2>1. "failed" \in Ended
    BY DEF Ended
  <2>2. Moves(c) /\ call'[c].pc \in Ended
    BY <1>2, <1>3, <2>1, AnswerTyped
  <2> QED BY <1>1, <1>2, <2>2, AnsweredCovers
<1>4. CASE Goes(c, "seating") /\ UNCHANGED line /\ ~(Available(club, r.who) < r.amount)
  <2>1. Moves(c) /\ call'[c] = [call[c] EXCEPT !.pc = "seating"]
    BY <1>2, <1>4, GoesTyped
  <2>2. /\ call'[c].pc = "seating" /\ call'[c].req = r /\ call'[c].reclaim = {}
    BY <1>2, <2>1 DEF CallState
  <2>3. late = {}
    BY DEF TypeInv, Strict
  <2>4. Available(club, r.who) = club.bal[r.who] - Cost(club.stakes, r.who)
    BY <2>3, EncumberedIs DEF Available, Strict
  <2>5. club.bal[r.who] \in Nat /\ Cost(club.stakes, r.who) \in Nat
    BY <1>2, CoveredNow
  <2>6. Cost(club.stakes, r.who) + r.amount <= club.bal[r.who]
    BY <1>2, <1>4, <2>4, <2>5
  <2>7. CallCovers(c)'
    BY <1>1, <1>2, <2>2, <2>6 DEF CallCovers
  <2>8. \A d \in Calls : call'[d] = call[d] \/ (call[d].pc # "signing" /\ CallCovers(d)')
    BY <1>2, <2>1, <2>7 DEF Moves
  <2> QED BY <1>1, <1>2, <2>8, CoverCalls
<1> QED BY <1>3, <1>4 DEF EnterSit

(* Seated: on a deferred club no buy-in is signed.                          *)
LEMMA SeatedCovers ==
    ASSUME TypeInv, CoverInv, Strict, NEW c \in Calls, Seated(c) PROVE CoverInv'
<1> DEFINE r == call[c].req
<1>1. call[c].pc = "seating" /\ Proceed(c, club, << >>) /\ issued' = issued
  BY DEF Seated, At, Strict
<1>2. AtWork(c) /\ call[c] \in CallState /\ CallOK(call[c]) /\ club \in ClubState
  BY <1>1, AtWorkHere DEF TypeInv
<1>3. r.op = "sit" /\ call[c].reclaim = {}
  BY <1>1, <1>2 DEF CallOK
<1>4. CallCovers(c)
  BY <1>2 DEF CoverInv
<1>5. Stops(c, club, << >>)
  <2>1. << >> \in Seq(Draft)
    OBVIOUS
  <2> QED BY <1>1, <1>2, <2>1, ProceedTyped DEF Signs
<1>6. Moves(c) /\ club' = club /\ call'[c] = [call[c] EXCEPT !.pc = "staking"]
  BY <1>3, <1>5 DEF Stops
<1>7. call'[c].pc = "staking" /\ call'[c].req = r /\ call'[c].reclaim = {}
  BY <1>2, <1>3, <1>6 DEF CallState
<1>8. Cost(club.stakes, r.who) + r.amount <= club.bal[r.who]
  BY <1>1, <1>4 DEF CallCovers, Ended
<1>9. CallCovers(c)'
  BY <1>3, <1>6, <1>7, <1>8 DEF CallCovers
<1>10. \A d \in Calls : call'[d] = call[d] \/ (call[d].pc # "signing" /\ CallCovers(d)')
  BY <1>1, <1>6, <1>9 DEF Moves
<1> QED BY <1>1, <1>6, <1>10, CoverCalls

(* The stake itself.                                                        *)
LEMMA StakedCovers ==
    ASSUME TypeInv, CoverInv, Strict, NEW c, TakesStake(c) PROVE CoverInv'
<1> DEFINE r == call[c].req
           x == NewStake(c)
           S == club.stakes
<1>1. /\ AtWork(c) /\ Moves(c) /\ call[c].pc = "staking" /\ call'[c].pc \in Ended
      /\ issued' = issued + 1
  BY DEF TakesStake, Ended
<1>2. /\ club'.bal = club.bal /\ club'.stakes = S \cup {x} /\ x.nonce = issued + 1
      /\ x.who = r.who /\ x.amount = r.amount /\ x.fate = "open"
  BY TakesStakeFacts DEF NewStake
<1>3. /\ Covered(club) /\ StakesKnown(S) /\ NoStacks(club) /\ CallCovers(c)
      /\ \A m \in Members : club.bal[m] \in Nat /\ Cost(S, m) \in Nat
      /\ issued \in Nat /\ club \in ClubState
  BY <1>1, CoveredNow DEF TypeInv
<1>4. r.who \in Members /\ r.amount \in Nat
  BY <1>1, RequestFacts
<1> HIDE DEF x
<1>5. \A s \in S : s \in Stake /\ s.nonce \in Nat /\ s.nonce <= issued
  BY <1>3 DEF ClubState, Stake, StakesKnown
<1>6. StakesKnown(club.stakes)'
  <2>1. IsFiniteSet(S \cup {x})
    BY <1>3, FS_AddElement DEF StakesKnown
  <2>2. \A q, s \in S \cup {x} : q.nonce = s.nonce => q = s
    BY <1>2, <1>3, <1>5 DEF StakesKnown
  <2>3. \A s \in S \cup {x} : s.nonce <= issued + 1
    BY <1>2, <1>3, <1>5
  <2> QED BY <1>1, <1>2, <2>1, <2>2, <2>3 DEF StakesKnown
<1>7. Cost(S, r.who) + r.amount <= club.bal[r.who]
  BY <1>1, <1>3 DEF CallCovers, Ended
<1>8. ASSUME NEW m \in Members PROVE Cost(S \cup {x}, m) <= club.bal[m]
  <2>1. CASE m # r.who
    <3>1. Live(S \cup {x}, m) = Live(S, m)
      BY <1>2, <2>1 DEF Live
    <3> QED BY <1>3, <3>1 DEF Cost, Covered
  <2>2. CASE m = r.who
    <3>1. Live(S \cup {x}, m) = Live(S, m) \cup {x}
      BY <1>2, <2>2 DEF Live
    <3>2. x \notin Live(S, m)
      BY <1>2, <1>3, <1>5 DEF Live
    <3>3. Amounted(Live(S, m))
      BY <1>3, LiveFacts DEF ClubState, StakesKnown
    <3>4. Amounts(Live(S, m) \cup {x}) = x.amount + Amounts(Live(S, m))
      <4> DEFINE L == Live(S, m)
      <4>1. x \notin L /\ Amounted(L) /\ x.amount \in Nat
        BY <1>2, <1>4, <3>2, <3>3
      <4> HIDE DEF L
      <4>2. Amounts(L \cup {x}) = x.amount + Amounts(L)
        BY <4>1, AmountsAdd
      <4> QED BY <4>2 DEF L
    <3>5. Cost(S, m) \in Nat
      BY <1>3
    <3>6. Cost(S \cup {x}, m) = r.amount + Cost(S, m)
      BY <1>2, <3>1, <3>4 DEF Cost
    <3>7. Cost(S, m) + r.amount <= club.bal[m]
      BY <1>7, <2>2
    <3> QED BY <1>4, <3>5, <3>6, <3>7
  <2> QED BY <2>1, <2>2
<1>9. Covered(club)' /\ NoStacks(club)'
  BY <1>2, <1>3, <1>8 DEF Covered, NoStacks
<1>10. \A s \in club'.stakes : \/ s.nonce = issued + 1
                               \/ \E q \in club.stakes : s.nonce = q.nonce /\ s.who = q.who
  BY <1>2
<1> QED BY <1>1, <1>6, <1>9, <1>10, CoverEnds

(* Standing up, and calls that come in.                                     *)
LEMMA StandsCovers ==
    ASSUME TypeInv, CoverInv, Strict, NEW c \in Calls, StoodUp(c) PROVE CoverInv'
<1>1. /\ call[c].pc = "standing" /\ call' = [call EXCEPT ![c].pc = "queued"]
      /\ UNCHANGED <<club, issued>> /\ call \in [Calls -> CallState] /\ CallOK(call[c])
  BY DEF StoodUp, At, Goes, TypeInv
<1>2. CallCovers(c) /\ call[c].req.op = "leave"
  BY <1>1 DEF CoverInv, CallOK
<1>3. /\ call'[c].pc = "queued" /\ call'[c].req = call[c].req
      /\ call'[c].reclaim = call[c].reclaim
      /\ \A d \in Calls : d # c => call'[d] = call[d]
  BY <1>1 DEF CallState
<1>4. CallCovers(c)'
  BY <1>1, <1>2, <1>3 DEF CallCovers, Ended
<1>5. \A d \in Calls : call'[d] = call[d] \/ (call[d].pc # "signing" /\ CallCovers(d)')
  BY <1>1, <1>3, <1>4
<1> QED BY <1>1, <1>5, CoverCalls

(* A tally that comes in names stakes as its table was given them.          *)
LEMMA ComesCovers ==
    ASSUME TypeInv, CoverInv, Strict, NEW c \in Calls, New(c), NEW r \in Requests,
           NEW nonces, NEW pc \in PCs \ {"signing", "seating", "staking"}, Made(c, r, nonces, pc),
           call[c].reclaim = {},
           pc \notin Ended => r.op \in {"sit", "leave", "settle"},
           r.op = "settle" /\ pc \notin Ended => \E i, j \in Nat :
               /\ nonces = {i, j} /\ i <= issued /\ j <= issued
               /\ \A s \in club.stakes : /\ s.nonce = i => s.who = r.who
                                         /\ s.nonce = j => s.who = r.to,
           UNCHANGED <<club, issued>>
    PROVE  CoverInv'
<1>1. /\ call \in [Calls -> CallState] /\ call[c].pc = "new"
      /\ call' = [call EXCEPT ![c] = [@ EXCEPT !.pc = pc, !.req = r, !.nonces = nonces]]
  BY DEF TypeInv, New, At, Made
<1>2. /\ call'[c].pc = pc /\ call'[c].req = r /\ call'[c].nonces = nonces
      /\ call'[c].reclaim = {} /\ \A d \in Calls : d # c => call'[d] = call[d]
  BY <1>1 DEF CallState
<1>3. ASSUME pc \notin Ended, r.op = "settle" PROVE Names(c)'
  <2>1. PICK i \in Nat, j \in Nat :
               /\ nonces = {i, j} /\ i <= issued /\ j <= issued
               /\ \A s \in club.stakes : /\ s.nonce = i => s.who = r.who
                                         /\ s.nonce = j => s.who = r.to
    BY <1>3
  <2> QED BY <1>2, <2>1 DEF Names
<1>4. CallCovers(c)'
  BY <1>2, <1>3 DEF CallCovers
<1>5. \A d \in Calls : call'[d] = call[d] \/ (call[d].pc # "signing" /\ CallCovers(d)')
  BY <1>1, <1>2, <1>4
<1> QED BY <1>5, CoverCalls

(* Calls that come in.                                                      *)
LEMMA NewCovers ==
    ASSUME TypeInv, CoverInv, Strict, NEW c \in Calls, NEW r \in Requests,
           Direct(c, r) \/ Arriving(c, r) \/ Leaving(c, r) \/ Inviting(c, r)
    PROVE  CoverInv'
<1>0. call[c].pc = "new" => call[c].reclaim = {}
  BY DEF TypeInv, CallOK
<1>1. r \in Request /\ issued \in Nat /\ club \in ClubState /\ late = {}
  BY RequestsAssumption DEF TypeInv, Strict
<1>2. CASE Direct(c, r)
  <2>1. /\ New(c) /\ r.op = "settle" /\ UNCHANGED <<club, issued>>
    BY <1>2 DEF Direct, Strict
  <2> DEFINE N == {{s.nonce, o.nonce} : s \in Stakes(r.who, r.table),
                                        o \in Stakes(r.to, r.table)}
  <2>2. PICK nonces \in N : Made(c, r, nonces, "queued")
    <3>1. \E nonces \in IF r.op # "settle" THEN {{}} ELSE N : Made(c, r, nonces, "queued")
      BY <1>2 DEF Direct
    <3> HIDE DEF N
    <3> QED BY <2>1, <3>1
  <2>3. PICK s \in Stakes(r.who, r.table), o \in Stakes(r.to, r.table) :
               nonces = {s.nonce, o.nonce}
    BY <2>2
  <2>9. s \in club.stakes /\ o \in club.stakes /\ s.who = r.who /\ o.who = r.to
    BY DEF Stakes
  <2>4. s.nonce \in Nat /\ o.nonce \in Nat
    BY <1>1, <2>9 DEF ClubState, Stake
  <2>5. StakesKnown(club.stakes)
    BY DEF CoverInv
  <2>6. /\ s.nonce <= issued /\ o.nonce <= issued
        /\ \A x \in club.stakes : /\ x.nonce = s.nonce => x.who = r.who
                                  /\ x.nonce = o.nonce => x.who = r.to
    BY <2>9, <2>5 DEF StakesKnown
  <2>7. \E i, j \in Nat :
               /\ nonces = {i, j} /\ i <= issued /\ j <= issued
               /\ \A x \in club.stakes : /\ x.nonce = i => x.who = r.who
                                         /\ x.nonce = j => x.who = r.to
    BY <2>3, <2>4, <2>6
  <2>8. "queued" \in PCs \ {"signing", "seating", "staking"} /\ call[c].reclaim = {}
    BY <1>0, <2>1 DEF PCs, New, At
  <2> QED BY <2>1, <2>2, <2>7, <2>8, ComesCovers
<1>3. CASE Arriving(c, r)
  <2>1. /\ New(c) /\ r.op \in {"sit", "lobby"} /\ UNCHANGED <<club, issued>>
        /\ Made(c, r, {}, IF r.op = "sit" THEN "queued" ELSE "ok")
    BY <1>1, <1>3 DEF Arriving
  <2>2. call[c].reclaim = {} /\ {"queued", "ok"} \subseteq PCs \ {"signing", "seating", "staking"}
    BY <1>0, <2>1 DEF PCs, New, At
  <2>3. CASE r.op = "sit"
    BY <2>1, <2>2, <2>3, ComesCovers
  <2>4. CASE r.op = "lobby"
    BY <2>1, <2>2, <2>4, ComesCovers DEF Ended
  <2> QED BY <2>1, <2>3, <2>4
<1>4. CASE Leaving(c, r)
  <2>1. PICK pc \in {"ok", "standing", "failed"} :
          New(c) /\ r.op = "leave" /\ UNCHANGED <<club, issued>> /\ Made(c, r, {}, pc)
    BY <1>4 DEF Leaving
  <2>2. pc \in PCs \ {"signing", "seating", "staking"} /\ call[c].reclaim = {}
    BY <1>0, <2>1 DEF PCs, New, At
  <2> QED BY <2>1, <2>2, ComesCovers
<1>5. ~Inviting(c, r)
  BY DEF Inviting, Strict
<1> QED BY <1>2, <1>3, <1>4, <1>5

(* Steps that no such club takes.                                           *)
LEMMA NotStrict ==
    ASSUME TypeInv, SignInv, CoverInv, Strict, NEW c \in Calls
    PROVE  /\ ~EnterReclaim(c) /\ ~EnterResult(c) /\ ~EnterTransfer(c) /\ ~EnterGrant(c)
           /\ ~Reclaimed(c) /\ ~Invited(c)
<1>1. CallCovers(c) /\ CallOK(call[c])
  BY DEF CoverInv, TypeInv
<1>2. ~EnterReclaim(c) /\ ~EnterResult(c) /\ ~EnterTransfer(c) /\ ~EnterGrant(c)
  BY <1>1 DEF EnterReclaim, EnterResult, EnterTransfer, EnterGrant, Enters, Ready, At,
              CallCovers, Ended
<1>3. ~Reclaimed(c) /\ ~Invited(c)
  BY <1>1 DEF Reclaimed, Invited, At, CallCovers, Ended, CallOK, SignInv, Strict
<1> QED BY <1>2, <1>3

(* What holds of the mode holds of it before.                               *)
LEMMA StrictBefore ==
    ASSUME TypeInv, Next PROVE Strict' => Strict /\ ~Crash
<1>1. conf' = conf /\ (crashes' = 0 => crashes = 0 /\ ~Dies)
  BY Steps, Lives
<1>2. Crash => Dies
  BY CrashStep
<1> QED BY <1>1, <1>2 DEF Strict, Deferred

(* Every step keeps the promises.                                           *)
LEMMA CoverKept ==
    ASSUME TypeInv, SignInv, CoverInv, Next PROVE CoverInv'
<1>1. CASE ~Strict'
  BY <1>1 DEF CoverInv
<1>2. CASE Strict'
  <2>1. Strict /\ ~Crash
    BY <1>2, StrictBefore
  <2>2. ASSUME NEW c \in Calls, Enter(c) PROVE CoverInv'
    <3>1. ASSUME Replayed(c) PROVE CoverInv'
      <4>1. Leaves(c) /\ call[c].pc = "queued"
        BY <3>1, ReplayedStep DEF Replayed, Ready, At
      <4>2. call'[c].pc \in Ended
        BY <4>1 DEF Leaves, Ended
      <4> QED BY <2>1, <4>1, <4>2, AnsweredCovers DEF Leaves
    <3> QED BY <2>1, <2>2, <3>1, NotStrict, SitCovers, LeaveCovers, SettleCovers DEF Enter
  <2>3. ASSUME NEW c \in Calls, Resume(c) PROVE CoverInv'
    <3>1. ASSUME NotSeated(c) PROVE CoverInv'
      <4>1. Leaves(c) /\ call[c].pc # "signing"
        BY <3>1, NotSeatedStep DEF NotSeated, At
      <4>2. call'[c].pc \in Ended
        BY <4>1 DEF Leaves, Ended
      <4> QED BY <2>1, <4>1, <4>2, AnsweredCovers DEF Leaves
    <3>2. ASSUME Staked(c) PROVE CoverInv'
      BY <2>1, <3>2, StakedStep, StakedCovers
    <3> QED BY <2>1, <2>3, <3>1, <3>2, NotStrict, SignedCovers, SeatedCovers, StandsCovers
            DEF Resume
  <2>4. ASSUME NEW c \in Calls, NEW r \in Requests,
               Direct(c, r) \/ Arriving(c, r) \/ Leaving(c, r) \/ Inviting(c, r)
        PROVE  CoverInv'
    BY <2>1, <2>4, NewCovers
  <2>5. /\ \A m \in Members : ~Ban(m) /\ ~Approve(m)
        /\ \A n \in 1 .. issued : ~Expire(n) /\ ~Age(n)
    BY <2>1 DEF Ban, Approve, Expire, Age, Ticks, Strict
  <2> QED BY <2>1, <2>2, <2>3, <2>4, <2>5 DEF Next
<1> QED BY <1>1, <1>2
(* What an opened club has promised it can keep.                            *)
LEMMA OpenedCovers ==
    ASSUME conf \in Confs, conf.sat, Deferred, issued = Cardinality(Members \X Tables)
    PROVE  /\ StakesKnown(OpenedStakes)
           /\ \A m \in Members : Cost(OpenedStakes, m) <= Opening
<1> DEFINE seats == Members \X Tables
           n     == Cardinality(seats)
           nonce == CHOOSE f \in [seats -> 1 .. n] : \A p, q \in seats : f[p] = f[q] => p = q
           stake(p) == [nonce |-> nonce[p], who |-> p[1], table |-> p[2],
                        amount |-> Staked0, id |-> 0, fate |-> "open"]
           S     == OpenedStakes
<1>1. IsFiniteSet(seats) /\ n \in Nat
  BY SeatsNumbered
<1>2. S = {stake(p) : p \in seats}
  BY DEF OpenedStakes
<1>3. nonce \in [seats -> 1 .. n] /\ \A p, q \in seats : nonce[p] = nonce[q] => p = q
  <2>1. \E f \in [seats -> 1 .. n] : \A p, q \in seats : f[p] = f[q] => p = q
    BY SeatsNumbered
  <2> HIDE DEF seats, n
  <2> QED BY <2>1
<1> HIDE DEF nonce
<1>4. ASSUME NEW p \in seats
      PROVE  /\ stake(p).nonce = nonce[p] /\ stake(p).nonce \in Nat /\ stake(p).nonce <= n
             /\ stake(p).who = p[1] /\ stake(p).table = p[2] /\ stake(p).amount = Staked0
             /\ p[1] \in Members /\ p[2] \in Tables /\ p = <<p[1], p[2]>>
  <2>1. nonce[p] \in 1 .. n
    BY <1>3
  <2>2. stake(p).nonce = nonce[p]
    OBVIOUS
  <2>3. p[1] \in Members /\ p[2] \in Tables /\ p = <<p[1], p[2]>>
    OBVIOUS
  <2> QED BY <1>1, <2>1, <2>2, <2>3
<1> HIDE DEF stake
<1>5. IsFiniteSet(S)
  <2> DEFINE g == [p \in seats |-> stake(p)]
  <2>1. g \in Surjection(seats, S)
    <3>1. g \in [seats -> S] /\ \A t \in S : \E p \in seats : g[p] = t
      BY <1>2
    <3> HIDE DEF g, S, seats
    <3> QED BY <3>1 DEF Surjection
  <2> HIDE DEF g, S, seats
  <2> QED BY <1>1, <2>1, FS_Surjection
<1> HIDE DEF seats, S
<1>6. StakesKnown(S)
  <2>1. \A r, s \in S : r.nonce = s.nonce => r = s
    BY <1>2, <1>3, <1>4
  <2>2. \A s \in S : s.nonce <= issued
    BY <1>2, <1>4 DEF seats
  <2> QED BY <1>5, <2>1, <2>2 DEF StakesKnown
<1>7. ASSUME NEW m \in Members PROVE Cost(S, m) <= Opening
  <2> DEFINE L == Live(S, m)
  <2>1. L \in SUBSET S /\ \A s \in L : s.who = m
    BY DEF Live
  <2>2. Staked0 \in Nat /\ Opening \in Nat
    BY AmountsAssumption
  <2>3. \A s \in L : s.amount = Staked0 /\ s.table \in Tables
    BY <1>2, <1>4, <2>1
  <2>4. IsFiniteSet(L)
    BY <1>5, <2>1, FS_Subset
  <2>5. Cardinality(L) \in Nat /\ Cardinality(L) <= Cardinality(Tables) /\ Cardinality(Tables) \in Nat
    <3> DEFINE h == [s \in L |-> s.table]
    <3>1. h \in [L -> Tables] /\ \A s \in L : h[s] = s.table
      BY <2>3
    <3>2. \A r, s \in L : r.table = s.table => r = s
      BY <1>2, <1>4, <2>1
    <3>3. \A r, s \in L : h[r] = h[s] => r = s
      BY <3>1, <3>2
    <3> HIDE DEF h, L
    <3>4. h \in Injection(L, Tables)
      BY <3>1, <3>3 DEF Injection, IsInjective
    <3> QED BY <2>4, <3>4, FiniteAssumption, FS_Injection, FS_CardinalityType
  <2> HIDE DEF L
  <2>6. Amounted(L)
    BY <2>2, <2>3, <2>4 DEF Amounted
  <2>7. Amounts(L) <= Staked0 * Cardinality(L) /\ Amounts(L) \in Nat
    BY <2>2, <2>3, <2>6, AmountsBound, AmountsNat
  <2>8. Staked0 * Cardinality(Tables) <= Opening
    BY OpeningAssumption DEF Deferred
  <2>9. Staked0 * Cardinality(L) <= Staked0 * Cardinality(Tables)
    BY <2>2, <2>5
  <2>10. Staked0 * Cardinality(L) \in Nat /\ Staked0 * Cardinality(Tables) \in Nat
    BY <2>2, <2>5
  <2>11. Amounts(L) <= Opening
    BY <2>2, <2>7, <2>8, <2>9, <2>10
  <2> QED BY <2>11 DEF Cost, L
<1> QED BY <1>6, <1>7 DEF S

(* And so does an opened club.                                              *)
LEMMA InitCovers ==
    ASSUME Init PROVE CoverInv
<1>1. /\ conf \in Confs /\ club.stakes = OpenedStakes /\ club.bal = OpenedBal
      /\ issued = IF conf.sat THEN Cardinality(Members \X Tables) ELSE 0
  BY DEF Init
<1>2. SUFFICES ASSUME Strict PROVE StakesKnown(club.stakes) /\ NoStacks(club) /\ Covered(club)
  BY InitSigned DEF CoverInv, CallCovers, Ended
<1>3. NoStacks(club)
  <2>1. ASSUME NEW t \in Tables, NEW m \in Members PROVE OpenedBal[<<t, m>>] = 0
    <3>1. <<t, m>> \in Accounts /\ <<t, m>> \notin Members /\ <<t, m>> # House
      BY MemberAccounts, AccountsAssumption
    <3> QED BY <1>2, <3>1 DEF OpenedBal, Strict
  <2> QED BY <1>1, <2>1 DEF NoStacks
<1>4. ASSUME NEW m \in Members PROVE OpenedBal[m] = Opening
  <2>1. m \in Accounts /\ m # House
    BY MemberAccounts, AccountsAssumption
  <2> QED BY <2>1 DEF OpenedBal
<1>5. CASE conf.sat
  BY <1>1, <1>2, <1>3, <1>4, <1>5, OpenedCovers DEF Covered, Strict
<1>6. CASE ~conf.sat
  <2>1. club.stakes = {} /\ issued = 0
    BY <1>1, <1>6 DEF OpenedStakes
  <2>2. StakesKnown({})
    BY FS_EmptySet DEF StakesKnown
  <2>3. ASSUME NEW m \in Members PROVE Cost({}, m) <= Opening
    <3>1. Live({}, m) = {}
      BY DEF Live
    <3>2. Amounted({}) /\ Cardinality({}) = 0
      BY FS_EmptySet DEF Amounted
    <3>3. Amounts({}) \in Nat /\ Amounts({}) <= 0 * Cardinality({})
      BY <3>2, AmountsNat, AmountsBound
    <3> QED BY <3>1, <3>2, <3>3, AmountsAssumption DEF Cost
  <2> QED BY <1>1, <1>3, <1>4, <2>1, <2>2, <2>3 DEF Covered
<1> QED BY <1>5, <1>6, SeatsNumbered

(* Nothing happens to them where nothing happens.                           *)
LEMMA CoverStutter ==
    ASSUME CoverInv, UNCHANGED vars PROVE CoverInv'
<1>1. CASE ~Strict
  BY <1>1 DEF CoverInv, Strict, Deferred, vars
<1>2. CASE Strict
  BY <1>2, CoverCalls DEF vars
<1> QED BY <1>1, <1>2

(* The inductive invariant of the promises made of chips.                   *)
THEOREM Covering == Spec => [](TypeInv /\ SignInv /\ CoverInv)
<1>1. Init => CoverInv
  BY InitCovers
<1>2. TypeInv /\ SignInv /\ CoverInv /\ [Next]_vars => CoverInv'
  BY CoverKept, CoverStutter
<1> QED BY <1>1, <1>2, Signing, PTL DEF Spec

(* A deferred club never promises the same chips twice: what its live stakes may
   cost a member is in the balance, whatever calls overlap (the check of
   seatMember, made while holding the ledger).                              *)
THEOREM PromisesKept == Spec => []StakesCovered
<1>1. TypeInv /\ CoverInv => StakesCovered
  <2> SUFFICES ASSUME TypeInv, CoverInv PROVE StakesCovered
    OBVIOUS
  <2>1. TypeOK
    BY DEF TypeInv, TypeOK
  <2>2. ASSUME Strict, ~Settling, NEW m \in Members PROVE Encumbered(club, m) <= club.bal[m]
    <3>1. \A c \in Calls : call[c].pc # "signing"
      BY <2>2, InLine DEF TypeInv, Settling, Holding
    <3>2. Covered(club)
      BY <2>2, <3>1 DEF CoverInv
    <3>3. late = {}
      BY <2>2 DEF TypeInv, Strict
    <3> QED BY <3>2, <3>3, EncumberedIs DEF Covered
  <2> QED BY <2>1, <2>2 DEF StakesCovered, Strict
<1> QED BY <1>1, Covering, PTL
=============================================================================
