------------------------- MODULE ClubMatching_proofs -------------------------
(***************************************************************************)
(* Proofs about matchmaking: every ticket is answered once and none is      *)
(* missed, who meets at a table gets along, nobody is seated twice, and the *)
(* ledger is never held for what waits behind it.                           *)
(***************************************************************************)
EXTENDS ClubMatching, ProofLemmas, FiniteSetTheorems

(* Who sits somewhere. *)
Guests(rooms) == (UNION {ToSet(rooms[t].seats) : t \in DOMAIN rooms}) \ {Nobody}

(* Types; what a policy answers is used only after groupIsSeatable.         *)
SweepShape ==
    /\ sweep = [stage |-> sweep.stage, seated |-> sweep.seated, todo |-> sweep.todo,
                groups |-> sweep.groups, group |-> sweep.group, company |-> sweep.company,
                template |-> sweep.template, table |-> sweep.table]
    /\ sweep.stage \in {"off", "start", "pass", "await"}
    /\ sweep.seated \subseteq Members /\ sweep.company \subseteq Members
    /\ sweep.todo \in Seq(Templates) /\ sweep.template \in Templates
    /\ sweep.group \subseteq DOMAIN told /\ sweep.table \in 0 .. Len(tables)

People ==
    /\ conf \in Confs /\ conf \in Conf
    /\ active \subseteq Members /\ balance \in [Members -> Nat]
    /\ events \in 0 .. conf.events /\ moves \in 0 .. conf.moves
    /\ wanted \in BOOLEAN /\ paused \in BOOLEAN
Book  == tickets \subseteq Ticket /\ told \in Seq(Issued) /\ Queued \subseteq DOMAIN told
Rooms == tables \in Seq(Table)
Lock  == serialised \in Seq(Task) /\ call \in [Members -> {"none", "ledger", "kick"}]
TypeInv == People /\ Book /\ Rooms /\ Lock /\ SweepShape

(* The ledger's holder is the first in line, the others wait; it settles only
   for a member that was banned.                                            *)
Stuck == \E i \in DOMAIN serialised : serialised[i].stage = "settling"
Held(i) ==
    LET task == serialised[i]
    IN  /\ task.stage # "wait" =>
              i = 1 /\ task.op \in {"sit", "seat"} /\ task.table \in DOMAIN tables
        /\ task.table \in 0 .. Len(tables)
        /\ task.op \in {"settle", "leave"} => Stuck \/ task.table \in DOMAIN tables
        /\ task.stage = "paying" => balance[task.member] >= 1
        /\ task.stage \in {"unseating", "settling"} => task.member \notin active
LedgerInv == \A i \in DOMAIN serialised : Held(i)

(* A sweep waits exactly for its own task, which is for the oldest ticket of the
   group being seated.                                                      *)
SweepInv ==
    /\ sweep.stage = "await" <=> \E i \in DOMAIN serialised : serialised[i].op = "seat"
    /\ \A i, j \in DOMAIN serialised :
          serialised[i].op = "seat" /\ serialised[j].op = "seat" => i = j
    /\ \A i \in DOMAIN serialised : serialised[i].op = "seat" =>
          sweep.group # {} /\ serialised[i].member = told[Oldest(sweep.group)].member
    /\ \A id \in sweep.group : told[id].member \in sweep.company
    /\ sweep.stage \in {"off", "start"} => sweep.company = {}

(* A ticket is in the queue once, and not while it is being seated.         *)
BookInv ==
    /\ \A t, u \in tickets : t.id = u.id => t = u
    /\ sweep.group \cap Queued = {}
    /\ OneAnswer

(* Who waits for the ledger has one task there and calls nothing else.      *)
Callers ==
    Stuck \/ \A i \in DOMAIN serialised : serialised[i].op # "seat" =>
        /\ call[serialised[i].member] = "ledger"
        /\ \A j \in DOMAIN serialised :
              serialised[j].op # "seat" /\ serialised[j].member = serialised[i].member => i = j

(* A ticket no sweep has looked at has one coming.                          *)
Coming ==
    /\ \A t \in tickets :
          t.seen \/ call[told[t.id].member] = "kick" \/ wanted \/ sweep.stage = "start"
    /\ sweep.stage = "off" => ~wanted

(* With no seats taken outside matchmaking: who sits somewhere is known to the
   sweep, or is the one it seats just now.                                  *)
Now == IF Len(serialised) # 0 /\ serialised[1].op = "seat" /\ serialised[1].stage # "wait"
       THEN {serialised[1].member} ELSE {}
Known == sweep.seated \cup Now \cup (IF sweep.table # 0 THEN sweep.company ELSE {})
OneSeat ==
    \A t, u \in DOMAIN tables : \A i, j \in 1 .. Width :
        tables[t].seats[i] = tables[u].seats[j] /\ tables[t].seats[i] # Nobody => t = u /\ i = j
OnlySweeps ==
    \A i \in DOMAIN serialised :
        serialised[i].op # "sit" /\ (serialised[i].op \in {"queue", "seat"} \/ Stuck)
Arranged ==
    /\ OnlySweeps /\ OneSeat
    /\ sweep.stage \in {"pass", "await"} => SeatedAt \subseteq Known
    /\ \A id \in sweep.group : told[id].member \in SeatedAt => told[id].member \in Now
SeatInv == moves = 0 => Arranged

(* ... and who meets at a table gets along: the sweep asks for its group's own
   table; matched members have seats, and the one it seats just now has no match
   yet; those of a group who sit get along with the rest of it; the first of a
   group sits down where nobody was matched to.                             *)
HasSeat(a, t) == \E i \in 1 .. Width : tables[t].seats[i] = told[a].member
OwnTable ==
    \A i \in DOMAIN serialised : serialised[i].op = "seat" =>
        IF serialised[i].stage = "wait"
        THEN serialised[i].table = sweep.table /\ (sweep.table = 0 => serialised[i].fresh)
        ELSE sweep.table # 0 => serialised[i].table = sweep.table
MatchedSit == \A a \in Matched : told[a].member \in SeatedAt /\ told[a].member \notin Now
NowSits ==
    Now # {} /\ serialised[1].stage # "settling" =>
        \E i \in 1 .. Width : tables[serialised[1].table].seats[i] = serialised[1].member
RestFits ==
    sweep.table # 0 =>
        \A a \in Matched, g \in sweep.group : HasSeat(a, sweep.table) => GetAlong(a, g)
FirstAlone ==
    sweep.table = 0 /\ Now # {} => \A a \in Matched : ~HasSeat(a, serialised[1].table)
Meeting ==
    \A a, b \in Matched : \A t \in DOMAIN tables :
        a # b /\ HasSeat(a, t) /\ HasSeat(b, t) => GetAlong(a, b)
Companions == OwnTable /\ MatchedSit /\ NowSits /\ RestFits /\ FirstAlone /\ Meeting
CompanyInv == moves = 0 => Companions

(* Who is being seated together gets along. *)
GroupInv == \A s, t \in sweep.group : s # t => GetAlong(s, t)

MatchInv == TypeInv /\ LedgerInv /\ SweepInv /\ BookInv /\ GroupInv
-----------------------------------------------------------------------------
(* What the actions are made of. *)

(* A club has a table type and something to queue for.                      *)
LEMMA AnyTyped ==
    ASSUME conf \in Conf
    PROVE  AnyTemplate \in Templates /\ AnyCrit \in Crits
<1>1. conf.templates \in Seq(Templates) /\ conf.templates # << >>
  BY DEF Conf
<1>2. Head(conf.templates) \in Templates
  BY <1>1, TailMembers
<1> QED BY <1>2, CritsAssumption DEF AnyTemplate, AnyCrit

(* A new task. *)
LEMMA TaskMade ==
    ASSUME conf \in Conf, NEW op \in {"queue", "sit", "seat", "settle", "leave"},
           NEW m \in Members
    PROVE  /\ TaskOf(op, m) \in Task
           /\ TaskOf(op, m).op = op /\ TaskOf(op, m).member = m /\ TaskOf(op, m).table = 0
           /\ TaskOf(op, m).stage = "wait"
BY AnyTyped DEF TaskOf, Task

(* A task more in line.                                                     *)
LEMMA Lined ==
    ASSUME serialised \in Seq(Task), NEW task \in Task, serialised' = Append(serialised, task)
    PROVE  /\ serialised' \in Seq(Task) /\ Len(serialised) \in Nat
           /\ DOMAIN serialised = 1 .. Len(serialised) /\ Len(serialised') = Len(serialised) + 1
           /\ \A i \in DOMAIN serialised : i \in DOMAIN serialised' /\ serialised'[i] = serialised[i]
           /\ Len(serialised) + 1 \in DOMAIN serialised'
           /\ serialised'[Len(serialised) + 1] = task
           /\ \A i \in DOMAIN serialised' : i \in DOMAIN serialised \/ i = Len(serialised) + 1
BY AppendFacts

(* The first task done. *)
LEMMA Popped ==
    ASSUME serialised \in Seq(Task), serialised # << >>, serialised' = Tail(serialised)
    PROVE  /\ serialised' \in Seq(Task) /\ Len(serialised) \in Nat \ {0}
           /\ DOMAIN serialised = 1 .. Len(serialised)
           /\ DOMAIN serialised' = 1 .. Len(serialised) - 1
           /\ \A i \in DOMAIN serialised' :
                 i + 1 \in DOMAIN serialised /\ i + 1 # 1 /\ serialised'[i] = serialised[i + 1]
           /\ \A i \in DOMAIN serialised :
                 i # 1 => i - 1 \in DOMAIN serialised' /\ serialised'[i - 1] = serialised[i]
<1>1. /\ Len(serialised) \in Nat \ {0} /\ DOMAIN serialised = 1 .. Len(serialised)
      /\ serialised' \in Seq(Task) /\ Len(serialised') = Len(serialised) - 1
      /\ DOMAIN serialised' = 1 .. Len(serialised) - 1
      /\ \A i \in DOMAIN serialised' : serialised'[i] = serialised[i + 1]
  BY HeadTailProperties, LenProperties, EmptySeq
<1> QED BY <1>1

(* The task that has the ledger.                                            *)
LEMMA Holder ==
    ASSUME serialised \in Seq(Task), NEW op, NEW stage, Holds(op, stage)
    PROVE  /\ serialised # << >> /\ 1 \in DOMAIN serialised /\ Task1 = serialised[1]
           /\ Task1 \in Task /\ Task1.op = op /\ Task1.stage = stage
           /\ Len(serialised) # 0 /\ Interrupt
<1>1. serialised # << >> /\ Head(serialised).op = op /\ Head(serialised).stage = stage /\ Interrupt
  BY DEF Holds
<1>2. Head(serialised) = serialised[1] /\ Head(serialised) \in Task
  BY <1>1, TailMembers
<1>3. Len(serialised) \in Nat /\ DOMAIN serialised = 1 .. Len(serialised) /\ Len(serialised) # 0
  BY <1>1, LenProperties, EmptySeq
<1> QED BY <1>1, <1>2, <1>3 DEF Task1

(* ... goes on to another stage.                                            *)
LEMMA Staged ==
    ASSUME serialised \in Seq(Task), serialised # << >>,
           NEW new \in Task, serialised' = [serialised EXCEPT ![1] = new]
    PROVE  /\ serialised' \in Seq(Task) /\ Len(serialised') = Len(serialised)
           /\ DOMAIN serialised' = DOMAIN serialised
           /\ 1 \in DOMAIN serialised' /\ serialised'[1] = new
           /\ \A i \in DOMAIN serialised : i # 1 => serialised'[i] = serialised[i]
<1>1. 1 \in DOMAIN serialised
  BY LenProperties, EmptySeq
<1> QED BY <1>1, ExceptFacts

(* Tickets that are answered keep their member and what they are for.       *)
LEMMA AnswerFacts ==
    ASSUME told \in Seq(Issued), NEW ids, NEW answer \in {"matched", "cancelled"},
           NEW f, f = Answered(ids, answer)
    PROVE  /\ f \in Seq(Issued) /\ Len(f) = Len(told) /\ DOMAIN f = DOMAIN told
           /\ \A id \in DOMAIN told :
                 /\ f[id] \in Issued
                 /\ f[id].member = told[id].member /\ f[id].crit = told[id].crit
                 /\ id \notin ids => f[id] = told[id]
                 /\ id \in ids => f[id].answers = Append(told[id].answers, answer)
<1>1. f = [id \in DOMAIN told |-> f[id]]
  BY DEF Answered
<1>2. ASSUME NEW id \in DOMAIN told
      PROVE  /\ f[id] \in Issued
             /\ f[id].member = told[id].member /\ f[id].crit = told[id].crit
             /\ id \notin ids => f[id] = told[id]
             /\ id \in ids => f[id].answers = Append(told[id].answers, answer)
  <2>1. told[id] \in Issued
    BY SeqEntries
  <2>2. PICK more : more = Append(told[id].answers, answer)
    OBVIOUS
  <2>3. told[id].answers \in Seq({"matched", "cancelled"})
    BY <2>1 DEF Issued
  <2>4. more \in Seq({"matched", "cancelled"})
    BY <2>2, <2>3, AppendProperties
  <2>5. f[id] = IF id \in ids THEN [told[id] EXCEPT !.answers = more] ELSE told[id]
    BY <2>2 DEF Answered
  <2> QED BY <2>1, <2>2, <2>4, <2>5 DEF Issued
<1> QED BY <1>1, <1>2, MappedSeq

(* The oldest of a group is one of it.                                      *)
LEMMA OldestOne ==
    ASSUME NEW group, group \subseteq Nat, group # {}
    PROVE  Oldest(group) \in group
<1>1. \E id \in group : \A other \in group : id <= other
  BY LeastNat
<1> QED BY <1>1 DEF Oldest

(* The ids of tickets are numbers. *)
LEMMA IdsAreNumbers ==
    ASSUME told \in Seq(Issued)
    PROVE  DOMAIN told \subseteq Nat /\ Len(told) \in Nat /\ DOMAIN told = 1 .. Len(told)
BY LenProperties

(* A ticket that is due for something else.                                 *)
LEMMA BecomesFacts ==
    ASSUME NEW t \in tickets, NEW u, u.id = t.id, Becomes(t, u)
    PROVE  Queued' = Queued /\ \A v \in tickets' : v = u \/ v \in tickets \ {t}
BY DEF Becomes, Queued

(* Who sits somewhere has a seat at a table.                                *)
LEMMA GuestsSit ==
    ASSUME NEW rooms, NEW m
    PROVE  m \in Guests(rooms) <=>
              m # Nobody /\ \E t \in DOMAIN rooms : m \in ToSet(rooms[t].seats)
<1> DEFINE each == {ToSet(rooms[t].seats) : t \in DOMAIN rooms}
           all  == UNION each
<1>9. Guests(rooms) = all \ {Nobody}
  BY Zenon DEF Guests
<1>0. \A guests : guests \in each <=> \E t \in DOMAIN rooms : guests = ToSet(rooms[t].seats)
  OBVIOUS
<1> HIDE DEF each
<1>8. \A n : n \in all <=> \E guests \in each : n \in guests
  OBVIOUS
<1> HIDE DEF all
<1>1. ASSUME m \in Guests(rooms)
      PROVE  m # Nobody /\ \E t \in DOMAIN rooms : m \in ToSet(rooms[t].seats)
  <2>1. m \in all /\ m # Nobody
    BY <1>1, <1>9
  <2> QED BY <2>1, <1>0, <1>8
<1>2. ASSUME m # Nobody, NEW t \in DOMAIN rooms, m \in ToSet(rooms[t].seats)
      PROVE  m \in Guests(rooms)
  <2>1. ToSet(rooms[t].seats) \in each
    BY <1>0
  <2>2. m \in all
    BY <1>2, <1>8, <2>1
  <2> QED BY <1>2, <2>2, <1>9
<1> QED BY <1>1, <1>2

(* One seat of a table is taken or freed, and nothing else changes there.   *)
Reseated(t, i, who) ==
    /\ tables' \in Seq(Table) /\ Len(tables') = Len(tables) /\ DOMAIN tables' = DOMAIN tables
    /\ \A u \in DOMAIN tables : \A j \in 1 .. Width :
          tables'[u].seats[j] = IF u = t /\ j = i THEN who ELSE tables[u].seats[j]

(* A seat changes hands. *)
LEMMA Reseating ==
    ASSUME tables \in Seq(Table), NEW t \in DOMAIN tables, NEW i \in 1 .. Width,
           NEW who \in Members \cup {Nobody},
           tables' = [tables EXCEPT ![t].seats[i] = who]
    PROVE  Reseated(t, i, who)
<1>1. tables[t] \in Table
  BY SeqEntries
<1>2. PICK seats : seats = [tables[t].seats EXCEPT ![i] = who]
  OBVIOUS
<1>3. /\ seats \in [1 .. Width -> Members \cup {Nobody}] /\ seats[i] = who
      /\ \A j \in 1 .. Width : j # i => seats[j] = tables[t].seats[j]
  BY <1>1, <1>2 DEF Table
<1>4. PICK new : new = [tables[t] EXCEPT !.seats = seats]
  OBVIOUS
<1>5. new \in Table /\ new.seats = seats
  BY <1>1, <1>3, <1>4 DEF Table
<1>6. tables' = [tables EXCEPT ![t] = new]
  BY <1>1, <1>2, <1>4 DEF Table
<1>7. /\ tables' \in Seq(Table) /\ Len(tables') = Len(tables) /\ DOMAIN tables' = DOMAIN tables
      /\ tables'[t] = new /\ \A u \in DOMAIN tables : u # t => tables'[u] = tables[u]
  BY <1>5, <1>6, ExceptFacts
<1>8. ASSUME NEW u \in DOMAIN tables, NEW j \in 1 .. Width
      PROVE  tables'[u].seats[j] = IF u = t /\ j = i THEN who ELSE tables[u].seats[j]
  <2>1. CASE u = t
    <3>1. tables'[u].seats = seats
      BY <2>1, <1>5, <1>7
    <3> QED BY <3>1, <2>1, <1>3
  <2>2. CASE u # t
    BY <2>2, <1>7
  <2> QED BY <2>1, <2>2
<1>9. tables' \in Seq(Table) /\ Len(tables') = Len(tables) /\ DOMAIN tables' = DOMAIN tables
  BY <1>7
<1> QED BY <1>8, <1>9 DEF Reseated

(* The registry seats a member at a table that has a free seat.             *)
LEMMA SatDown ==
    ASSUME tables \in Seq(Table), NEW t \in DOMAIN tables, Free(t), NEW m \in Members,
           Sit(t, m)
    PROVE  \E i \in 1 .. Width : tables[t].seats[i] = Nobody /\ Reseated(t, i, m)
<1> DEFINE First(i) == /\ tables[t].seats[i] = Nobody
                       /\ \A j \in 1 .. i - 1 : tables[t].seats[j] # Nobody
<1>1. \E i \in 1 .. Width : First(i)
  <2>1. PICK i \in {j \in 1 .. Width : tables[t].seats[j] = Nobody} :
            \A j \in {k \in 1 .. Width : tables[t].seats[k] = Nobody} : i <= j
    <3>1. {j \in 1 .. Width : tables[t].seats[j] = Nobody} # {}
      BY DEF Free
    <3>2. {j \in 1 .. Width : tables[t].seats[j] = Nobody} \subseteq Nat
      OBVIOUS
    <3> QED BY <3>1, <3>2, LeastNat
  <2>2. \A j \in 1 .. i - 1 : j \in 1 .. Width /\ ~(i <= j)
    BY <2>1, WidthAssumption
  <2> QED BY <2>1, <2>2
<1>2. PICK seat : seat = CHOOSE i \in 1 .. Width : First(i)
  OBVIOUS
<1>3. seat \in 1 .. Width /\ tables[t].seats[seat] = Nobody
  BY <1>1, <1>2
<1>4. tables' = [tables EXCEPT ![t].seats[seat] = m]
  BY <1>2 DEF Sit
<1> QED BY <1>3, <1>4, Reseating

(* ... and frees the seat of one that stands up.                            *)
LEMMA StoodUp ==
    ASSUME tables \in Seq(Table), NEW t \in DOMAIN tables, NEW m, Vacate(t, m)
    PROVE  \E i \in 1 .. Width : tables[t].seats[i] = m /\ Reseated(t, i, Nobody)
<1>1. PICK i \in 1 .. Width : tables[t].seats[i] = m
                             /\ tables' = [tables EXCEPT ![t].seats[i] = Nobody]
  BY DEF Vacate
<1> QED BY <1>1, Reseating

(* A new table has one guest. *)
LEMMA Opened ==
    ASSUME tables \in Seq(Table), NEW template \in Templates, NEW m \in Members,
           Open(template, m)
    PROVE  /\ tables' \in Seq(Table) /\ Len(tables') = Len(tables) + 1 /\ Len(tables) \in Nat
           /\ DOMAIN tables = 1 .. Len(tables) /\ DOMAIN tables' = 1 .. Len(tables) + 1
           /\ \A t \in DOMAIN tables : tables'[t] = tables[t]
           /\ \A i \in 1 .. Width :
                 tables'[Len(tables) + 1].seats[i] = IF i = 1 THEN m ELSE Nobody
<1>1. PICK new : new = [template |-> template,
                        seats |-> [i \in 1 .. Width |-> IF i = 1 THEN m ELSE Nobody],
                        stack |-> [n \in Members |-> 0]]
  OBVIOUS
<1>2. new \in Table
  BY <1>1 DEF Table
<1>3. tables' = Append(tables, new)
  BY <1>1 DEF Open
<1> QED BY <1>1, <1>2, <1>3, AppendFacts

(* Chips come and go, and nobody moves.                                     *)
SameSeats ==
    /\ tables' \in Seq(Table) /\ Len(tables') = Len(tables) /\ DOMAIN tables' = DOMAIN tables
    /\ \A t \in DOMAIN tables : tables'[t].seats = tables[t].seats

(* A stack changes. *)
LEMMA Stacked ==
    ASSUME tables \in Seq(Table), NEW t \in DOMAIN tables, NEW m \in Members, NEW x \in Nat,
           tables' = [tables EXCEPT ![t].stack[m] = x]
    PROVE  SameSeats
<1>1. tables[t] \in Table
  BY SeqEntries
<1>2. PICK stack : stack = [tables[t].stack EXCEPT ![m] = x]
  OBVIOUS
<1>3. stack \in [Members -> Nat]
  BY <1>1, <1>2 DEF Table
<1>4. PICK new : new = [tables[t] EXCEPT !.stack = stack]
  OBVIOUS
<1>5. new \in Table /\ new.seats = tables[t].seats
  BY <1>1, <1>3, <1>4 DEF Table
<1>6. tables' = [tables EXCEPT ![t] = new]
  BY <1>1, <1>2, <1>4 DEF Table
<1> QED BY <1>5, <1>6, ExceptFacts DEF SameSeats

(* A task that settles is the first in line: nobody else has the ledger.    *)
LEMMA StuckFirst ==
    ASSUME TypeInv, LedgerInv, NEW op, NEW stage, Holds(op, stage), stage # "settling"
    PROVE  ~Stuck
<1>1. Task1 = serialised[1] /\ Task1.stage = stage
  BY Holder DEF TypeInv, Lock
<1>2. \A i \in DOMAIN serialised : serialised[i].stage = "settling" => i = 1
  BY DEF LedgerInv, Held
<1> QED BY <1>1, <1>2 DEF Stuck

(* Somebody waits for the ledger from now on.                               *)
Line(op, m, table) ==
    \E task \in Task :
        /\ serialised' = Append(serialised, task)
        /\ task.op = op /\ task.member = m /\ task.table = table /\ task.stage = "wait"

(* A call of queue waits for the ledger, ... *)
LEMMA QueueLine ==
    ASSUME TypeInv, NEW m \in Members, Queue(m)
    PROVE  Line("queue", m, 0)
<1>1. PICK crit \in conf.crits :
          serialised' = Append(serialised, [TaskOf("queue", m) EXCEPT !.crit = crit])
  BY DEF Queue
<1>2. PICK task : task = [TaskOf("queue", m) EXCEPT !.crit = crit]
  OBVIOUS
<1>3. PICK base : base = TaskOf("queue", m)
  OBVIOUS
<1>4. base \in Task /\ base.op = "queue" /\ base.member = m /\ base.table = 0 /\ base.stage = "wait"
  BY <1>3, TaskMade DEF TypeInv, People
<1>5. crit \in Crits
  BY DEF TypeInv, People, Conf
<1>6. task \in Task /\ task.op = "queue" /\ task.member = m /\ task.table = 0 /\ task.stage = "wait"
  BY <1>2, <1>3, <1>4, <1>5 DEF Task
<1> QED BY <1>1, <1>2, <1>6 DEF Line

(* ... one of sit, ... *)
LEMMA AskLine ==
    ASSUME TypeInv, NEW m \in Members, AskSeat(m)
    PROVE  \E table \in 0 .. Len(tables) : Line("sit", m, table)
<1>1. PICK task : /\ serialised' = Append(serialised, task)
                  /\ \/ \E template \in ToSet(conf.templates) :
                           task = [TaskOf("sit", m) EXCEPT !.template = template]
                     \/ \E t \in DOMAIN tables :
                           task = [TaskOf("sit", m) EXCEPT !.table = t,
                                                           !.template = tables[t].template]
  BY DEF AskSeat
<1>2. PICK base : base = TaskOf("sit", m)
  OBVIOUS
<1>3. base \in Task /\ base.op = "sit" /\ base.member = m /\ base.table = 0 /\ base.stage = "wait"
  BY <1>2, TaskMade DEF TypeInv, People
<1>4. Len(tables) \in Nat /\ DOMAIN tables = 1 .. Len(tables)
  BY LenProperties DEF TypeInv, Rooms
<1>5. serialised' = Append(serialised, task)
  BY <1>1
<1>6. CASE \E template \in ToSet(conf.templates) :
               task = [TaskOf("sit", m) EXCEPT !.template = template]
  <2>1. PICK template \in ToSet(conf.templates) : task = [base EXCEPT !.template = template]
    BY <1>6, <1>2
  <2>2. template \in Templates
    <3>1. conf.templates \in Seq(Templates)
      BY DEF TypeInv, People, Conf
    <3> QED BY <3>1, SeqEntries DEF ToSet
  <2>3. task \in Task /\ task.op = "sit" /\ task.member = m /\ task.table = 0 /\ task.stage = "wait"
    BY <1>3, <2>1, <2>2 DEF Task
  <2>4. Line("sit", m, 0) /\ 0 \in 0 .. Len(tables)
    BY <1>4, <1>5, <2>3 DEF Line
  <2> QED BY <2>4
<1>7. CASE \E t \in DOMAIN tables :
               task = [TaskOf("sit", m) EXCEPT !.table = t, !.template = tables[t].template]
  <2>1. PICK t \in DOMAIN tables :
            task = [base EXCEPT !.table = t, !.template = tables[t].template]
    BY <1>7, <1>2
  <2>2. tables[t].template \in Templates /\ t \in Nat
    <3>1. tables[t] \in Table
      BY SeqEntries DEF TypeInv, Rooms
    <3> QED BY <3>1, <1>4 DEF Table
  <2>3. task \in Task /\ task.op = "sit" /\ task.member = m /\ task.table = t /\ task.stage = "wait"
    BY <1>3, <2>1, <2>2 DEF Task
  <2>4. Line("sit", m, t) /\ t \in 0 .. Len(tables)
    BY <1>4, <1>5, <2>3 DEF Line
  <2> QED BY <2>4
<1> QED BY <1>1, <1>6, <1>7

(* ... and one of leave, after the registry has freed the seat. *)
LEMMA LeaveLine ==
    ASSUME TypeInv, NEW m \in Members, Leave(m)
    PROVE  \E op \in {"settle", "leave"}, t \in DOMAIN tables, i \in 1 .. Width :
              Line(op, m, t) /\ tables[t].seats[i] = m /\ Reseated(t, i, Nobody)
<1>1. PICK op \in {"settle", "leave"} : \E t \in DOMAIN tables :
          Vacate(t, m) /\ serialised' = Append(serialised, [TaskOf(op, m) EXCEPT !.table = t])
  BY DEF Leave
<1>2. PICK t \in DOMAIN tables :
          Vacate(t, m) /\ serialised' = Append(serialised, [TaskOf(op, m) EXCEPT !.table = t])
  BY <1>1
<1>3. PICK task : task = [TaskOf(op, m) EXCEPT !.table = t]
  OBVIOUS
<1>4. PICK base : base = TaskOf(op, m)
  OBVIOUS
<1>5. base \in Task /\ base.op = op /\ base.member = m /\ base.stage = "wait"
  BY <1>4, TaskMade DEF TypeInv, People
<1>6. t \in Nat
  BY LenProperties DEF TypeInv, Rooms
<1>7. task \in Task /\ task.op = op /\ task.member = m /\ task.table = t /\ task.stage = "wait"
  BY <1>3, <1>4, <1>5, <1>6 DEF Task
<1>8. Line(op, m, t)
  BY <1>2, <1>3, <1>7 DEF Line
<1> QED BY <1>2, <1>8, StoodUp DEF TypeInv, Rooms

(* The sweep asks for the member of its oldest ticket, or passes it over.   *)
LEMMA SweepTask ==
    ASSUME TypeInv, PassSeat, NEW oldest, oldest = Oldest(sweep.group)
    PROVE  /\ oldest \in sweep.group /\ told[oldest].member \in Members
           /\ \/ /\ told[oldest].member \in active
                 /\ \E task \in Task :
                       /\ serialised' = Append(serialised, task)
                       /\ task.op = "seat" /\ task.member = told[oldest].member
                       /\ task.table = sweep.table /\ task.stage = "wait"
                       /\ sweep.table = 0 => task.fresh
                 /\ sweep' = [sweep EXCEPT !.stage = "await"]
              \/ /\ told[oldest].member \notin active
                 /\ sweep' = [sweep EXCEPT !.group = @ \ {oldest}]
                 /\ serialised' = serialised
<1>1. oldest \in sweep.group /\ oldest \in DOMAIN told
  <2>1. sweep.group \subseteq DOMAIN told /\ DOMAIN told \subseteq Nat /\ sweep.group # {}
    BY IdsAreNumbers DEF PassSeat, TypeInv, SweepShape, Book
  <2> QED BY <2>1, OldestOne
<1>2. PICK m : m = told[oldest].member
  OBVIOUS
<1>3. m \in Members
  <2>1. told[oldest] \in Issued
    BY <1>1, SeqEntries DEF TypeInv, Book
  <2> QED BY <1>2, <2>1 DEF Issued
<1>4. PICK task : task = [TaskOf("seat", m) EXCEPT !.template = sweep.template,
                                                   !.table = sweep.table, !.fresh = sweep.table = 0]
  OBVIOUS
<1>5. PICK base : base = TaskOf("seat", m)
  OBVIOUS
<1>6. base \in Task /\ base.op = "seat" /\ base.member = m /\ base.stage = "wait"
  BY <1>3, <1>5, TaskMade DEF TypeInv, People
<1>7. sweep.template \in Templates /\ sweep.table \in Nat
  <2>1. Len(tables) \in Nat
    BY LenProperties DEF TypeInv, Rooms
  <2> QED BY <2>1 DEF TypeInv, SweepShape
<1>8. PICK fresh \in BOOLEAN : fresh = (sweep.table = 0)
  OBVIOUS
<1>9. task = [base EXCEPT !.template = sweep.template, !.table = sweep.table, !.fresh = fresh]
  BY <1>4, <1>5, <1>8
<1>10. task \in Task /\ task.op = "seat" /\ task.member = m /\ task.table = sweep.table
       /\ task.stage = "wait" /\ (sweep.table = 0 => task.fresh)
  BY <1>6, <1>7, <1>8, <1>9 DEF Task
<1>11. \/ /\ m \in active /\ serialised' = Append(serialised, task)
          /\ sweep' = [sweep EXCEPT !.stage = "await"]
       \/ /\ m \notin active /\ serialised' = serialised
          /\ sweep' = [sweep EXCEPT !.group = @ \ {oldest}]
  BY <1>2, <1>4 DEF PassSeat
<1> QED BY <1>1, <1>2, <1>3, <1>10, <1>11

(* ... in line as any other. *)
LEMMA SweepLine ==
    ASSUME TypeInv, PassSeat, NEW oldest, oldest = Oldest(sweep.group)
    PROVE  /\ oldest \in sweep.group /\ told[oldest].member \in Members
           /\ \/ /\ told[oldest].member \in active
                 /\ Line("seat", told[oldest].member, sweep.table)
                 /\ sweep' = [sweep EXCEPT !.stage = "await"]
              \/ /\ told[oldest].member \notin active
                 /\ sweep' = [sweep EXCEPT !.group = @ \ {oldest}]
                 /\ serialised' = serialised
BY SweepTask DEF Line

(* A member gets a seat that was free, or the first one of a new table.     *)
Sits(t, m) ==
    \E i \in 1 .. Width :
        /\ tables' \in Seq(Table) /\ Len(tables) <= Len(tables')
        /\ DOMAIN tables \subseteq DOMAIN tables' /\ t \in DOMAIN tables'
        /\ t \in DOMAIN tables => tables[t].seats[i] = Nobody
        /\ \A u \in DOMAIN tables' : \A j \in 1 .. Width :
              tables'[u].seats[j] = IF u = t /\ j = i THEN m
                                    ELSE IF u \in DOMAIN tables THEN tables[u].seats[j] ELSE Nobody

(* At a table that has a free seat, ... *)
LEMMA SatAt ==
    ASSUME TypeInv, NEW t \in DOMAIN tables, Free(t), NEW m \in Members, Sit(t, m)
    PROVE  Sits(t, m)
<1>1. PICK i \in 1 .. Width : tables[t].seats[i] = Nobody /\ Reseated(t, i, m)
  BY SatDown DEF TypeInv, Rooms
<1>2. Len(tables) \in Nat
  BY LenProperties DEF TypeInv, Rooms
<1>3. ASSUME NEW u \in DOMAIN tables', NEW j \in 1 .. Width
      PROVE  tables'[u].seats[j] = IF u = t /\ j = i THEN m
                                   ELSE IF u \in DOMAIN tables THEN tables[u].seats[j] ELSE Nobody
  BY <1>1 DEF Reseated
<1>4. tables' \in Seq(Table) /\ Len(tables) <= Len(tables') /\ DOMAIN tables' = DOMAIN tables
  BY <1>1, <1>2 DEF Reseated
<1> QED BY <1>1, <1>3, <1>4 DEF Sits

(* ... or at one that is opened. *)
LEMMA SatFirst ==
    ASSUME TypeInv, NEW template \in Templates, NEW m \in Members, Open(template, m)
    PROVE  Sits(Len(tables) + 1, m)
<1>1. /\ tables' \in Seq(Table) /\ Len(tables') = Len(tables) + 1 /\ Len(tables) \in Nat
      /\ DOMAIN tables = 1 .. Len(tables) /\ DOMAIN tables' = 1 .. Len(tables) + 1
      /\ \A t \in DOMAIN tables : tables'[t] = tables[t]
      /\ \A i \in 1 .. Width :
            tables'[Len(tables) + 1].seats[i] = IF i = 1 THEN m ELSE Nobody
  BY Opened DEF TypeInv, Rooms
<1>2. PICK new : new = Len(tables) + 1
  OBVIOUS
<1>3. 1 \in 1 .. Width
  BY WidthAssumption
<1>4. new \in DOMAIN tables' /\ new \notin DOMAIN tables /\ DOMAIN tables \subseteq DOMAIN tables'
      /\ Len(tables) <= Len(tables')
  BY <1>1, <1>2
<1>5. ASSUME NEW u \in DOMAIN tables', NEW j \in 1 .. Width
      PROVE  tables'[u].seats[j] = IF u = new /\ j = 1 THEN m
                                   ELSE IF u \in DOMAIN tables THEN tables[u].seats[j] ELSE Nobody
  <2>1. CASE u \in DOMAIN tables
    BY <1>1, <1>4, <2>1
  <2>2. CASE u \notin DOMAIN tables
    <3>1. u = new
      BY <1>1, <1>2, <2>2
    <3> QED BY <1>1, <1>2, <2>2, <3>1
  <2> QED BY <2>1, <2>2
<1>6. Sits(new, m)
  BY <1>1, <1>3, <1>4, <1>5 DEF Sits
<1> QED BY <1>2, <1>6

(* The holder's next stage. *)
Goes(op, stage, new) ==
    /\ Holds(op, stage) /\ new \in Task
    /\ new.op = op /\ new.member = Task1.member
    /\ serialised' = [serialised EXCEPT ![1] = new]

(* The registry seats a member that can pay.                                *)
LEMMA SeatTaskFacts ==
    ASSUME TypeInv, LedgerInv, SeatTask
    PROVE  \E op \in {"sit", "seat"}, new \in Task :
              /\ Goes(op, "wait", new) /\ new.stage = "paying"
              /\ Sits(new.table, new.member) /\ balance[new.member] >= 1
<1>1. PICK op \in {"sit", "seat"} : Holds(op, "wait")
  BY DEF SeatTask, Seating
<1>2. Task1 \in Task /\ Task1 = serialised[1] /\ serialised # << >> /\ 1 \in DOMAIN serialised
      /\ Task1.op = op
  BY <1>1, Holder DEF TypeInv, Lock
<1>3. Task1.member \in Members /\ Task1.template \in Templates /\ Task1.table \in 0 .. Len(tables)
  BY <1>2 DEF Task, LedgerInv, Held
<1>4. Len(tables) \in Nat /\ DOMAIN tables = 1 .. Len(tables)
  BY LenProperties DEF TypeInv, Rooms
<1>5. PICK table \in Nat :
          /\ serialised' = [serialised EXCEPT ![1] =
                                [Task1 EXCEPT !.stage = "paying", !.table = table]]
          /\ Sits(table, Task1.member)
  <2>1. CASE /\ Task1.table # 0 /\ Free(Task1.table) /\ Sit(Task1.table, Task1.member)
             /\ Stage("paying")
    <3>1. [Task1 EXCEPT !.stage = "paying"]
              = [Task1 EXCEPT !.stage = "paying", !.table = Task1.table]
      BY <1>2 DEF Task
    <3>2. serialised' = [serialised EXCEPT ![1] =
                             [Task1 EXCEPT !.stage = "paying", !.table = Task1.table]]
      BY <2>1, <1>2, <3>1 DEF Stage
    <3>3. Sits(Task1.table, Task1.member) /\ Task1.table \in Nat
      BY <2>1, <1>3, <1>4, SatAt
    <3> QED BY <3>2, <3>3
  <2>2. CASE \E t \in PartFull(Task1.template) :
                /\ Sit(t, Task1.member)
                /\ serialised' = [serialised EXCEPT ![1].stage = "paying", ![1].table = t]
    <3>1. PICK t \in DOMAIN tables :
              /\ Free(t) /\ Sit(t, Task1.member)
              /\ serialised' = [serialised EXCEPT ![1].stage = "paying", ![1].table = t]
      BY <2>2 DEF PartFull
    <3>2. serialised' = [serialised EXCEPT ![1] = [Task1 EXCEPT !.stage = "paying", !.table = t]]
      BY <3>1, <1>2
    <3>3. Sits(t, Task1.member) /\ t \in Nat
      BY <3>1, <1>3, <1>4, SatAt
    <3> QED BY <3>2, <3>3
  <2>3. CASE /\ Open(Task1.template, Task1.member)
             /\ serialised' = [serialised EXCEPT ![1].stage = "paying",
                                                 ![1].table = Len(tables) + 1]
    <3>1. PICK table : table = Len(tables) + 1
      OBVIOUS
    <3>2. serialised' = [serialised EXCEPT ![1] =
                             [Task1 EXCEPT !.stage = "paying", !.table = table]]
      BY <2>3, <1>2, <3>1
    <3>3. Sits(table, Task1.member) /\ table \in Nat
      BY <2>3, <1>3, <1>4, <3>1, SatFirst
    <3> QED BY <3>2, <3>3
  <2> QED BY <2>1, <2>2, <2>3 DEF SeatTask
<1>6. PICK new : new = [Task1 EXCEPT !.stage = "paying", !.table = table]
  OBVIOUS
<1>7. new \in Task /\ new.op = op /\ new.member = Task1.member /\ new.table = table
      /\ new.stage = "paying"
  BY <1>2, <1>6 DEF Task
<1>8. Goes(op, "wait", new)
  BY <1>1, <1>5, <1>6, <1>7 DEF Goes
<1>9. balance[Task1.member] >= 1
  BY DEF SeatTask, Affords
<1> QED BY <1>5, <1>7, <1>8, <1>9

(* Chips leave the balance, or the seat is to be given back: of a member that
   was banned, for the balance was enough.                                  *)
LEMMA BuyInFacts ==
    ASSUME TypeInv, LedgerInv, BuyIn
    PROVE  /\ \E op \in {"sit", "seat"}, new \in Task :
                 /\ Goes(op, "paying", new) /\ new.stage \in {"signing", "unseating"}
                 /\ new.table = Task1.table /\ new.table \in DOMAIN tables
                 /\ new.stage = "unseating" => new.member \notin active
           /\ SameSeats /\ balance' \in [Members -> Nat]
<1>1. PICK op \in {"sit", "seat"} : Holds(op, "paying")
  BY DEF BuyIn, Seating
<1>2. Task1 \in Task /\ Task1 = serialised[1] /\ serialised # << >> /\ 1 \in DOMAIN serialised
      /\ Task1.op = op /\ Task1.stage = "paying"
  BY <1>1, Holder DEF TypeInv, Lock
<1>3. Task1.member \in Members /\ Task1.table \in DOMAIN tables /\ balance[Task1.member] >= 1
  BY <1>2 DEF Task, LedgerInv, Held
<1>4. PICK stage \in {"signing", "unseating"} :
          Stage(stage) /\ (stage = "unseating" => Task1.member \notin active)
  BY <1>3 DEF BuyIn, EntryOk
<1>5. PICK new : new = [Task1 EXCEPT !.stage = stage]
  OBVIOUS
<1>6. new \in Task /\ new.op = op /\ new.stage = stage /\ new.table = Task1.table
      /\ new.member = Task1.member
  BY <1>2, <1>5 DEF Task
<1>7. serialised' = [serialised EXCEPT ![1] = new]
  BY <1>2, <1>4, <1>5 DEF Stage
<1>8. Goes(op, "paying", new)
  BY <1>1, <1>6, <1>7 DEF Goes
<1>9. SameSeats /\ balance' \in [Members -> Nat]
  <2>1. CASE /\ balance' = [balance EXCEPT ![Task1.member] = @ - 1]
             /\ tables' = [tables EXCEPT ![Task1.table].stack[Task1.member] = @ + 1]
    <3>1. balance' \in [Members -> Nat]
      BY <2>1, <1>3 DEF TypeInv, People
    <3>2. PICK x : x = tables[Task1.table].stack[Task1.member] + 1
      OBVIOUS
    <3>3. tables[Task1.table] \in Table
      BY <1>3, SeqEntries DEF TypeInv, Rooms
    <3>4. x \in Nat
      BY <1>3, <3>2, <3>3 DEF Table
    <3>5. tables' = [tables EXCEPT ![Task1.table].stack[Task1.member] = x]
      BY <2>1, <3>2
    <3> QED BY <1>3, <3>1, <3>4, <3>5, Stacked DEF TypeInv, Rooms
  <2>2. CASE UNCHANGED <<balance, tables>>
    BY <2>2 DEF TypeInv, People, Rooms, SameSeats
  <2> QED BY <2>1, <2>2 DEF BuyIn
<1> QED BY <1>3, <1>4, <1>6, <1>8, <1>9

(* The seat is given back; with a registry that settles nobody gets the ledger
   any more.                                                                *)
Settles(op) ==
    /\ serialised' \in Seq(Task) /\ Stuck'
    /\ 1 \in DOMAIN serialised'
    /\ serialised'[1].op = op /\ serialised'[1].stage = "settling"
    /\ serialised'[1].member = Task1.member /\ serialised'[1].table = Task1.table
    /\ \A i \in DOMAIN serialised' : i # 1 =>
          \/ i \in DOMAIN serialised /\ serialised'[i] = serialised[i]
          \/ /\ serialised'[i].op = "settle" /\ serialised'[i].stage = "wait"
             /\ serialised'[i].table = 0
    /\ \A i \in DOMAIN serialised :
          i \in DOMAIN serialised' /\ (i # 1 => serialised'[i] = serialised[i])
    /\ UNCHANGED <<book, run, conf, active, call, moves, events>>

(* The seat of a banned member is given back. *)
LEMMA UnseatFacts ==
    ASSUME TypeInv, LedgerInv, Unseat
    PROVE  \E op \in {"sit", "seat"}, i \in 1 .. Width :
              /\ Holds(op, "unseating") /\ Task1.member \notin active
              /\ Task1.table \in DOMAIN tables
              /\ tables[Task1.table].seats[i] = Task1.member
              /\ Reseated(Task1.table, i, Nobody) /\ balance' = balance
              /\ Finished(0, "cancelled") \/ Settles(op)
<1>1. PICK op \in {"sit", "seat"} : Holds(op, "unseating")
  BY DEF Unseat, Seating
<1>2. Task1 \in Task /\ Task1 = serialised[1] /\ serialised # << >> /\ 1 \in DOMAIN serialised
      /\ Task1.stage = "unseating" /\ Task1.op = op
  BY <1>1, Holder DEF TypeInv, Lock
<1>3. Task1.member \in Members /\ Task1.table \in DOMAIN tables /\ Task1.member \notin active
  BY <1>2 DEF Task, LedgerInv, Held
<1>4. PICK i \in 1 .. Width :
          tables[Task1.table].seats[i] = Task1.member /\ Reseated(Task1.table, i, Nobody)
  BY <1>3, StoodUp DEF Unseat, TypeInv, Rooms
<1>5. CASE /\ serialised' = Append([serialised EXCEPT ![1].stage = "settling"],
                            TaskOf("settle", Task1.member))
           /\ UNCHANGED <<book, run, conf, active, call, moves, events>>
  <2>1. PICK new : new = [Task1 EXCEPT !.stage = "settling"]
    OBVIOUS
  <2>2. new \in Task /\ new.op = op /\ new.stage = "settling" /\ new.table = Task1.table
        /\ new.member = Task1.member
    BY <1>2, <2>1 DEF Task
  <2>3. PICK held : held = [serialised EXCEPT ![1] = new]
    OBVIOUS
  <2>4. /\ held \in Seq(Task) /\ DOMAIN held = DOMAIN serialised /\ held[1] = new
        /\ \A k \in DOMAIN serialised : k # 1 => held[k] = serialised[k]
    BY <1>2, <2>2, <2>3, ExceptFacts DEF TypeInv, Lock
  <2>5. PICK last : last = TaskOf("settle", Task1.member)
    OBVIOUS
  <2>6. last \in Task /\ last.stage = "wait" /\ last.table = 0 /\ last.op = "settle"
    BY <1>3, <2>5, TaskMade DEF TypeInv, People
  <2>7. serialised' = Append(held, last)
    BY <1>5, <1>2, <2>1, <2>3, <2>5
  <2>8. /\ serialised' \in Seq(Task)
        /\ \A k \in DOMAIN held : k \in DOMAIN serialised' /\ serialised'[k] = held[k]
        /\ \A k \in DOMAIN serialised' : k \in DOMAIN held \/ serialised'[k] = last
    BY <2>4, <2>6, <2>7, AppendFacts
  <2>9. 1 \in DOMAIN serialised' /\ serialised'[1] = new
    BY <1>2, <2>4, <2>8
  <2>10. Stuck'
    BY <2>2, <2>9 DEF Stuck
  <2>11. ASSUME NEW k \in DOMAIN serialised', k # 1
         PROVE  \/ k \in DOMAIN serialised /\ serialised'[k] = serialised[k]
                \/ /\ serialised'[k].op = "settle" /\ serialised'[k].stage = "wait"
                   /\ serialised'[k].table = 0
    BY <2>4, <2>6, <2>8, <2>11
  <2>12. \A k \in DOMAIN serialised :
            k \in DOMAIN serialised' /\ (k # 1 => serialised'[k] = serialised[k])
    BY <2>4, <2>8
  <2>13. Settles(op)
    BY <1>5, <2>2, <2>8, <2>9, <2>10, <2>11, <2>12 DEF Settles
  <2> QED BY <1>1, <1>3, <1>4, <2>13 DEF Unseat
<1>6. CASE Finished(0, "cancelled")
  BY <1>1, <1>3, <1>4, <1>6 DEF Unseat
<1> QED BY <1>5, <1>6 DEF Unseat

(* The turn of the one who stands up. *)
LEMMA SettleTaskFacts ==
    ASSUME TypeInv, LedgerInv, SettleTask
    PROVE  /\ Holds("settle", "wait") /\ serialised' \in Seq(Task)
           /\ Task1.table \in DOMAIN tables
           /\ \A i \in DOMAIN serialised' :
                 \/ /\ i + 1 \in DOMAIN serialised /\ i + 1 # 1 /\ i # Len(serialised)
                    /\ serialised'[i] = serialised[i + 1]
                 \/ /\ i = Len(serialised)
                    /\ serialised'[i].op = "leave" /\ serialised'[i].stage = "wait"
                    /\ serialised'[i].table = Task1.table /\ serialised'[i].member = Task1.member
           /\ \A i \in DOMAIN serialised :
                 i # 1 => i - 1 \in DOMAIN serialised' /\ serialised'[i - 1] = serialised[i]
<1>1. Holds("settle", "wait")
  BY DEF SettleTask
<1>2. Task1 \in Task /\ serialised # << >> /\ Task1 = serialised[1] /\ 1 \in DOMAIN serialised
      /\ Task1.op = "settle" /\ Task1.stage = "wait" /\ serialised \in Seq(Task)
  BY <1>1, Holder DEF TypeInv, Lock
<1>3. ~Stuck
  BY <1>1, StuckFirst
<1>4. PICK new : new = [Task1 EXCEPT !.op = "leave"]
  OBVIOUS
<1>5. new \in Task /\ new.op = "leave" /\ new.stage = "wait" /\ new.table = Task1.table
      /\ new.member = Task1.member /\ Task1.table \in DOMAIN tables
  BY <1>2, <1>3, <1>4 DEF Task, LedgerInv, Held
<1>6. PICK rest : rest = Tail(serialised)
  OBVIOUS
<1>7. serialised' = Append(rest, new)
  BY <1>4, <1>6 DEF SettleTask
<1>8. /\ rest \in Seq(Task) /\ Len(rest) = Len(serialised) - 1 /\ Len(serialised) \in Nat
      /\ DOMAIN serialised = 1 .. Len(serialised) /\ DOMAIN rest = 1 .. Len(serialised) - 1
      /\ \A i \in DOMAIN rest : rest[i] = serialised[i + 1]
  BY <1>2, <1>6, HeadTailProperties, LenProperties
<1>9. /\ serialised' \in Seq(Task) /\ DOMAIN serialised' = 1 .. Len(rest) + 1
      /\ \A i \in DOMAIN rest : serialised'[i] = rest[i]
      /\ serialised'[Len(rest) + 1] = new
  BY <1>5, <1>7, <1>8, AppendFacts
<1>10. DOMAIN serialised' = 1 .. Len(serialised) /\ serialised'[Len(serialised)] = new
       /\ \A i \in 1 .. Len(serialised) - 1 : serialised'[i] = serialised[i + 1]
  BY <1>8, <1>9
<1>11. ASSUME NEW i \in DOMAIN serialised'
       PROVE  \/ /\ i + 1 \in DOMAIN serialised /\ i + 1 # 1 /\ i # Len(serialised)
                 /\ serialised'[i] = serialised[i + 1]
              \/ i = Len(serialised) /\ serialised'[i] = new
  BY <1>8, <1>10
<1>12. ASSUME NEW i \in DOMAIN serialised, i # 1
       PROVE  i - 1 \in DOMAIN serialised' /\ serialised'[i - 1] = serialised[i]
  <2>1. i - 1 \in 1 .. Len(serialised) - 1 /\ (i - 1) + 1 = i
    BY <1>8, <1>12
  <2> QED BY <2>1, <1>8, <1>10
<1> QED BY <1>1, <1>5, <1>9, <1>11, <1>12

(* Whoever stood up gets back what its stack held. *)
LEMMA LeaveTaskFacts ==
    ASSUME TypeInv, LedgerInv, LeaveTask
    PROVE  /\ Holds("leave", "wait") /\ Task1.member \in Members
           /\ SameSeats /\ balance' \in [Members -> Nat]
<1>1. Holds("leave", "wait")
  BY DEF LeaveTask
<1>2. Task1 \in Task /\ Task1 = serialised[1] /\ serialised # << >> /\ 1 \in DOMAIN serialised
      /\ Task1.op = "leave"
  BY <1>1, Holder DEF TypeInv, Lock
<1>3. Task1.member \in Members /\ Task1.table \in DOMAIN tables
  BY <1>1, <1>2, StuckFirst DEF Task, LedgerInv, Held
<1>4. tables[Task1.table] \in Table
  BY <1>3, SeqEntries DEF TypeInv, Rooms
<1>5. tables[Task1.table].stack[Task1.member] \in Nat
  BY <1>3, <1>4 DEF Table
<1>6. SameSeats
  BY <1>3, Stacked DEF LeaveTask, TypeInv, Rooms
<1>7. balance' \in [Members -> Nat]
  BY <1>3, <1>5 DEF LeaveTask, TypeInv, People
<1> QED BY <1>1, <1>3, <1>6, <1>7

(* What the sweep, or the caller, goes on with.                             *)
LEMMA FinishedFacts ==
    ASSUME TypeInv, LedgerInv, NEW op \in {"sit", "seat"}, NEW stage, Holds(op, stage),
           NEW table \in 0 .. Len(tables), NEW answer \in {"matched", "cancelled"},
           Finished(table, answer), Len(tables') = Len(tables)
    PROVE  Lock' /\ SweepShape' /\ Book'
<1>1. Task1 \in Task /\ Task1.op = op /\ serialised # << >>
  BY Holder DEF TypeInv, Lock
<1>2. serialised' = Tail(serialised) /\ tickets' = tickets
  BY DEF Finished
<1>3. serialised' \in Seq(Task)
  BY <1>1, <1>2, Popped DEF TypeInv, Lock
<1>4. CASE op = "sit"
  <2>1. call' = [call EXCEPT ![Task1.member] = "none"] /\ sweep' = sweep /\ told' = told
    BY <1>1, <1>4 DEF Finished
  <2>2. Task1.member \in Members
    BY <1>1 DEF Task
  <2> QED BY <2>1, <2>2, <1>2, <1>3 DEF TypeInv, Lock, SweepShape, Book, Queued
<1>5. CASE op = "seat"
  <2>1. PICK oldest : oldest = Oldest(sweep.group)
    OBVIOUS
  <2>2. /\ sweep' = [sweep EXCEPT !.stage = "pass", !.group = @ \ {oldest},
                                  !.table = IF @ = 0 THEN table ELSE @]
        /\ told' = Answered({oldest}, answer) /\ call' = call
    BY <2>1, <1>1, <1>5 DEF Finished
  <2>3. told' \in Seq(Issued) /\ DOMAIN told' = DOMAIN told
    BY <2>2, AnswerFacts DEF TypeInv, Book
  <2>4. SweepShape'
    BY <2>2, <2>3 DEF TypeInv, SweepShape
  <2> QED BY <2>2, <2>3, <2>4, <1>2, <1>3 DEF TypeInv, Lock, Book, Queued
<1> QED BY <1>4, <1>5

-----------------------------------------------------------------------------
(* Types. *)

(* Of a step nothing but some of the variables changes.                     *)
LEMMA BookKept ==
    ASSUME Book, tickets' = tickets, told' = told
    PROVE  Book' /\ DOMAIN told' = DOMAIN told
BY DEF Book, Queued

(* ... or nothing the sweep is made of. *)
LEMMA SweepKept ==
    ASSUME SweepShape, sweep' = sweep, DOMAIN told' = DOMAIN told,
           Len(tables) \in Nat, Len(tables') \in Nat, Len(tables) <= Len(tables')
    PROVE  SweepShape'
BY DEF SweepShape

(* The calls, the clock and the admins.                                     *)
LEMMA TypesOfQueue ==
    ASSUME TypeInv,
           \/ \E m \in Members : Queue(m) \/ Unqueue(m) \/ Offline(m) \/ Online(m) \/ Ban(m) \/ Kick(m)
           \/ Tick \/ Drain \/ Grace \/ Expiry \/ Pause \/ Resume
    PROVE  TypeInv'
<1> USE DEF TypeInv
<1>0. Len(tables) \in Nat /\ DOMAIN told \subseteq Nat
  BY LenProperties, IdsAreNumbers DEF Rooms, Book
<1>1. ASSUME NEW m \in Members, Queue(m) PROVE TypeInv'
  <2>1. PICK crit \in conf.crits :
            serialised' = Append(serialised, [TaskOf("queue", m) EXCEPT !.crit = crit])
    BY <1>1 DEF Queue
  <2>2. PICK task : task = [TaskOf("queue", m) EXCEPT !.crit = crit]
    OBVIOUS
  <2>3. task \in Task
    <3>1. crit \in Crits
      BY DEF People, Conf
    <3>2. TaskOf("queue", m) \in Task
      BY TaskMade DEF People
    <3> QED BY <2>2, <3>1, <3>2 DEF Task
  <2>4. serialised' \in Seq(Task)
    BY <2>1, <2>2, <2>3, Lined DEF Lock
  <2>5. call' = [call EXCEPT ![m] = "ledger"]
    BY <1>1 DEF Queue
  <2>6. UNCHANGED <<people, book, run, events>>
    BY <1>1 DEF Queue
  <2>7. People' /\ Rooms' /\ Book' /\ SweepShape'
    BY <1>0, <2>6, BookKept, SweepKept DEF People, Rooms, people, book, run
  <2> QED BY <2>4, <2>5, <2>7 DEF Lock
<1>2. ASSUME NEW ids, Drop(ids) PROVE Book' /\ DOMAIN told' = DOMAIN told
  <2>1. tickets' \subseteq tickets /\ told' = Answered(ids, "cancelled")
    BY <1>2 DEF Drop
  <2> QED BY <2>1, AnswerFacts DEF Book, Queued
<1>3. ASSUME NEW t \in tickets, NEW u \in Ticket, u.id = t.id, Becomes(t, u), told' = told
      PROVE  Book' /\ DOMAIN told' = DOMAIN told
  BY <1>3, BecomesFacts DEF Book
<1>4. ASSUME NEW m \in Members, Unqueue(m) PROVE TypeInv'
  <2>1. Book' /\ DOMAIN told' = DOMAIN told /\ UNCHANGED <<people, lock, run, events>>
    BY <1>2, <1>4 DEF Unqueue
  <2> QED BY <2>1, <1>0, SweepKept DEF People, Rooms, Lock, people, lock, run
<1>5. ASSUME NEW m \in Members, Offline(m) PROVE TypeInv'
  <2>1. PICK t \in Of(m) : t.away = "no" /\ Becomes(t, [t EXCEPT !.away = "counting"])
    BY <1>5 DEF Offline
  <2>2. t \in tickets /\ t \in Ticket
    BY <2>1 DEF Of, Book
  <2>3. PICK u : u = [t EXCEPT !.away = "counting"]
    OBVIOUS
  <2>4. u \in Ticket /\ u.id = t.id /\ Becomes(t, u)
    BY <2>1, <2>2, <2>3 DEF Ticket
  <2>5. UNCHANGED <<people, lock, run, told>> /\ Event
    BY <1>5 DEF Offline
  <2>6. Book' /\ DOMAIN told' = DOMAIN told
    BY <2>2, <2>4, <2>5, <1>3
  <2>7. People'
    BY <2>5 DEF People, Event, people, run, Conf
  <2> QED BY <2>5, <2>6, <2>7, <1>0, SweepKept DEF Rooms, Lock, people, lock, run
<1>6. ASSUME NEW m \in Members, Online(m) PROVE TypeInv'
  <2>1. PICK t \in Of(m) : t.away # "no" /\ Becomes(t, [t EXCEPT !.away = "no"])
    BY <1>6 DEF Online
  <2>2. t \in tickets /\ t \in Ticket
    BY <2>1 DEF Of, Book
  <2>3. PICK u : u = [t EXCEPT !.away = "no"]
    OBVIOUS
  <2>4. u \in Ticket /\ u.id = t.id /\ Becomes(t, u)
    BY <2>1, <2>2, <2>3 DEF Ticket
  <2>5. UNCHANGED <<people, lock, run, told, events>>
    BY <1>6 DEF Online
  <2>6. Book' /\ DOMAIN told' = DOMAIN told
    BY <2>2, <2>4, <2>5, <1>3
  <2> QED BY <2>5, <2>6, <1>0, SweepKept DEF People, Rooms, Lock, people, lock, run
<1>7. ASSUME NEW m \in Members, Ban(m) PROVE TypeInv'
  <2>1. /\ Event /\ active' = active \ {m}
        /\ UNCHANGED <<book, lock, run, conf, balance, tables, moves>>
    BY <1>7 DEF Ban
  <2>2. People'
    BY <2>1 DEF People, Event, run, Conf
  <2> QED BY <2>1, <2>2, <1>0, BookKept, SweepKept DEF Rooms, Lock, book, lock, run
<1>8. ASSUME Run, told' = told, tables' = tables, conf' = conf PROVE SweepShape' /\ wanted' \in BOOLEAN
  <2>1. sweep' = (IF sweep.stage = "off" THEN [NoSweep EXCEPT !.stage = "start"] ELSE sweep)
        /\ wanted' = TRUE
    BY <1>8 DEF Run
  <2>2. CASE sweep.stage = "off"
    <3>1. AnyTemplate \in Templates
      BY AnyTyped DEF People
    <3>2. << >> \in Seq(Templates)
      OBVIOUS
    <3>3. sweep' = [stage |-> "start", seated |-> {}, todo |-> << >>, groups |-> << >>,
                    group |-> {}, company |-> {}, template |-> AnyTemplate, table |-> 0]
      BY <2>1, <2>2 DEF NoSweep
    <3> HIDE DEF TypeInv
    <3>4. SweepShape'
      BY <3>1, <3>2, <3>3, <1>0, <1>8 DEF SweepShape
    <3> QED BY <2>1, <3>4
  <2>3. CASE sweep.stage # "off"
    BY <2>1, <2>3, <1>8, <1>0, SweepKept
  <2> QED BY <2>2, <2>3
<1>9. ASSUME NEW m \in Members, Kick(m) PROVE TypeInv'
  <2>1. /\ call' = [call EXCEPT ![m] = "none"] /\ Run
        /\ UNCHANGED <<people, book, serialised, paused, events>>
    BY <1>9 DEF Kick
  <2> QED BY <2>1, <1>8, BookKept DEF People, Rooms, Lock, people, book
<1>10. ASSUME Tick PROVE TypeInv'
  <2>1. Run /\ UNCHANGED <<people, book, lock, paused, events>>
    BY <1>10 DEF Tick
  <2> QED BY <2>1, <1>8, BookKept DEF People, Rooms, Lock, people, book, lock
<1>11. ASSUME Drain PROVE TypeInv'
  <2>1. Event /\ Drop(Queued) /\ UNCHANGED <<people, lock, run>>
    BY <1>11 DEF Drain
  <2>2. People'
    BY <2>1 DEF People, Event, people, run, Conf
  <2>3. Book' /\ DOMAIN told' = DOMAIN told
    BY <2>1, <1>2
  <2> QED BY <2>1, <2>2, <2>3, <1>0, SweepKept DEF Rooms, Lock, people, lock, run
<1>12. ASSUME Grace PROVE TypeInv'
  <2>1. PICK t \in tickets : t.away = "counting" /\ Becomes(t, [t EXCEPT !.away = "over"])
    BY <1>12 DEF Grace
  <2>2. t \in Ticket
    BY <2>1 DEF Book
  <2>3. PICK u : u = [t EXCEPT !.away = "over"]
    OBVIOUS
  <2>4. u \in Ticket /\ u.id = t.id /\ Becomes(t, u)
    BY <2>1, <2>2, <2>3 DEF Ticket
  <2>5. UNCHANGED <<people, lock, run, told, events>>
    BY <1>12 DEF Grace
  <2>6. Book' /\ DOMAIN told' = DOMAIN told
    BY <2>4, <2>5, <1>3
  <2> QED BY <2>5, <2>6, <1>0, SweepKept DEF People, Rooms, Lock, people, lock, run
<1>13. ASSUME Expiry PROVE TypeInv'
  <2>1. PICK t \in tickets : ~t.old /\ Becomes(t, [t EXCEPT !.old = TRUE])
    BY <1>13 DEF Expiry
  <2>2. t \in Ticket
    BY <2>1 DEF Book
  <2>3. PICK u : u = [t EXCEPT !.old = TRUE]
    OBVIOUS
  <2>4. u \in Ticket /\ u.id = t.id /\ Becomes(t, u)
    BY <2>1, <2>2, <2>3 DEF Ticket
  <2>5. UNCHANGED <<people, lock, run, told>> /\ Event
    BY <1>13 DEF Expiry
  <2>6. Book' /\ DOMAIN told' = DOMAIN told
    BY <2>4, <2>5, <1>3
  <2>7. People'
    BY <2>5 DEF People, Event, people, run, Conf
  <2> QED BY <2>5, <2>6, <2>7, <1>0, SweepKept DEF Rooms, Lock, people, lock, run
<1>14. ASSUME Pause PROVE TypeInv'
  <2>1. Event /\ paused' = TRUE /\ UNCHANGED <<people, book, lock, sweep, wanted>>
    BY <1>14 DEF Pause
  <2>2. People'
    BY <2>1 DEF People, Event, people, Conf
  <2> QED BY <2>1, <2>2, <1>0, BookKept, SweepKept DEF Rooms, Lock, people, book, lock
<1>15. ASSUME Resume PROVE TypeInv'
  <2>1. paused' = FALSE /\ Run /\ UNCHANGED <<people, book, lock, events>>
    BY <1>15 DEF Resume
  <2> QED BY <2>1, <1>8, BookKept DEF People, Rooms, Lock, people, book, lock
<1> QED BY <1>1, <1>4, <1>5, <1>6, <1>7, <1>9, <1>10, <1>11, <1>12, <1>13, <1>14, <1>15

(* The sweep. *)
LEMMA TypesOfSweep ==
    ASSUME TypeInv, Sweeping
    PROVE  TypeInv'
<1> USE DEF TypeInv
<1>0. Len(tables) \in Nat /\ DOMAIN told \subseteq Nat
  BY LenProperties, IdsAreNumbers DEF Rooms, Book
<1>1. CASE PassStart
  <2>1. PICK gone : gone = {t \in tickets : Retired(t)}
    OBVIOUS
  <2>2. PICK todo : todo = IF paused \/ gone = tickets THEN << >> ELSE conf.templates
    OBVIOUS
  <2>3. PICK ids : ids = {t.id : t \in gone}
    OBVIOUS
  <2>4. /\ wanted' = FALSE /\ tickets' = {[t EXCEPT !.seen = TRUE] : t \in tickets \ gone}
        /\ told' = Answered(ids, "cancelled")
        /\ sweep' = [sweep EXCEPT !.stage = "pass", !.seated = SeatedAt, !.todo = todo]
        /\ UNCHANGED <<people, lock, paused, events>>
    BY <1>1, <2>1, <2>2, <2>3 DEF PassStart
  <2>5. told' \in Seq(Issued) /\ DOMAIN told' = DOMAIN told
    BY <2>4, AnswerFacts DEF Book
  <2>6. tickets' \subseteq Ticket /\ Queued' \subseteq Queued
    <3>1. ASSUME NEW u \in tickets' PROVE u \in Ticket /\ u.id \in Queued
      <4>1. PICK t \in tickets : u = [t EXCEPT !.seen = TRUE]
        BY <2>4
      <4>2. t \in Ticket
        BY DEF Book
      <4> QED BY <4>1, <4>2 DEF Ticket, Queued
    <3>2. \A id \in Queued' : \E u \in tickets' : id = u.id
      BY DEF Queued
    <3> QED BY <3>1, <3>2
  <2>7. todo \in Seq(Templates)
    BY <2>2 DEF People, Conf
  <2>8. SeatedAt \subseteq Members
    <3>1. ASSUME NEW t \in DOMAIN tables PROVE ToSet(tables[t].seats) \subseteq Members \cup {Nobody}
      <4>1. tables[t] \in Table
        BY SeqEntries DEF Rooms
      <4>2. tables[t].seats \in [1 .. Width -> Members \cup {Nobody}]
        BY <4>1 DEF Table
      <4> QED BY <4>2 DEF ToSet
    <3>2. ASSUME NEW m \in SeatedAt PROVE m \in Members
      <4>1. m \in Guests(tables)
        BY DEF SeatedAt, Guests
      <4>2. m # Nobody /\ \E t \in DOMAIN tables : m \in ToSet(tables[t].seats)
        BY <4>1, GuestsSit
      <4> QED BY <4>2, <3>1
    <3> QED BY <3>2
  <2>9. SweepShape'
    BY <2>4, <2>5, <2>7, <2>8 DEF SweepShape, people
  <2> QED BY <2>4, <2>5, <2>6, <2>9 DEF People, Book, Rooms, Lock, people, lock
<1>2. CASE PassTemplate
  <2>1. PICK groups : sweep' = [sweep EXCEPT !.todo = Tail(@), !.groups = groups,
                                             !.template = Head(sweep.todo)]
    BY <1>2 DEF PassTemplate
  <2>2. UNCHANGED <<people, book, lock, wanted, paused, events>> /\ sweep.todo # << >>
    BY <1>2 DEF PassTemplate
  <2>3. Tail(sweep.todo) \in Seq(Templates) /\ Head(sweep.todo) \in Templates
    BY <2>2, TailMembers DEF SweepShape
  <2>4. SweepShape'
    BY <2>1, <2>2, <2>3 DEF SweepShape, people, book
  <2> QED BY <2>2, <2>4, BookKept DEF People, Rooms, Lock, people, book, lock
<1>3. CASE PassGroup
  <2>1. PICK group : group = Head(sweep.groups)
    OBVIOUS
  <2>2. UNCHANGED <<people, lock, told, wanted, paused, events>>
    BY <1>3 DEF PassGroup
  <2>3. CASE /\ Seatable(group)
             /\ tickets' = {t \in tickets : t.id \notin group}
             /\ sweep' = [sweep EXCEPT !.groups = Tail(@), !.group = group, !.table = 0,
                                       !.company = {told[id].member : id \in group}]
    <3>1. group \subseteq Queued
      BY <2>3 DEF Seatable
    <3>2. {told[id].member : id \in group} \subseteq Members
      <4>1. \A id \in group : told[id] \in Issued
        BY <3>1, SeqEntries DEF Book
      <4> QED BY <4>1 DEF Issued
    <3>3. PICK company : company = {told[id].member : id \in group}
      OBVIOUS
    <3>4. /\ sweep' = [sweep EXCEPT !.groups = Tail(@), !.group = group, !.table = 0,
                                    !.company = company]
          /\ company \subseteq Members /\ group \subseteq DOMAIN told /\ 0 \in 0 .. Len(tables)
      BY <3>1, <3>2, <3>3, <2>3, <1>0 DEF Book
    <3>5. SweepShape'
      BY <3>4, <2>2 DEF SweepShape, people
    <3> QED BY <3>5, <2>2, <2>3 DEF People, Book, Queued, Rooms, Lock, people, lock
  <2>4. CASE sweep' = [sweep EXCEPT !.groups = Tail(@)] /\ UNCHANGED tickets
    <3>1. SweepShape'
      BY <2>2, <2>4 DEF SweepShape, people
    <3> QED BY <2>2, <2>4, <3>1, BookKept DEF People, Rooms, Lock, people, lock
  <2> QED BY <1>3, <2>1, <2>3, <2>4 DEF PassGroup
<1>4. CASE PassSeat
  <2>1. PICK oldest : oldest = Oldest(sweep.group)
    OBVIOUS
  <2>2. UNCHANGED <<people, book, call, wanted, paused, events>>
    BY <1>4 DEF PassSeat
  <2>3. /\ serialised' = serialised \/ Line("seat", told[oldest].member, sweep.table)
        /\ \/ sweep' = [sweep EXCEPT !.stage = "await"]
           \/ sweep' = [sweep EXCEPT !.group = @ \ {oldest}]
    BY <1>4, <2>1, SweepLine
  <2>4. serialised' \in Seq(Task)
    BY <2>3, Lined DEF Line, Lock
  <2>5. SweepShape'
    BY <2>2, <2>3 DEF SweepShape, people, book
  <2> QED BY <2>2, <2>4, <2>5, BookKept DEF People, Rooms, Lock, people, book
<1>5. CASE PassSeated
  <2>1. /\ sweep' = [sweep EXCEPT !.company = {},
                        !.seated = @ \cup IF sweep.table # 0 THEN sweep.company ELSE {}]
        /\ UNCHANGED <<people, book, lock, wanted, paused, events>>
    BY <1>5 DEF PassSeated
  <2>2. SweepShape'
    BY <2>1 DEF SweepShape, people, book
  <2> QED BY <2>1, <2>2, BookKept DEF People, Rooms, Lock, people, book, lock
<1>6. CASE PassEnd
  <2>1. PICK stage \in {"start", "off"} : sweep' = [NoSweep EXCEPT !.stage = stage]
    BY <1>6 DEF PassEnd
  <2>2. sweep' = [stage |-> stage, seated |-> {}, todo |-> << >>, groups |-> << >>,
                  group |-> {}, company |-> {}, template |-> AnyTemplate, table |-> 0]
    BY <2>1 DEF NoSweep
  <2>3. AnyTemplate \in Templates
    BY AnyTyped DEF People
  <2>4. << >> \in Seq(Templates)
    OBVIOUS
  <2>5. UNCHANGED <<people, book, lock, wanted, paused, events>>
    BY <1>6 DEF PassEnd
  <2>6. SweepShape'
    BY <2>2, <2>3, <2>4, <2>5, <1>0 DEF SweepShape, people, book
  <2> QED BY <2>5, <2>6, BookKept DEF People, Rooms, Lock, people, book, lock
<1> QED BY <1>1, <1>2, <1>3, <1>4, <1>5, <1>6 DEF Sweeping

(* Calls of sit and leave, and whoever has the ledger.                      *)
LEMMA TypesOfLedger ==
    ASSUME TypeInv, LedgerInv,
           LedgerTurn \/ \E m \in Members : AskSeat(m) \/ Leave(m)
    PROVE  TypeInv'
<1> USE DEF TypeInv
<1>0. Len(tables) \in Nat /\ serialised \in Seq(Task)
  BY LenProperties DEF Rooms, Lock
<1>1. CASE QueueTask
  <2>1. Holds("queue", "wait")
    BY <1>1 DEF QueueTask
  <2>2. Task1 \in Task /\ serialised # << >>
    BY <2>1, <1>0, Holder
  <2>3. PICK mine : mine = Of(Task1.member)
    OBVIOUS
  <2>4. PICK ids : ids = {t.id : t \in mine}
    OBVIOUS
  <2>5. PICK kept : kept = Answered(ids, "cancelled")
    OBVIOUS
  <2>6. PICK new : new = [member |-> Task1.member, crit |-> Task1.crit, answers |-> << >>]
    OBVIOUS
  <2>7. PICK made : made = [id |-> Len(told) + 1, away |-> "no", old |-> FALSE, seen |-> FALSE]
    OBVIOUS
  <2>8. /\ tickets' = (tickets \ mine) \cup {made} /\ told' = Append(kept, new)
        /\ call' = [call EXCEPT ![Task1.member] = "kick"]
        /\ serialised' = Tail(serialised)
        /\ UNCHANGED <<people, run, events>>
    BY <1>1, <2>3, <2>4, <2>5, <2>6, <2>7 DEF QueueTask, Task1
  <2>9. Len(told) \in Nat /\ kept \in Seq(Issued) /\ Len(kept) = Len(told)
        /\ DOMAIN told = 1 .. Len(told)
    BY <2>5, AnswerFacts, LenProperties DEF Book
  <2>10. new \in Issued
    BY <2>2, <2>6 DEF Issued, Task
  <2>11. told' \in Seq(Issued) /\ DOMAIN told' = 1 .. Len(told) + 1
    BY <2>8, <2>9, <2>10, AppendFacts
  <2>12. made \in Ticket /\ made.id = Len(told) + 1
    BY <2>7, <2>9 DEF Ticket
  <2>13. Book'
    BY <2>8, <2>9, <2>11, <2>12 DEF Book, Queued
  <2>14. serialised' \in Seq(Task) /\ Task1.member \in Members
    BY <1>0, <2>2, <2>8, Popped DEF Task
  <2>15. SweepShape'
    BY <2>8, <2>9, <2>11 DEF SweepShape, run, people
  <2> QED BY <2>8, <2>13, <2>14, <2>15 DEF People, Rooms, Lock, people, run
<1>2. CASE SeatTask
  <2>1. PICK op \in {"sit", "seat"}, new \in Task :
            Goes(op, "wait", new) /\ Sits(new.table, new.member)
    BY <1>2, SeatTaskFacts
  <2>2. serialised' \in Seq(Task)
    BY <1>0, <2>1, Holder, Staged DEF Goes
  <2>3. Rooms' /\ Len(tables) <= Len(tables') /\ Len(tables') \in Nat
    BY <2>1, LenProperties DEF Sits, Rooms
  <2>4. UNCHANGED <<book, run, conf, active, balance, call, moves, events>>
    BY <1>2 DEF SeatTask
  <2>5. Book' /\ DOMAIN told' = DOMAIN told
    BY <2>4, BookKept DEF book
  <2>6. SweepShape'
    BY <1>0, <2>3, <2>4, <2>5, SweepKept DEF run
  <2> QED BY <2>2, <2>3, <2>4, <2>5, <2>6 DEF People, Lock, run
<1>3. ASSUME NEW op \in {"sit", "seat"}, NEW stage, Holds(op, stage),
             NEW table \in 0 .. Len(tables), NEW answer \in {"matched", "cancelled"},
             Finished(table, answer), Rooms', Len(tables') = Len(tables), balance' = balance
      PROVE  TypeInv'
  <2>1. Lock' /\ SweepShape' /\ Book'
    BY <1>3, FinishedFacts
  <2> QED BY <1>3, <2>1 DEF Finished, People
<1>4. CASE SeatRefused
  <2>1. PICK op \in {"sit", "seat"} : Holds(op, "wait")
    BY <1>4 DEF SeatRefused, Seating
  <2>2. Finished(0, "cancelled") /\ UNCHANGED <<balance, tables>> /\ 0 \in 0 .. Len(tables)
    BY <1>0, <1>4 DEF SeatRefused
  <2> QED BY <2>1, <2>2, <1>3 DEF Rooms
<1>5. CASE BuyIn
  <2>1. PICK op \in {"sit", "seat"}, new \in Task : Goes(op, "paying", new)
    BY <1>5, BuyInFacts
  <2>2. serialised' \in Seq(Task)
    BY <1>0, <2>1, Holder, Staged DEF Goes
  <2>3. SameSeats /\ balance' \in [Members -> Nat]
    BY <1>5, BuyInFacts
  <2>4. UNCHANGED <<book, run, conf, active, call, moves, events>>
    BY <1>5 DEF BuyIn
  <2>5. Book' /\ DOMAIN told' = DOMAIN told
    BY <2>4, BookKept DEF book
  <2>6. Rooms' /\ SweepShape'
    BY <1>0, <2>3, <2>4, <2>5, SweepKept DEF SameSeats, Rooms, run
  <2> QED BY <2>2, <2>3, <2>4, <2>5, <2>6 DEF People, Lock, run
<1>6. CASE Granted
  <2>1. PICK op \in {"sit", "seat"} : Holds(op, "signing")
    BY <1>6 DEF Granted, Seating
  <2>2. Finished(Task1.table, "matched") /\ UNCHANGED <<balance, tables>>
    BY <1>6 DEF Granted
  <2>3. Task1.table \in 0 .. Len(tables)
    BY <1>0, <2>1, Holder DEF LedgerInv, Held
  <2> QED BY <2>1, <2>2, <2>3, <1>3 DEF Rooms
<1>7. CASE Unseat
  <2>1. PICK op \in {"sit", "seat"}, i \in 1 .. Width :
            /\ Holds(op, "unseating") /\ Reseated(Task1.table, i, Nobody) /\ balance' = balance
            /\ Finished(0, "cancelled") \/ Settles(op)
    BY <1>7, UnseatFacts
  <2>2. Rooms' /\ Len(tables') = Len(tables) /\ 0 \in 0 .. Len(tables)
    BY <1>0, <2>1 DEF Reseated, Rooms
  <2>3. CASE Finished(0, "cancelled")
    BY <2>1, <2>2, <2>3, <1>3
  <2>4. CASE Settles(op)
    <3>1. serialised' \in Seq(Task) /\ UNCHANGED <<book, run, conf, active, call, moves, events>>
      BY <2>4 DEF Settles
    <3>2. Book' /\ DOMAIN told' = DOMAIN told
      BY <3>1, BookKept DEF book
    <3>3. SweepShape'
      BY <1>0, <2>2, <3>1, <3>2, SweepKept DEF run
    <3> QED BY <2>1, <2>2, <3>1, <3>2, <3>3 DEF People, Lock, run
  <2> QED BY <2>1, <2>3, <2>4
<1>8. CASE SettleTask
  <2>1. serialised' \in Seq(Task)
    BY <1>8, SettleTaskFacts
  <2>2. UNCHANGED <<people, book, run, call, events>>
    BY <1>8 DEF SettleTask
  <2>3. Book' /\ DOMAIN told' = DOMAIN told
    BY <2>2, BookKept DEF book
  <2>4. SweepShape'
    BY <1>0, <2>2, <2>3, SweepKept DEF run, people
  <2> QED BY <2>1, <2>2, <2>3, <2>4 DEF People, Rooms, Lock, people, run
<1>9. CASE LeaveTask
  <2>1. Holds("leave", "wait") /\ Task1.member \in Members /\ SameSeats
        /\ balance' \in [Members -> Nat]
    BY <1>9, LeaveTaskFacts
  <2>2. /\ call' = [call EXCEPT ![Task1.member] = "none"] /\ serialised' = Tail(serialised)
        /\ UNCHANGED <<book, run, conf, active, moves, events>>
    BY <1>9 DEF LeaveTask
  <2>3. serialised' \in Seq(Task)
    BY <1>0, <2>1, <2>2, Holder, Popped
  <2>4. Book' /\ DOMAIN told' = DOMAIN told
    BY <2>2, BookKept DEF book
  <2>5. Rooms' /\ SweepShape'
    BY <1>0, <2>1, <2>2, <2>4, SweepKept DEF SameSeats, Rooms, run
  <2> QED BY <2>1, <2>2, <2>3, <2>4, <2>5 DEF People, Lock, run
<1>10. ASSUME NEW m \in Members, NEW op, NEW table, Line(op, m, table),
              moves < conf.moves, moves' = moves + 1, call' = [call EXCEPT ![m] = "ledger"],
              UNCHANGED <<book, run, conf, active, balance, events>>,
              Rooms', Len(tables') = Len(tables)
       PROVE  TypeInv'
  <2>1. serialised' \in Seq(Task)
    BY <1>10, <1>0, Lined DEF Line
  <2>2. Book' /\ DOMAIN told' = DOMAIN told
    BY <1>10, BookKept DEF book
  <2>3. SweepShape'
    BY <1>0, <1>10, <2>2, SweepKept DEF run
  <2>4. People'
    BY <1>10 DEF People, run, Conf
  <2> QED BY <1>10, <2>1, <2>2, <2>3, <2>4 DEF Lock
<1>11. ASSUME NEW m \in Members, AskSeat(m) PROVE TypeInv'
  <2>1. PICK table \in 0 .. Len(tables) : Line("sit", m, table)
    BY <1>11, AskLine
  <2>2. /\ moves < conf.moves /\ moves' = moves + 1 /\ call' = [call EXCEPT ![m] = "ledger"]
        /\ UNCHANGED <<book, run, conf, active, balance, tables, events>>
    BY <1>11 DEF AskSeat
  <2> QED BY <2>1, <2>2, <1>10 DEF Rooms
<1>12. ASSUME NEW m \in Members, Leave(m) PROVE TypeInv'
  <2>1. PICK op \in {"settle", "leave"}, t \in DOMAIN tables, i \in 1 .. Width :
            Line(op, m, t) /\ Reseated(t, i, Nobody)
    BY <1>12, LeaveLine
  <2>2. Rooms' /\ Len(tables') = Len(tables)
    BY <2>1 DEF Reseated, Rooms
  <2>3. /\ moves < conf.moves /\ moves' = moves + 1 /\ call' = [call EXCEPT ![m] = "ledger"]
        /\ UNCHANGED <<book, run, conf, active, balance, events>>
    BY <1>12 DEF Leave
  <2> QED BY <2>1, <2>2, <2>3, <1>10
<1> QED BY <1>1, <1>2, <1>4, <1>5, <1>6, <1>7, <1>8, <1>9, <1>11, <1>12 DEF LedgerTurn

-----------------------------------------------------------------------------
(* Who holds the ledger. *)

(* One more waits. *)
LEMMA LedgerAsked ==
    ASSUME TypeInv, LedgerInv, NEW op, NEW m, NEW table \in 0 .. Len(tables),
           Line(op, m, table), op \in {"settle", "leave"} => table \in DOMAIN tables,
           DOMAIN tables' = DOMAIN tables, Len(tables') = Len(tables),
           balance' = balance, active' = active
    PROVE  LedgerInv'
<1>1. PICK task \in Task :
          /\ serialised' = Append(serialised, task)
          /\ task.op = op /\ task.member = m /\ task.table = table /\ task.stage = "wait"
  BY DEF Line
<1>2. /\ \A i \in DOMAIN serialised : i \in DOMAIN serialised' /\ serialised'[i] = serialised[i]
      /\ \A i \in DOMAIN serialised' : i \in DOMAIN serialised \/ i = Len(serialised) + 1
      /\ serialised'[Len(serialised) + 1] = task
  BY <1>1, Lined DEF TypeInv, Lock
<1>3. Stuck => Stuck'
  BY <1>2 DEF Stuck
<1>4. ASSUME NEW i \in DOMAIN serialised' PROVE Held(i)'
  <2>1. CASE i \in DOMAIN serialised
    <3>1. Held(i) /\ serialised'[i] = serialised[i]
      BY <1>2, <2>1 DEF LedgerInv
    <3> QED BY <1>3, <3>1 DEF Held
  <2>2. CASE i = Len(serialised) + 1
    BY <1>1, <1>2, <2>2 DEF Held
  <2> QED BY <1>2, <2>1, <2>2
<1> QED BY <1>4 DEF LedgerInv

(* The holder is done, and nobody else has begun.                           *)
LEMMA LedgerDone ==
    ASSUME TypeInv, LedgerInv, NEW op, NEW stage, Holds(op, stage), stage # "settling",
           serialised' = Tail(serialised),
           DOMAIN tables' = DOMAIN tables, Len(tables') = Len(tables)
    PROVE  LedgerInv'
<1>1. \A i \in DOMAIN serialised' :
         i + 1 \in DOMAIN serialised /\ i + 1 # 1 /\ serialised'[i] = serialised[i + 1]
  BY Holder, Popped DEF TypeInv, Lock
<1>2. ~Stuck
  BY StuckFirst
<1>3. ASSUME NEW i \in DOMAIN serialised' PROVE Held(i)'
  <2>1. PICK j \in DOMAIN serialised : j # 1 /\ serialised'[i] = serialised[j]
    BY <1>1
  <2>2. Held(j)
    BY DEF LedgerInv
  <2> QED BY <1>2, <2>1, <2>2 DEF Held
<1> QED BY <1>3 DEF LedgerInv

(* The holder goes on. *)
LEMMA LedgerGoes ==
    ASSUME TypeInv, LedgerInv, NEW op \in {"sit", "seat"}, NEW stage, stage # "settling",
           NEW new \in Task, Goes(op, stage, new),
           new.stage \in {"paying", "signing", "unseating"}, new.table \in DOMAIN tables',
           new.stage = "paying" => balance'[new.member] >= 1,
           new.stage = "unseating" => new.member \notin active,
           tables' \in Seq(Table), DOMAIN tables \subseteq DOMAIN tables',
           Len(tables) <= Len(tables'), active' = active
    PROVE  LedgerInv'
<1>1. /\ DOMAIN serialised' = DOMAIN serialised /\ serialised'[1] = new
      /\ \A i \in DOMAIN serialised : i # 1 => serialised'[i] = serialised[i]
  BY Holder, Staged DEF Goes, TypeInv, Lock
<1>2. Len(tables') \in Nat /\ DOMAIN tables' = 1 .. Len(tables') /\ Len(tables) \in Nat
  BY LenProperties DEF TypeInv, Rooms
<1>3. ~Stuck
  BY StuckFirst DEF Goes
<1>4. ASSUME NEW i \in DOMAIN serialised' PROVE Held(i)'
  <2>1. CASE i = 1
    <3>1. new.table \in 0 .. Len(tables')
      BY <1>2
    <3>2. new.op \in {"sit", "seat"}
      BY DEF Goes
    <3> QED BY <1>1, <2>1, <3>1, <3>2 DEF Held
  <2>2. CASE i # 1
    <3>1. serialised'[i] = serialised[i] /\ i \in DOMAIN serialised
      BY <1>1, <2>2
    <3>2. Held(i)
      BY <3>1 DEF LedgerInv
    <3> QED BY <1>2, <1>3, <2>2, <3>1, <3>2 DEF Held
  <2> QED BY <2>1, <2>2
<1> QED BY <1>4 DEF LedgerInv

(* Every step keeps what the line says of the ledger. *)
LEMMA LedgerKept ==
    ASSUME TypeInv, LedgerInv, Next
    PROVE  LedgerInv'
<1>0. /\ Len(tables) \in Nat /\ DOMAIN tables = 1 .. Len(tables) /\ serialised \in Seq(Task)
      /\ 0 \in 0 .. Len(tables) /\ tables \in Seq(Table)
  BY LenProperties DEF TypeInv, Rooms, Lock
<1>1. CASE PassStart \/ PassTemplate \/ PassGroup \/ PassSeated \/ PassEnd
           \/ Tick \/ Drain \/ Grace \/ Expiry \/ Pause \/ Resume
           \/ \E m \in Members : Unqueue(m) \/ Offline(m) \/ Online(m) \/ Ban(m) \/ Kick(m)
  <2>1. serialised' = serialised /\ balance' = balance /\ tables' = tables /\ active' \subseteq active
    BY <1>1 DEF PassStart, PassTemplate, PassGroup, PassSeated, PassEnd, Tick, Drain, Grace,
               Expiry, Pause, Resume, Unqueue, Offline, Online, Ban, Kick, people, lock
  <2> QED BY <2>1 DEF LedgerInv, Held, Stuck
<1>2. ASSUME NEW m \in Members, Queue(m) PROVE LedgerInv'
  <2>1. Line("queue", m, 0) /\ UNCHANGED people
    BY <1>2, QueueLine DEF Queue
  <2> QED BY <1>0, <2>1, LedgerAsked DEF people
<1>3. ASSUME NEW m \in Members, AskSeat(m) PROVE LedgerInv'
  <2>1. PICK table \in 0 .. Len(tables) : Line("sit", m, table)
    BY <1>3, AskLine
  <2>2. UNCHANGED <<active, balance, tables>>
    BY <1>3 DEF AskSeat
  <2> QED BY <2>1, <2>2, LedgerAsked
<1>4. ASSUME NEW m \in Members, Leave(m) PROVE LedgerInv'
  <2>1. PICK op \in {"settle", "leave"}, t \in DOMAIN tables, i \in 1 .. Width :
            Line(op, m, t) /\ Reseated(t, i, Nobody)
    BY <1>4, LeaveLine
  <2>2. DOMAIN tables' = DOMAIN tables /\ Len(tables') = Len(tables) /\ t \in 0 .. Len(tables)
    BY <1>0, <2>1 DEF Reseated
  <2>3. UNCHANGED <<active, balance>>
    BY <1>4 DEF Leave
  <2> QED BY <2>1, <2>2, <2>3, LedgerAsked
<1>5. CASE PassSeat
  <2>1. PICK m : Line("seat", m, sweep.table) \/ serialised' = serialised
    BY <1>5, SweepLine
  <2>2. UNCHANGED people
    BY <1>5 DEF PassSeat
  <2>3. CASE Line("seat", m, sweep.table)
    <3>1. sweep.table \in 0 .. Len(tables)
      BY DEF TypeInv, SweepShape
    <3> QED BY <2>2, <2>3, <3>1, LedgerAsked DEF people
  <2>4. CASE serialised' = serialised
    BY <2>2, <2>4 DEF LedgerInv, Held, Stuck, people
  <2> QED BY <2>1, <2>3, <2>4
<1>6. CASE QueueTask
  <2>1. Holds("queue", "wait") /\ serialised' = Tail(serialised) /\ UNCHANGED people
    BY <1>6 DEF QueueTask
  <2> QED BY <2>1, LedgerDone DEF people
<1>7. CASE SeatTask
  <2>1. PICK op \in {"sit", "seat"}, new \in Task :
            /\ Goes(op, "wait", new) /\ new.stage = "paying"
            /\ Sits(new.table, new.member) /\ balance[new.member] >= 1
    BY <1>7, SeatTaskFacts
  <2>2. UNCHANGED <<balance, active>>
    BY <1>7 DEF SeatTask
  <2>3. /\ tables' \in Seq(Table) /\ DOMAIN tables \subseteq DOMAIN tables'
        /\ Len(tables) <= Len(tables') /\ new.table \in DOMAIN tables'
    BY <2>1 DEF Sits
  <2> QED BY <2>1, <2>2, <2>3, LedgerGoes
<1>8. CASE SeatRefused
  <2>1. PICK op \in {"sit", "seat"} : Holds(op, "wait")
    BY <1>8 DEF SeatRefused, Seating
  <2>2. serialised' = Tail(serialised) /\ tables' = tables
    BY <1>8 DEF SeatRefused, Finished
  <2> QED BY <2>1, <2>2, LedgerDone
<1>9. CASE BuyIn
  <2>1. PICK op \in {"sit", "seat"}, new \in Task :
            /\ Goes(op, "paying", new) /\ new.stage \in {"signing", "unseating"}
            /\ new.table \in DOMAIN tables
            /\ new.stage = "unseating" => new.member \notin active
    BY <1>9, BuyInFacts
  <2>2. SameSeats
    BY <1>9, BuyInFacts
  <2>3. active' = active
    BY <1>9 DEF BuyIn
  <2>4. /\ tables' \in Seq(Table) /\ DOMAIN tables' = DOMAIN tables /\ Len(tables') = Len(tables)
        /\ Len(tables) <= Len(tables')
    BY <1>0, <2>2 DEF SameSeats
  <2>5. /\ Goes(op, "paying", new) /\ new.stage \in {"paying", "signing", "unseating"}
        /\ new.stage = "paying" => balance'[new.member] >= 1
        /\ new.stage = "unseating" => new.member \notin active
        /\ new.table \in DOMAIN tables'
    BY <2>1, <2>4
  <2> QED BY <2>3, <2>4, <2>5, LedgerGoes
<1>10. CASE Granted
  <2>1. PICK op \in {"sit", "seat"} : Holds(op, "signing")
    BY <1>10 DEF Granted, Seating
  <2>2. serialised' = Tail(serialised) /\ tables' = tables
    BY <1>10 DEF Granted, Finished
  <2> QED BY <2>1, <2>2, LedgerDone
<1>11. CASE Unseat
  <2>1. PICK op \in {"sit", "seat"}, i \in 1 .. Width :
            /\ Holds(op, "unseating") /\ Task1.member \notin active
            /\ Task1.table \in DOMAIN tables
            /\ Reseated(Task1.table, i, Nobody) /\ balance' = balance
            /\ Finished(0, "cancelled") \/ Settles(op)
    BY <1>11, UnseatFacts
  <2>2. DOMAIN tables' = DOMAIN tables /\ Len(tables') = Len(tables)
    BY <2>1 DEF Reseated
  <2>3. CASE Finished(0, "cancelled")
    <3>1. serialised' = Tail(serialised)
      BY <2>3 DEF Finished
    <3> QED BY <2>1, <2>2, <3>1, LedgerDone
  <2>4. CASE Settles(op)
    <3>1. ASSUME NEW k \in DOMAIN serialised' PROVE Held(k)'
      <4>1. CASE k = 1
        BY <4>1, <2>1, <2>2, <2>4, <1>0 DEF Settles, Held
      <4>2. CASE k \in DOMAIN serialised /\ serialised'[k] = serialised[k] /\ k # 1
        <5>1. Held(k)
          BY <4>2 DEF LedgerInv
        <5> QED BY <4>2, <5>1, <2>1, <2>2, <2>4 DEF Settles, Held
      <4>3. CASE serialised'[k].op = "settle" /\ serialised'[k].stage = "wait"
                 /\ serialised'[k].table = 0
        BY <4>3, <2>2, <2>4, <1>0 DEF Settles, Held
      <4> QED BY <4>1, <4>2, <4>3, <2>4 DEF Settles
    <3> QED BY <3>1 DEF LedgerInv
  <2> QED BY <2>1, <2>3, <2>4
<1>12. CASE SettleTask
  <2>1. Holds("settle", "wait") /\ Task1.table \in DOMAIN tables
    BY <1>12, SettleTaskFacts
  <2>2. UNCHANGED people /\ ~Stuck
    BY <1>12, <2>1, StuckFirst DEF SettleTask
  <2>3. ASSUME NEW i \in DOMAIN serialised' PROVE Held(i)'
    <3>1. CASE \E j \in DOMAIN serialised : j # 1 /\ serialised'[i] = serialised[j]
      <4>1. PICK j \in DOMAIN serialised : j # 1 /\ serialised'[i] = serialised[j]
        BY <3>1
      <4>2. Held(j)
        BY DEF LedgerInv
      <4> QED BY <2>2, <4>1, <4>2 DEF Held, people
    <3>2. CASE serialised'[i].op = "leave" /\ serialised'[i].stage = "wait"
               /\ serialised'[i].table = Task1.table
      BY <3>2, <2>1, <2>2, <1>0 DEF Held, people
    <3> QED BY <1>12, <3>1, <3>2, SettleTaskFacts
  <2> QED BY <2>3 DEF LedgerInv
<1>13. CASE LeaveTask
  <2>1. Holds("leave", "wait") /\ SameSeats /\ serialised' = Tail(serialised)
    BY <1>13, LeaveTaskFacts DEF LeaveTask
  <2> QED BY <2>1, LedgerDone DEF SameSeats
<1> QED BY <1>1, <1>2, <1>3, <1>4, <1>5, <1>6, <1>7, <1>8, <1>9, <1>10, <1>11, <1>12, <1>13
     DEF Next, Sweeping, LedgerTurn, Calls

-----------------------------------------------------------------------------
(* The sweep and its task. *)

(* Issued tickets stay with their member and what they are for.             *)
ToldSame ==
    \A id \in DOMAIN told :
        id \in DOMAIN told' /\ told'[id].member = told[id].member /\ told'[id].crit = told[id].crit

(* An answer changes neither member nor criteria, ... *)
LEMMA AnsweredSame ==
    ASSUME TypeInv, NEW ids, NEW answer \in {"matched", "cancelled"}, told' = Answered(ids, answer)
    PROVE  ToldSame
BY AnswerFacts DEF TypeInv, Book, ToldSame

(* ... and no other step does. *)
LEMMA ToldKept ==
    ASSUME TypeInv, Next
    PROVE  ToldSame
<1>1. ASSUME NEW table, NEW answer \in {"matched", "cancelled"}, Finished(table, answer)
      PROVE  ToldSame
  <2>1. told' = told \/ told' = Answered({Oldest(sweep.group)}, answer)
    BY <1>1 DEF Finished
  <2> QED BY <2>1, AnsweredSame DEF ToldSame
<1>2. CASE SeatRefused \/ Granted \/ Unseat
  <2>1. Finished(0, "cancelled") \/ Finished(Task1.table, "matched") \/ UNCHANGED book
    BY <1>2 DEF SeatRefused, Granted, Unseat
  <2> QED BY <2>1, <1>1 DEF book, ToldSame
<1>3. CASE PassStart \/ Drain \/ \E m \in Members : Unqueue(m)
  <2>1. \E ids : told' = Answered(ids, "cancelled")
    BY <1>3 DEF PassStart, Drain, Unqueue, Drop
  <2> QED BY <2>1, AnsweredSame
<1>4. CASE QueueTask
  <2>1. PICK ids, new : told' = Append(Answered(ids, "cancelled"), new)
                        /\ new = [member |-> Task1.member, crit |-> Task1.crit, answers |-> << >>]
    BY <1>4 DEF QueueTask, Task1
  <2>2. new \in Issued
    <3>1. Task1 \in Task
      BY <1>4, Holder DEF QueueTask, TypeInv, Lock
    <3> QED BY <2>1, <3>1 DEF Task, Issued
  <2>3. PICK kept : kept = Answered(ids, "cancelled")
    OBVIOUS
  <2>4. /\ kept \in Seq(Issued) /\ DOMAIN kept = DOMAIN told
        /\ \A id \in DOMAIN told :
              kept[id].member = told[id].member /\ kept[id].crit = told[id].crit
    BY <2>3, AnswerFacts DEF TypeInv, Book
  <2>5. \A id \in DOMAIN kept : id \in DOMAIN told' /\ told'[id] = kept[id]
    BY <2>1, <2>2, <2>3, <2>4, AppendFacts
  <2> QED BY <2>4, <2>5 DEF ToldSame
<1>5. CASE \/ PassTemplate \/ PassGroup \/ PassSeat \/ PassSeated \/ PassEnd
           \/ SeatTask \/ BuyIn \/ SettleTask \/ LeaveTask
           \/ Tick \/ Grace \/ Expiry \/ Pause \/ Resume
           \/ \E m \in Members : Queue(m) \/ Offline(m) \/ Online(m) \/ AskSeat(m) \/ Leave(m)
                                 \/ Ban(m) \/ Kick(m)
  <2>1. told' = told
    BY <1>5 DEF PassTemplate, PassGroup, PassSeat, PassSeated, PassEnd, SeatTask, BuyIn, SettleTask,
               LeaveTask, Tick, Grace, Expiry, Pause, Resume, Queue, Offline, Online, AskSeat,
               Leave, Ban, Kick, book
  <2> QED BY <2>1 DEF ToldSame
<1> QED BY <1>2, <1>3, <1>4, <1>5 DEF Next, Sweeping, LedgerTurn, Calls

(* The tasks of sweeps are where they were, or one place further.           *)
Shifted(d) ==
    /\ \A i \in DOMAIN serialised' : serialised'[i].op = "seat" =>
          i + d \in DOMAIN serialised /\ serialised[i + d].op = "seat"
          /\ serialised[i + d].member = serialised'[i].member
    /\ \A i \in DOMAIN serialised : serialised[i].op = "seat" =>
          i - d \in DOMAIN serialised' /\ serialised'[i - d].op = "seat"

(* A task more at the end, ... *)
LEMMA ShiftedByLine ==
    ASSUME TypeInv, NEW op, op # "seat", NEW m, NEW table, Line(op, m, table)
    PROVE  Shifted(0)
<1>1. PICK task \in Task : serialised' = Append(serialised, task) /\ task.op = op
  BY DEF Line
<1>2. /\ Len(serialised) \in Nat /\ DOMAIN serialised = 1 .. Len(serialised)
      /\ \A i \in DOMAIN serialised : i \in DOMAIN serialised' /\ serialised'[i] = serialised[i]
      /\ \A i \in DOMAIN serialised' : i \in DOMAIN serialised \/ i = Len(serialised) + 1
      /\ serialised'[Len(serialised) + 1] = task
  BY <1>1, Lined DEF TypeInv, Lock
<1>3. \A i \in DOMAIN serialised' : serialised'[i].op = "seat" => i \in DOMAIN serialised
  BY <1>1, <1>2
<1>4. \A i \in DOMAIN serialised : i + 0 = i /\ i - 0 = i
  BY <1>2
<1> QED BY <1>2, <1>3, <1>4 DEF Shifted

(* ... one less at the front, ... *)
LEMMA ShiftedByTail ==
    ASSUME TypeInv, NEW op, op # "seat", NEW stage, Holds(op, stage),
           serialised' = Tail(serialised)
    PROVE  Shifted(1)
<1>1. serialised # << >> /\ serialised[1].op = op
  BY Holder DEF TypeInv, Lock
<1>2. /\ \A i \in DOMAIN serialised' :
            i + 1 \in DOMAIN serialised /\ serialised'[i] = serialised[i + 1]
      /\ \A i \in DOMAIN serialised :
            i # 1 => i - 1 \in DOMAIN serialised' /\ serialised'[i - 1] = serialised[i]
  BY <1>1, Popped DEF TypeInv, Lock
<1> QED BY <1>1, <1>2 DEF Shifted

(* ... another stage of the first, ... *)
LEMMA ShiftedByStage ==
    ASSUME TypeInv, NEW op, NEW stage, NEW new \in Task, Goes(op, stage, new)
    PROVE  Shifted(0)
<1>1. /\ DOMAIN serialised' = DOMAIN serialised /\ serialised'[1] = new
      /\ \A i \in DOMAIN serialised : i # 1 => serialised'[i] = serialised[i]
      /\ serialised[1].op = new.op /\ serialised[1].member = new.member
  BY Holder, Staged DEF Goes, TypeInv, Lock
<1>2. \A i \in DOMAIN serialised : i + 0 = i /\ i - 0 = i
  BY LenProperties DEF TypeInv, Lock
<1>3. \A i \in DOMAIN serialised :
         serialised'[i].op = serialised[i].op /\ serialised'[i].member = serialised[i].member
  BY <1>1
<1> QED BY <1>1, <1>2, <1>3 DEF Shifted

(* ... a settlement behind it, ... *)
LEMMA ShiftedBySettling ==
    ASSUME TypeInv, NEW op, NEW stage, Holds(op, stage), Settles(op)
    PROVE  Shifted(0)
<1>1. serialised[1].op = op /\ serialised[1].member = Task1.member /\ 1 \in DOMAIN serialised
  BY Holder DEF TypeInv, Lock
<1>2. \A i \in DOMAIN serialised' : serialised'[i].op = "seat" =>
         i \in DOMAIN serialised /\ serialised[i].op = "seat"
         /\ serialised[i].member = serialised'[i].member
  BY <1>1 DEF Settles
<1>3. Len(serialised) \in Nat /\ DOMAIN serialised = 1 .. Len(serialised)
      /\ Len(serialised') \in Nat /\ DOMAIN serialised' = 1 .. Len(serialised')
  BY LenProperties DEF TypeInv, Lock, Settles
<1>4. \A i \in DOMAIN serialised : i - 0 = i
  BY <1>3
<1>5. \A i \in DOMAIN serialised' : i + 0 = i
  BY <1>3
<1>6. \A i \in DOMAIN serialised : serialised[i].op = "seat" =>
         i \in DOMAIN serialised' /\ serialised'[i].op = "seat"
  BY <1>1 DEF Settles
<1> QED BY <1>2, <1>4, <1>5, <1>6 DEF Shifted

(* ... or the turn that follows a settlement: the sweep's task is there as before. *)
LEMMA ShiftedByTurn ==
    ASSUME TypeInv, LedgerInv, SettleTask
    PROVE  Shifted(1)
<1>1. serialised[1].op = "settle"
  BY SettleTaskFacts, Holder DEF TypeInv, Lock
<1> QED BY <1>1, SettleTaskFacts DEF Shifted

(* A sweep goes on waiting, or not, with its task in the line.              *)
LEMMA WaitsOn ==
    ASSUME TypeInv, SweepInv, ToldSame, NEW d \in {0, 1}, Shifted(d), serialised' \in Seq(Task),
           sweep' = sweep
    PROVE  SweepInv'
<1>0. DOMAIN serialised \subseteq Nat /\ DOMAIN serialised' \subseteq Nat
  BY LenProperties DEF TypeInv, Lock
<1>1. sweep.stage = "await" <=> \E i \in DOMAIN serialised' : serialised'[i].op = "seat"
  BY DEF SweepInv, Shifted
<1>2. ASSUME NEW i \in DOMAIN serialised', NEW j \in DOMAIN serialised',
             serialised'[i].op = "seat", serialised'[j].op = "seat"
      PROVE  i = j
  <2>1. i + d = j + d
    BY <1>2 DEF SweepInv, Shifted
  <2> QED BY <2>1, <1>0
<1>3. \A i \in DOMAIN serialised' : serialised'[i].op = "seat" =>
         sweep.group # {} /\ serialised'[i].member = told[Oldest(sweep.group)].member
  BY DEF SweepInv, Shifted
<1>4. ASSUME sweep.group # {} PROVE Oldest(sweep.group) \in DOMAIN told
  <2>1. sweep.group \subseteq DOMAIN told /\ DOMAIN told \subseteq Nat
    BY IdsAreNumbers DEF TypeInv, SweepShape, Book
  <2> QED BY <1>4, <2>1, OldestOne
<1>5. \A i \in DOMAIN serialised' : serialised'[i].op = "seat" =>
         sweep.group # {} /\ serialised'[i].member = told'[Oldest(sweep.group)].member
  BY <1>3, <1>4 DEF ToldSame
<1>6. \A id \in sweep.group : told'[id].member \in sweep.company
  BY DEF SweepInv, ToldSame, TypeInv, SweepShape
<1> QED BY <1>1, <1>2, <1>5, <1>6 DEF SweepInv

(* Between tasks: no sweep waits. *)
LEMMA NoneWaits ==
    ASSUME TypeInv, SweepInv, ToldSame, sweep.stage # "await", serialised' = serialised,
           sweep'.stage # "await",
           \A id \in sweep'.group : id \in DOMAIN told /\ told[id].member \in sweep'.company,
           sweep'.stage \in {"off", "start"} => sweep'.company = {}
    PROVE  SweepInv'
BY DEF SweepInv, ToldSame

(* The sweep's own task is done: it goes on with the rest of the group.     *)
LEMMA SweepServed ==
    ASSUME TypeInv, SweepInv, NEW stage, Holds("seat", stage),
           NEW table, NEW answer, Finished(table, answer), NEW oldest,
           oldest = Oldest(sweep.group)
    PROVE  /\ sweep.stage = "await" /\ oldest \in sweep.group
           /\ Task1.member = told[oldest].member
           /\ sweep' = [sweep EXCEPT !.stage = "pass", !.group = @ \ {oldest},
                                     !.table = IF @ = 0 THEN table ELSE @]
           /\ told' = Answered({oldest}, answer)
           /\ \A i \in DOMAIN serialised' : serialised'[i].op # "seat"
<1>1. /\ serialised # << >> /\ 1 \in DOMAIN serialised /\ Task1 = serialised[1]
      /\ Task1.op = "seat"
  BY Holder DEF TypeInv, Lock
<1>2. sweep.stage = "await" /\ sweep.group # {} /\ Task1.member = told[oldest].member
  BY <1>1 DEF SweepInv
<1>3. oldest \in sweep.group
  <2>1. sweep.group \subseteq DOMAIN told /\ DOMAIN told \subseteq Nat
    BY IdsAreNumbers DEF TypeInv, SweepShape, Book
  <2> QED BY <1>2, <2>1, OldestOne
<1>4. serialised' = Tail(serialised)
  BY DEF Finished
<1>5. \A i \in DOMAIN serialised' :
         i + 1 \in DOMAIN serialised /\ i + 1 # 1 /\ serialised'[i] = serialised[i + 1]
  BY <1>1, <1>4, Popped DEF TypeInv, Lock
<1>6. \A i \in DOMAIN serialised' : serialised'[i].op # "seat"
  BY <1>1, <1>5 DEF SweepInv
<1> QED BY <1>1, <1>2, <1>3, <1>6 DEF Finished

(* Of a group only the oldest ticket is taken out, or a new group is begun when
   the last one is done.                                                    *)
LEMMA GroupSteps ==
    ASSUME TypeInv, SweepInv, Next
    PROVE  \/ sweep'.group \subseteq sweep.group
           \/ PassGroup /\ Seatable(sweep'.group)
<1>1. CASE PassGroup
  <2>1. PICK group : /\ Seatable(group) => sweep'.group = group
                     /\ ~Seatable(group) => sweep'.group = sweep.group
    BY <1>1 DEF PassGroup, TypeInv, SweepShape
  <2> QED BY <1>1, <2>1
<1>2. ASSUME Run PROVE sweep'.group \subseteq sweep.group
  BY <1>2 DEF Run, NoSweep
<1>3. CASE PassStart \/ PassTemplate \/ PassSeated \/ PassEnd
  BY <1>3 DEF PassStart, PassTemplate, PassSeated, PassEnd, TypeInv, SweepShape, NoSweep
<1>4. CASE PassSeat
  BY <1>4, SweepLine DEF TypeInv, SweepShape
<1>5. ASSUME NEW table, NEW answer, Finished(table, answer) PROVE sweep'.group \subseteq sweep.group
  BY <1>5 DEF Finished, TypeInv, SweepShape
<1>6. CASE SeatRefused \/ Granted \/ Unseat
  <2>1. Finished(0, "cancelled") \/ Finished(Task1.table, "matched") \/ UNCHANGED run
    BY <1>6 DEF SeatRefused, Granted, Unseat
  <2> QED BY <2>1, <1>5 DEF run
<1>7. CASE Tick \/ Resume \/ \E m \in Members : Kick(m)
  BY <1>2, <1>7 DEF Tick, Resume, Kick
<1>8. CASE \/ QueueTask \/ SeatTask \/ BuyIn \/ SettleTask \/ LeaveTask
           \/ Drain \/ Grace \/ Expiry \/ Pause
           \/ \E m \in Members : Calls(m)
  <2>1. sweep' = sweep
    BY <1>8 DEF QueueTask, SeatTask, BuyIn, SettleTask, LeaveTask, Drain, Grace, Expiry, Pause,
               Calls, Queue, Unqueue, Offline, Online, AskSeat, Leave, Ban, run
  <2> QED BY <2>1
<1> QED BY <1>1, <1>3, <1>4, <1>6, <1>7, <1>8 DEF Next, Sweeping, LedgerTurn

(* Who is being seated together gets along, and so does any part of them. *)
LEMMA GroupsKept ==
    ASSUME TypeInv, SweepInv, GroupInv, Next
    PROVE  GroupInv'
<1>1. ToldSame
  BY ToldKept
<1>2. CASE sweep'.group \subseteq sweep.group
  BY <1>1, <1>2 DEF GroupInv, GetAlong, ToldSame, TypeInv, SweepShape
<1>3. CASE PassGroup /\ Seatable(sweep'.group)
  <2>1. sweep'.group \subseteq DOMAIN told
    BY <1>3 DEF Seatable, TypeInv, Book
  <2>2. AllCompatible(sweep'.group)
    BY <1>3 DEF Seatable
  <2> QED BY <1>1, <2>1, <2>2 DEF AllCompatible, GroupInv, GetAlong, ToldSame
<1> QED BY <1>2, <1>3, GroupSteps

(* Every step keeps the sweep and its task together. *)
LEMMA SweepKeptOn ==
    ASSUME TypeInv, LedgerInv, SweepInv, Next
    PROVE  SweepInv'
<1>0. ToldSame /\ serialised \in Seq(Task) /\ DOMAIN serialised \subseteq Nat
  BY ToldKept, LenProperties DEF TypeInv, Lock
<1>1. TypeInv'
  BY TypesOfQueue, TypesOfSweep, TypesOfLedger DEF Next, LedgerTurn, Calls
<1>2. serialised' \in Seq(Task)
  BY <1>1 DEF TypeInv, Lock
<1>3. CASE \/ Drain \/ Grace \/ Expiry \/ Pause
           \/ \E m \in Members : Unqueue(m) \/ Offline(m) \/ Online(m) \/ Ban(m)
  <2>1. serialised' = serialised /\ sweep' = sweep
    BY <1>3 DEF Drain, Grace, Expiry, Pause, Unqueue, Offline, Online, Ban, lock, run
  <2>2. Shifted(0)
    <3>1. \A i \in DOMAIN serialised : i + 0 = i /\ i - 0 = i
      BY <1>0
    <3> QED BY <2>1, <3>1 DEF Shifted
  <2> QED BY <1>0, <1>2, <2>1, <2>2, WaitsOn
<1>4. ASSUME NEW m \in Members, Queue(m) \/ AskSeat(m) \/ Leave(m) PROVE SweepInv'
  <2>1. \E op, table : op # "seat" /\ Line(op, m, table)
    BY <1>4, QueueLine, AskLine, LeaveLine
  <2>2. Shifted(0)
    BY <2>1, ShiftedByLine
  <2>3. sweep' = sweep
    BY <1>4 DEF Queue, AskSeat, Leave, run
  <2> QED BY <1>0, <1>2, <2>2, <2>3, WaitsOn
<1>5. CASE QueueTask \/ LeaveTask
  <2>1. \E op, stage : op # "seat" /\ Holds(op, stage)
    BY <1>5 DEF QueueTask, LeaveTask
  <2>2. serialised' = Tail(serialised) /\ sweep' = sweep
    BY <1>5 DEF QueueTask, LeaveTask, run
  <2> QED BY <1>0, <1>2, <2>1, <2>2, ShiftedByTail, WaitsOn
<1>6. CASE SettleTask
  <2>1. sweep' = sweep
    BY <1>6 DEF SettleTask, run
  <2> QED BY <1>0, <1>2, <1>6, <2>1, ShiftedByTurn, WaitsOn
<1>7. CASE SeatTask \/ BuyIn
  <2>1. \E op, stage : \E new \in Task : Goes(op, stage, new)
    BY <1>7, SeatTaskFacts, BuyInFacts
  <2>2. sweep' = sweep
    BY <1>7 DEF SeatTask, BuyIn, run
  <2> QED BY <1>0, <1>2, <2>1, <2>2, ShiftedByStage, WaitsOn
<1>8. ASSUME NEW op \in {"sit", "seat"}, NEW stage, Holds(op, stage), NEW table, NEW answer,
             Finished(table, answer)
      PROVE  SweepInv'
  <2>1. Task1.op = op
    BY <1>0, <1>8, Holder
  <2>2. CASE op = "sit"
    <3>1. sweep' = sweep /\ serialised' = Tail(serialised)
      BY <1>8, <2>1, <2>2 DEF Finished
    <3> QED BY <1>0, <1>2, <1>8, <2>2, <3>1, ShiftedByTail, WaitsOn
  <2>3. CASE op = "seat"
    <3>1. PICK oldest : oldest = Oldest(sweep.group)
      OBVIOUS
    <3>2. /\ sweep' = [sweep EXCEPT !.stage = "pass", !.group = @ \ {oldest},
                                    !.table = IF @ = 0 THEN table ELSE @]
          /\ \A i \in DOMAIN serialised' : serialised'[i].op # "seat"
      BY <1>8, <2>3, <3>1, SweepServed
    <3>3. /\ sweep'.stage = "pass" /\ sweep'.group \subseteq sweep.group
          /\ sweep'.company = sweep.company
      BY <3>2 DEF TypeInv, SweepShape
    <3>4. \A id \in sweep'.group : told'[id].member \in sweep'.company
      BY <1>0, <3>3 DEF SweepInv, ToldSame, TypeInv, SweepShape
    <3> QED BY <3>2, <3>3, <3>4 DEF SweepInv
  <2> QED BY <2>2, <2>3
<1>9. CASE SeatRefused \/ Granted
  <2>1. PICK op \in {"sit", "seat"} : \E stage : Holds(op, stage)
    BY <1>9 DEF SeatRefused, Granted, Seating
  <2>2. \E table, answer : Finished(table, answer)
    BY <1>9 DEF SeatRefused, Granted
  <2> QED BY <1>8, <2>1, <2>2
<1>10. CASE Unseat
  <2>1. PICK op \in {"sit", "seat"} :
            Holds(op, "unseating") /\ (Finished(0, "cancelled") \/ Settles(op))
    BY <1>10, UnseatFacts
  <2>2. CASE Settles(op)
    BY <1>0, <1>2, <2>1, <2>2, ShiftedBySettling, WaitsOn DEF Settles, run
  <2> QED BY <1>8, <2>1, <2>2
<1>11. CASE Tick \/ Resume \/ \E m \in Members : Kick(m)
  <2>1. Run /\ serialised' = serialised
    BY <1>11 DEF Tick, Resume, Kick, lock
  <2>2. CASE sweep.stage = "off"
    <3>1. sweep' = [NoSweep EXCEPT !.stage = "start"]
      BY <2>1, <2>2 DEF Run
    <3>2. sweep'.stage = "start" /\ sweep'.group = {} /\ sweep'.company = {}
      BY <3>1 DEF NoSweep
    <3> QED BY <1>0, <2>1, <2>2, <3>2, NoneWaits
  <2>3. CASE sweep.stage # "off"
    <3>1. sweep' = sweep
      BY <2>1, <2>3 DEF Run
    <3>2. Shifted(0)
      <4>1. \A i \in DOMAIN serialised : i + 0 = i /\ i - 0 = i
        BY <1>0
      <4> QED BY <2>1, <4>1 DEF Shifted
    <3> QED BY <1>0, <1>2, <3>1, <3>2, WaitsOn
  <2> QED BY <2>2, <2>3
<1>12. CASE PassStart \/ PassTemplate \/ PassSeated
  <2>1. serialised' = serialised /\ sweep.stage \in {"start", "pass"}
    BY <1>12 DEF PassStart, PassTemplate, PassSeated, lock
  <2>2. /\ sweep'.stage = "pass" /\ sweep'.group = sweep.group
        /\ sweep'.company = sweep.company \/ sweep.group = {}
    BY <1>12 DEF PassStart, PassTemplate, PassSeated, TypeInv, SweepShape
  <2>3. \A id \in sweep'.group : id \in DOMAIN told /\ told[id].member \in sweep'.company
    BY <2>2 DEF SweepInv, TypeInv, SweepShape
  <2> QED BY <1>0, <2>1, <2>2, <2>3, NoneWaits
<1>13. CASE PassGroup
  <2>1. serialised' = serialised /\ sweep.stage = "pass" /\ sweep.company = {}
    BY <1>13 DEF PassGroup, lock
  <2>2. PICK group :
            \/ /\ Seatable(group)
               /\ sweep' = [sweep EXCEPT !.groups = Tail(@), !.group = group, !.table = 0,
                                         !.company = {told[id].member : id \in group}]
            \/ sweep' = [sweep EXCEPT !.groups = Tail(@)]
    BY <1>13 DEF PassGroup
  <2>3. CASE /\ Seatable(group)
             /\ sweep' = [sweep EXCEPT !.groups = Tail(@), !.group = group, !.table = 0,
                                       !.company = {told[id].member : id \in group}]
    <3>1. PICK company : company = {told[id].member : id \in group}
      OBVIOUS
    <3>2. sweep'.stage = "pass" /\ sweep'.group = group /\ sweep'.company = company
      BY <2>1, <2>3, <3>1 DEF TypeInv, SweepShape
    <3>3. group \subseteq DOMAIN told
      BY <2>3 DEF Seatable, TypeInv, Book
    <3>4. \A id \in group : told[id].member \in company
      BY <3>1
    <3> QED BY <1>0, <2>1, <3>2, <3>3, <3>4, NoneWaits
  <2>4. CASE sweep' = [sweep EXCEPT !.groups = Tail(@)]
    <3>1. sweep'.stage = "pass" /\ sweep'.group = sweep.group /\ sweep'.company = sweep.company
      BY <2>1, <2>4 DEF TypeInv, SweepShape
    <3>2. \A id \in sweep'.group : id \in DOMAIN told /\ told[id].member \in sweep'.company
      BY <3>1 DEF SweepInv, TypeInv, SweepShape
    <3> QED BY <1>0, <2>1, <3>1, <3>2, NoneWaits
  <2> QED BY <2>2, <2>3, <2>4
<1>14. CASE PassSeat
  <2>1. PICK oldest : oldest = Oldest(sweep.group)
    OBVIOUS
  <2>2. sweep.stage = "pass" /\ told' = told /\ sweep.group # {}
    BY <1>14 DEF PassSeat, book
  <2>3. CASE Line("seat", told[oldest].member, sweep.table)
             /\ sweep' = [sweep EXCEPT !.stage = "await"]
    <3>1. sweep'.stage = "await" /\ sweep'.group = sweep.group /\ sweep'.company = sweep.company
      BY <2>3 DEF TypeInv, SweepShape
    <3>2. PICK task \in Task : /\ serialised' = Append(serialised, task)
                               /\ task.op = "seat" /\ task.member = told[oldest].member
      BY <2>3 DEF Line
    <3>3. /\ Len(serialised) + 1 \in DOMAIN serialised'
          /\ serialised'[Len(serialised) + 1] = task
          /\ \A i \in DOMAIN serialised : serialised'[i] = serialised[i]
          /\ \A i \in DOMAIN serialised' : i \in DOMAIN serialised \/ i = Len(serialised) + 1
      BY <1>0, <3>2, Lined
    <3>4. \A i \in DOMAIN serialised : serialised[i].op # "seat"
      BY <2>2 DEF SweepInv
    <3>5. \A i \in DOMAIN serialised' : serialised'[i].op = "seat" => i = Len(serialised) + 1
      BY <3>3, <3>4
    <3>6. \A i \in DOMAIN serialised' : serialised'[i].op = "seat" =>
             sweep'.group # {} /\ serialised'[i].member = told'[Oldest(sweep'.group)].member
      BY <2>1, <2>2, <3>1, <3>2, <3>3, <3>5
    <3>7. sweep'.stage = "await" <=> \E i \in DOMAIN serialised' : serialised'[i].op = "seat"
      BY <3>1, <3>2, <3>3
    <3>8. \A id \in sweep'.group : told'[id].member \in sweep'.company
      BY <2>2, <3>1 DEF SweepInv
    <3> QED BY <3>1, <3>5, <3>6, <3>7, <3>8 DEF SweepInv
  <2>4. CASE serialised' = serialised /\ sweep' = [sweep EXCEPT !.group = @ \ {oldest}]
    <3>1. sweep'.stage = "pass" /\ sweep'.group \subseteq sweep.group
          /\ sweep'.company = sweep.company
      BY <2>2, <2>4 DEF TypeInv, SweepShape
    <3>2. \A id \in sweep'.group : id \in DOMAIN told /\ told[id].member \in sweep'.company
      BY <3>1 DEF SweepInv, TypeInv, SweepShape
    <3> QED BY <1>0, <2>2, <2>4, <3>1, <3>2, NoneWaits
  <2> QED BY <1>14, <2>1, <2>3, <2>4, SweepLine
<1>15. CASE PassEnd
  <2>1. serialised' = serialised /\ sweep.stage = "pass"
        /\ sweep' = [NoSweep EXCEPT !.stage = IF wanted THEN "start" ELSE "off"]
    BY <1>15 DEF PassEnd, lock
  <2>2. sweep'.stage \in {"start", "off"} /\ sweep'.group = {} /\ sweep'.company = {}
    BY <2>1 DEF NoSweep
  <2> QED BY <1>0, <2>1, <2>2, NoneWaits
<1> QED BY <1>3, <1>4, <1>5, <1>6, <1>7, <1>9, <1>10, <1>11, <1>12, <1>13, <1>14, <1>15
     DEF Next, Sweeping, LedgerTurn, Calls

-----------------------------------------------------------------------------
(* One answer. *)

(* An issued ticket has the answers it should.                              *)
Right(id) ==
    LET answers == told[id].answers
    IN  IF id \in Pending THEN answers = << >>
        ELSE Len(answers) = 1 \/ (answers = << >> /\ told[id].member \notin active)

(* A ticket at a time. *)
LEMMA RightBook ==
    OneAnswer <=> \A id \in DOMAIN told : Right(id)
BY DEF OneAnswer, Right

(* The first answer. *)
LEMMA FirstAnswer ==
    ASSUME NEW answer \in {"matched", "cancelled"}
    PROVE  Len(Append(<< >>, answer)) = 1
BY AppendProperties, EmptySeq

(* Nothing is answered: the tickets are where they were.                    *)
LEMMA BookStill ==
    ASSUME TypeInv, BookInv, told' = told, Queued' = Queued, sweep'.group = sweep.group,
           active' \subseteq active, \A t, u \in tickets' : t.id = u.id => t = u
    PROVE  BookInv'
BY DEF BookInv, OneAnswer, Pending

(* Tickets are answered, and leave the queue or the group.                  *)
LEMMA BookAnswered ==
    ASSUME TypeInv, BookInv, NEW ids, NEW answer \in {"matched", "cancelled"},
           ids \subseteq Pending, told' = Answered(ids, answer),
           Queued' = Queued \ ids, sweep'.group = sweep.group \ ids, active' = active,
           \A t, u \in tickets' : t.id = u.id => t = u
    PROVE  BookInv'
<1>1. /\ DOMAIN told' = DOMAIN told
      /\ \A id \in DOMAIN told :
            /\ told'[id].member = told[id].member
            /\ id \notin ids => told'[id] = told[id]
            /\ id \in ids => told'[id].answers = Append(told[id].answers, answer)
  BY AnswerFacts DEF TypeInv, Book
<1>2. Pending' = Pending \ ids
  BY DEF Pending
<1>3. ASSUME NEW id \in DOMAIN told' PROVE Right(id)'
  <2>1. Right(id)
    BY <1>1, RightBook DEF BookInv
  <2>2. CASE id \in ids
    <3>1. told[id].answers = << >>
      BY <2>1, <2>2 DEF Right
    <3>2. Len(told'[id].answers) = 1
      BY <1>1, <2>2, <3>1, FirstAnswer
    <3> QED BY <1>2, <2>2, <3>2 DEF Right
  <2>3. CASE id \notin ids
    <3>1. told'[id] = told[id] /\ (id \in Pending' <=> id \in Pending)
      BY <1>1, <1>2, <2>3
    <3> QED BY <2>1, <3>1 DEF Right
  <2> QED BY <2>2, <2>3
<1>4. OneAnswer'
  BY <1>3 DEF OneAnswer, Right
<1> QED BY <1>4 DEF BookInv

(* A ticket goes on waiting in another state.                               *)
LEMMA BookBecomes ==
    ASSUME TypeInv, BookInv, NEW t \in tickets, NEW u, u.id = t.id, Becomes(t, u),
           told' = told, sweep' = sweep, active' = active
    PROVE  BookInv'
<1>1. Queued' = Queued
  BY BecomesFacts
<1>2. ASSUME NEW v \in tickets', NEW w \in tickets', v.id = w.id PROVE v = w
  <2>1. (v = u \/ v \in tickets \ {t}) /\ (w = u \/ w \in tickets \ {t})
    BY BecomesFacts
  <2> QED BY <1>2, <2>1 DEF BookInv
<1> QED BY <1>1, <1>2, BookStill

(* Every step keeps the book: what leaves the queue or the group is answered. *)
LEMMA BookKeptOn ==
    ASSUME TypeInv, LedgerInv, SweepInv, BookInv, Next
    PROVE  BookInv'
<1>0. \A t, u \in tickets : t.id = u.id => t = u
  BY DEF BookInv
<1>1. CASE \/ PassTemplate \/ SeatTask \/ BuyIn \/ SettleTask \/ LeaveTask \/ PassSeated \/ Pause
           \/ \E m \in Members : Queue(m) \/ AskSeat(m) \/ Leave(m) \/ Ban(m)
  <2>1. tickets' = tickets /\ told' = told /\ sweep'.group = sweep.group /\ active' \subseteq active
    BY <1>1 DEF PassTemplate, SeatTask, BuyIn, SettleTask, LeaveTask, PassSeated, Pause, Queue,
               AskSeat, Leave, Ban, book, run, people, TypeInv, SweepShape
  <2> QED BY <1>0, <2>1, BookStill DEF Queued
<1>2. CASE \/ PassEnd \/ Tick \/ Resume \/ \E m \in Members : Kick(m)
  <2>1. tickets' = tickets /\ told' = told /\ active' = active
    BY <1>2 DEF PassEnd, Tick, Resume, Kick, book, people
  <2>2. sweep' = sweep \/ (sweep.company = {} /\ sweep'.group = {})
    <3>1. CASE PassEnd
      BY <3>1 DEF PassEnd, NoSweep
    <3>2. CASE Run
      <4>1. CASE sweep.stage = "off"
        BY <3>2, <4>1 DEF Run, NoSweep, SweepInv
      <4>2. CASE sweep.stage # "off"
        BY <3>2, <4>2 DEF Run
      <4> QED BY <4>1, <4>2
    <3> QED BY <1>2, <3>1, <3>2 DEF Tick, Resume, Kick
  <2>3. sweep'.group = sweep.group
    BY <2>2 DEF SweepInv
  <2> QED BY <1>0, <2>1, <2>3, BookStill DEF Queued
<1>3. ASSUME NEW ids, ids \subseteq Queued, Drop(ids), sweep' = sweep, active' = active
      PROVE  BookInv'
  <2>1. tickets' = {t \in tickets : t.id \notin ids} /\ told' = Answered(ids, "cancelled")
    BY <1>3 DEF Drop
  <2>2. Queued' = Queued \ ids
    BY <2>1 DEF Queued
  <2>3. sweep'.group = sweep.group \ ids /\ ids \subseteq Pending
    BY <1>3 DEF BookInv, Pending
  <2>4. \A t, u \in tickets' : t.id = u.id => t = u
    BY <1>0, <2>1
  <2> QED BY <1>3, <2>1, <2>2, <2>3, <2>4, BookAnswered
<1>4. CASE Drain
  <2>1. Drop(Queued) /\ UNCHANGED <<people, run>>
    BY <1>4 DEF Drain
  <2> QED BY <2>1, <1>3 DEF people, run
<1>5. ASSUME NEW m \in Members, Unqueue(m) PROVE BookInv'
  <2>1. PICK t \in Of(m) : Drop({t.id})
    BY <1>5 DEF Unqueue
  <2>2. {t.id} \subseteq Queued /\ UNCHANGED <<people, run>>
    BY <1>5, <2>1 DEF Of, Queued, Unqueue
  <2> QED BY <2>1, <2>2, <1>3 DEF people, run
<1>6. CASE Grace \/ Expiry \/ \E m \in Members : Offline(m) \/ Online(m)
  <2>1. told' = told /\ sweep' = sweep /\ active' = active
    BY <1>6 DEF Grace, Expiry, Offline, Online, run, people
  <2>2. PICK t \in tickets : \/ Becomes(t, [t EXCEPT !.away = "over"])
                             \/ Becomes(t, [t EXCEPT !.old = TRUE])
                             \/ Becomes(t, [t EXCEPT !.away = "counting"])
                             \/ Becomes(t, [t EXCEPT !.away = "no"])
    BY <1>6 DEF Grace, Expiry, Offline, Online, Of
  <2>3. PICK u : Becomes(t, u) /\ (\/ u = [t EXCEPT !.away = "over"]
                                   \/ u = [t EXCEPT !.old = TRUE]
                                   \/ u = [t EXCEPT !.away = "counting"]
                                   \/ u = [t EXCEPT !.away = "no"])
    BY <2>2
  <2>4. u.id = t.id
    <3>1. t \in Ticket
      BY DEF TypeInv, Book
    <3> QED BY <2>3, <3>1 DEF Ticket
  <2> QED BY <2>1, <2>3, <2>4, BookBecomes
<1>7. CASE PassStart
  <2>1. PICK gone : gone = {t \in tickets : Retired(t)}
    OBVIOUS
  <2>2. PICK ids : ids = {t.id : t \in gone}
    OBVIOUS
  <2>3. /\ tickets' = {[t EXCEPT !.seen = TRUE] : t \in tickets \ gone}
        /\ told' = Answered(ids, "cancelled")
        /\ sweep'.group = sweep.group /\ active' = active
    BY <1>7, <2>1, <2>2 DEF PassStart, people, TypeInv, SweepShape
  <2>4. ASSUME NEW u \in tickets'
        PROVE  \E t \in tickets \ gone : u = [t EXCEPT !.seen = TRUE] /\ u.id = t.id
    <3>1. PICK t \in tickets \ gone : u = [t EXCEPT !.seen = TRUE]
      BY <2>3
    <3>2. t \in Ticket
      BY DEF TypeInv, Book
    <3> QED BY <3>1, <3>2 DEF Ticket
  <2>5. ASSUME NEW t \in tickets \ gone PROVE \E u \in tickets' : u.id = t.id
    <3>1. PICK u : u = [t EXCEPT !.seen = TRUE]
      OBVIOUS
    <3>2. t \in Ticket
      BY DEF TypeInv, Book
    <3>3. u.id = t.id /\ u \in tickets'
      BY <2>3, <3>1, <3>2 DEF Ticket
    <3> QED BY <3>3
  <2>6. \A t, u \in tickets' : t.id = u.id => t = u
    BY <2>4, <1>0
  <2>7. \A id : id \in Queued' <=> \E t \in tickets \ gone : t.id = id
    BY <2>4, <2>5 DEF Queued
  <2>8. \A id : id \in ids <=> \E t \in gone : t.id = id
    BY <2>2
  <2>9. gone \subseteq tickets
    BY <2>1
  <2>10. Queued' = Queued \ ids
    <3>1. ASSUME NEW id \in Queued' PROVE id \in Queued \ ids
      BY <2>7, <2>8, <2>9, <1>0 DEF Queued
    <3>2. ASSUME NEW id \in Queued \ ids PROVE id \in Queued'
      BY <2>7, <2>8 DEF Queued
    <3> QED BY <3>1, <3>2
  <2>11. ids \subseteq Queued
    BY <2>8, <2>9 DEF Queued
  <2>12. sweep'.group = sweep.group \ ids /\ ids \subseteq Pending
    BY <2>3, <2>11 DEF BookInv, Pending
  <2> QED BY <2>3, <2>6, <2>10, <2>12, BookAnswered
<1>8. CASE PassGroup
  <2>1. PICK group :
            \/ /\ Seatable(group)
               /\ tickets' = {t \in tickets : t.id \notin group}
               /\ sweep' = [sweep EXCEPT !.groups = Tail(@), !.group = group, !.table = 0,
                                         !.company = {told[id].member : id \in group}]
            \/ sweep' = [sweep EXCEPT !.groups = Tail(@)] /\ tickets' = tickets
    BY <1>8 DEF PassGroup
  <2>2. told' = told /\ active' = active /\ sweep.group = {}
    BY <1>8 DEF PassGroup, people, SweepInv
  <2>3. CASE /\ Seatable(group)
             /\ tickets' = {t \in tickets : t.id \notin group}
             /\ sweep' = [sweep EXCEPT !.groups = Tail(@), !.group = group, !.table = 0,
                                       !.company = {told[id].member : id \in group}]
    <3>1. sweep'.group = group
      BY <2>3 DEF TypeInv, SweepShape
    <3>2. Queued' = Queued \ group
      BY <2>3 DEF Queued
    <3>3. group \subseteq Queued
      BY <2>3 DEF Seatable
    <3>4. Pending' = Pending
      BY <2>2, <3>1, <3>2, <3>3 DEF Pending
    <3>5. OneAnswer'
      BY <2>2, <3>4 DEF OneAnswer, BookInv
    <3>6. \A t, u \in tickets' : t.id = u.id => t = u
      BY <1>0, <2>3
    <3> QED BY <3>1, <3>2, <3>5, <3>6 DEF BookInv
  <2>4. CASE sweep' = [sweep EXCEPT !.groups = Tail(@)] /\ tickets' = tickets
    <3>1. sweep'.group = sweep.group
      BY <2>4 DEF TypeInv, SweepShape
    <3> QED BY <1>0, <2>2, <2>4, <3>1, BookStill DEF Queued
  <2> QED BY <2>1, <2>3, <2>4
<1>9. CASE PassSeat
  <2>1. PICK oldest : oldest = Oldest(sweep.group)
    OBVIOUS
  <2>2. tickets' = tickets /\ told' = told /\ active' = active
    BY <1>9 DEF PassSeat, book, people
  <2>3. CASE sweep' = [sweep EXCEPT !.stage = "await"]
    <3>1. sweep'.group = sweep.group
      BY <2>3 DEF TypeInv, SweepShape
    <3> QED BY <1>0, <2>2, <3>1, BookStill DEF Queued
  <2>4. CASE oldest \in sweep.group /\ told[oldest].member \notin active
             /\ sweep' = [sweep EXCEPT !.group = @ \ {oldest}]
    <3>1. sweep'.group = sweep.group \ {oldest} /\ Queued' = Queued
      BY <2>2, <2>4 DEF TypeInv, SweepShape, Queued
    <3>2. Pending' = Pending \ {oldest}
      BY <2>4, <3>1 DEF Pending, BookInv
    <3>3. ASSUME NEW id \in DOMAIN told' PROVE Right(id)'
      <4>1. Right(id)
        BY <2>2, RightBook DEF BookInv
      <4>2. oldest \in Pending
        BY <2>4 DEF Pending
      <4> QED BY <2>2, <2>4, <3>2, <4>1, <4>2 DEF Right
    <3>4. OneAnswer'
      BY <3>3 DEF OneAnswer, Right
    <3> QED BY <1>0, <2>2, <3>1, <3>4 DEF BookInv
  <2> QED BY <1>9, <2>1, <2>3, <2>4, SweepLine
<1>10. CASE QueueTask
  <2>1. PICK mine : mine = Of(Task1.member)
    OBVIOUS
  <2>2. PICK ids : ids = {t.id : t \in mine}
    OBVIOUS
  <2>3. PICK kept : kept = Answered(ids, "cancelled")
    OBVIOUS
  <2>4. PICK new : new = [member |-> Task1.member, crit |-> Task1.crit, answers |-> << >>]
    OBVIOUS
  <2>5. PICK made : made = [id |-> Len(told) + 1, away |-> "no", old |-> FALSE, seen |-> FALSE]
    OBVIOUS
  <2>6. /\ tickets' = (tickets \ mine) \cup {made} /\ told' = Append(kept, new)
        /\ sweep' = sweep /\ active' = active
    BY <1>10, <2>1, <2>2, <2>3, <2>4, <2>5 DEF QueueTask, Task1, run, people
  <2>7. new \in Issued /\ new.answers = << >>
    <3>1. Task1 \in Task
      BY <1>10, Holder DEF QueueTask, TypeInv, Lock
    <3> QED BY <2>4, <3>1 DEF Task, Issued
  <2>8. /\ Len(told) \in Nat /\ kept \in Seq(Issued) /\ Len(kept) = Len(told)
        /\ DOMAIN told = 1 .. Len(told) /\ DOMAIN kept = DOMAIN told
        /\ \A id \in DOMAIN told :
              /\ kept[id].member = told[id].member
              /\ id \notin ids => kept[id] = told[id]
              /\ id \in ids => kept[id].answers = Append(told[id].answers, "cancelled")
    BY <2>3, AnswerFacts, LenProperties DEF TypeInv, Book
  <2>9. /\ \A id \in DOMAIN told : told'[id] = kept[id]
        /\ told'[Len(told) + 1] = new
        /\ \A id \in DOMAIN told' : id \in DOMAIN told \/ id = Len(told) + 1
    BY <2>6, <2>7, <2>8, AppendFacts
  <2>10. made.id = Len(told) + 1 /\ Len(told) + 1 \notin DOMAIN told
    BY <2>5, <2>8
  <2>11. mine \subseteq tickets
    BY <2>1 DEF Of
  <2>12. \A t \in tickets : t.id \in ids <=> t \in mine
    BY <2>2, <2>11, <1>0
  <2>13. ids \subseteq Queued /\ Queued \subseteq DOMAIN told
    BY <2>2, <2>11 DEF Queued, TypeInv, Book
  <2>14. \A id : id \in Queued' <=> id \in Queued \ ids \/ id = Len(told) + 1
    <3>1. \A id : id \in Queued' <=> \E t \in tickets' : t.id = id
      BY DEF Queued
    <3>2. \A id : id \in Queued <=> \E t \in tickets : t.id = id
      BY DEF Queued
    <3> QED BY <2>6, <2>10, <2>12, <3>1, <3>2
  <2>15. \A t, u \in tickets' : t.id = u.id => t = u
    <3>1. \A t \in tickets \ mine : t.id \in DOMAIN told
      BY <2>13 DEF Queued
    <3> QED BY <1>0, <2>6, <2>10, <3>1
  <2>16. sweep.group \subseteq DOMAIN told /\ sweep.group \cap Queued = {}
    BY DEF TypeInv, SweepShape, BookInv
  <2>17. sweep'.group \cap Queued' = {}
    BY <2>6, <2>10, <2>14, <2>16
  <2>18. ASSUME NEW id \in DOMAIN told' PROVE Right(id)'
    <3>1. CASE id \in DOMAIN told
      <4>1. Right(id)
        BY <3>1, RightBook DEF BookInv
      <4>2. id \in Pending' <=> id \in Pending \ ids
        BY <2>6, <2>10, <2>13, <2>14, <2>16, <3>1 DEF Pending
      <4>3. CASE id \in ids
        <5>1. told[id].answers = << >>
          BY <2>13, <4>1, <4>3 DEF Right, Pending
        <5>2. Len(told'[id].answers) = 1
          BY <2>8, <2>9, <3>1, <4>3, <5>1, FirstAnswer
        <5> QED BY <4>2, <4>3, <5>2 DEF Right
      <4>4. CASE id \notin ids
        <5>1. told'[id] = told[id]
          BY <2>8, <2>9, <3>1, <4>4
        <5> QED BY <2>6, <4>1, <4>2, <4>4, <5>1 DEF Right
      <4> QED BY <4>3, <4>4
    <3>2. CASE id = Len(told) + 1
      <4>1. id \in Pending'
        BY <2>14, <3>2 DEF Pending
      <4>2. told'[id].answers = << >>
        BY <2>7, <2>9, <3>2
      <4> QED BY <4>1, <4>2 DEF Right
    <3> QED BY <2>9, <3>1, <3>2
  <2>19. OneAnswer'
    BY <2>18 DEF OneAnswer, Right
  <2> QED BY <2>15, <2>17, <2>19 DEF BookInv
<1>11. ASSUME NEW op \in {"sit", "seat"}, NEW stage, Holds(op, stage), NEW table,
              NEW answer \in {"matched", "cancelled"}, Finished(table, answer)
       PROVE  BookInv'
  <2>1. Task1.op = op
    BY <1>11, Holder DEF TypeInv, Lock
  <2>2. tickets' = tickets /\ active' = active
    BY <1>11 DEF Finished
  <2>3. CASE op = "sit"
    <3>1. sweep' = sweep /\ told' = told
      BY <1>11, <2>1, <2>3 DEF Finished
    <3> QED BY <1>0, <2>2, <3>1, BookStill DEF Queued
  <2>4. CASE op = "seat"
    <3>1. PICK oldest : oldest = Oldest(sweep.group)
      OBVIOUS
    <3>2. /\ oldest \in sweep.group /\ told' = Answered({oldest}, answer)
          /\ sweep' = [sweep EXCEPT !.stage = "pass", !.group = @ \ {oldest},
                                    !.table = IF @ = 0 THEN table ELSE @]
      BY <1>11, <2>4, <3>1, SweepServed
    <3>3. sweep'.group = sweep.group \ {oldest}
      BY <3>2 DEF TypeInv, SweepShape
    <3>4. Queued' = Queued \ {oldest} /\ {oldest} \subseteq Pending
      BY <2>2, <3>2 DEF Queued, BookInv, Pending
    <3> QED BY <1>0, <2>2, <3>2, <3>3, <3>4, BookAnswered
  <2> QED BY <2>3, <2>4
<1>12. CASE SeatRefused \/ Granted
  <2>1. PICK op \in {"sit", "seat"} : \E stage : Holds(op, stage)
    BY <1>12 DEF SeatRefused, Granted, Seating
  <2>2. Finished(0, "cancelled") \/ Finished(Task1.table, "matched")
    BY <1>12 DEF SeatRefused, Granted
  <2> QED BY <1>11, <2>1, <2>2
<1>13. CASE Unseat
  <2>1. PICK op \in {"sit", "seat"} :
            Holds(op, "unseating") /\ (Finished(0, "cancelled") \/ Settles(op))
    BY <1>13, UnseatFacts
  <2>2. CASE Settles(op)
    <3>1. UNCHANGED <<book, run, active>>
      BY <2>2 DEF Settles
    <3> QED BY <1>0, <3>1, BookStill DEF Queued, book, run
  <2> QED BY <1>11, <2>1, <2>2
<1> QED BY <1>1, <1>2, <1>4, <1>5, <1>6, <1>7, <1>8, <1>9, <1>10, <1>12, <1>13
     DEF Next, Sweeping, LedgerTurn, Calls

-----------------------------------------------------------------------------
(* No ticket is missed. *)

(* A club whose ledger waits for itself stays so.                           *)
LEMMA StuckStays ==
    ASSUME TypeInv, LedgerInv, Next, Stuck
    PROVE  Stuck'
<1>1. ASSUME LedgerTurn PROVE FALSE
  <2>1. \E op, stage : Holds(op, stage) /\ stage # "settling"
    BY <1>1, UnseatFacts DEF LedgerTurn, QueueTask, SeatTask, SeatRefused, BuyIn, Granted, SettleTask,
                             LeaveTask, Seating
  <2> QED BY <2>1, StuckFirst
<1>2. CASE serialised' = serialised
  BY <1>2 DEF Stuck
<1>3. ASSUME NEW op, NEW m, NEW table, Line(op, m, table) PROVE Stuck'
  <2>1. \A i \in DOMAIN serialised : i \in DOMAIN serialised' /\ serialised'[i] = serialised[i]
    BY <1>3, Lined DEF Line, TypeInv, Lock
  <2> QED BY <2>1 DEF Stuck
<1>4. ASSUME NEW m \in Members, Queue(m) \/ AskSeat(m) \/ Leave(m) PROVE Stuck'
  BY <1>3, <1>4, QueueLine, AskLine, LeaveLine
<1>5. CASE PassSeat
  BY <1>2, <1>3, <1>5, SweepLine
<1>6. CASE \/ PassStart \/ PassTemplate \/ PassGroup \/ PassSeated \/ PassEnd
           \/ Tick \/ Drain \/ Grace \/ Expiry \/ Pause \/ Resume
           \/ \E m \in Members : Unqueue(m) \/ Offline(m) \/ Online(m) \/ Ban(m) \/ Kick(m)
  <2>1. serialised' = serialised
    BY <1>6 DEF PassStart, PassTemplate, PassGroup, PassSeated, PassEnd, Tick, Drain, Grace, Expiry,
               Pause, Resume, Unqueue, Offline, Online, Ban, Kick, lock
  <2> QED BY <1>2, <2>1
<1> QED BY <1>1, <1>4, <1>5, <1>6 DEF Next, Sweeping, Calls

(* Who waits for the ledger otherwise. *)
Waiting ==
    \A i \in DOMAIN serialised : serialised[i].op # "seat" =>
        /\ call[serialised[i].member] = "ledger"
        /\ \A j \in DOMAIN serialised :
              serialised[j].op # "seat" /\ serialised[j].member = serialised[i].member => i = j

(* Whoever calls waits for that call, unless the ledger is stuck. *)
LEMMA WaitingNext ==
    ASSUME TypeInv, LedgerInv, Waiting, Next
    PROVE  Waiting' \/ Stuck'
<1>0. serialised \in Seq(Task) /\ \A i \in DOMAIN serialised : serialised[i].member \in Members
  <2>1. serialised \in Seq(Task)
    BY DEF TypeInv, Lock
  <2>2. \A i \in DOMAIN serialised : serialised[i] \in Task
    BY <2>1, SeqEntries
  <2> QED BY <2>1, <2>2 DEF Task
<1>1. ASSUME NEW m \in Members, NEW op, NEW table, Line(op, m, table), call[m] = "none",
             call' = [call EXCEPT ![m] = "ledger"]
      PROVE  Waiting'
  <2>1. PICK task \in Task : serialised' = Append(serialised, task) /\ task.member = m
    BY <1>1 DEF Line
  <2>2. /\ \A i \in DOMAIN serialised : serialised'[i] = serialised[i]
        /\ \A i \in DOMAIN serialised' : i \in DOMAIN serialised \/ i = Len(serialised) + 1
        /\ serialised'[Len(serialised) + 1] = task
    BY <1>0, <2>1, Lined
  <2>3. \A i \in DOMAIN serialised : serialised[i].op # "seat" => serialised[i].member # m
    BY <1>1 DEF Waiting
  <2>4. ASSUME NEW i \in DOMAIN serialised', serialised'[i].op # "seat"
        PROVE  call'[serialised'[i].member] = "ledger"
    <3>1. CASE i \in DOMAIN serialised
      <4>1. call[serialised[i].member] = "ledger" /\ serialised[i].member \in Members
        BY <1>0, <2>2, <2>4, <3>1 DEF Waiting
      <4> QED BY <1>1, <2>2, <3>1, <4>1 DEF TypeInv, Lock
    <3>2. CASE i = Len(serialised) + 1
      BY <1>1, <2>1, <2>2, <3>2 DEF TypeInv, Lock
    <3> QED BY <2>2, <3>1, <3>2
  <2>5. ASSUME NEW i \in DOMAIN serialised', NEW j \in DOMAIN serialised',
               serialised'[i].op # "seat", serialised'[j].op # "seat",
               serialised'[j].member = serialised'[i].member
        PROVE  i = j
    BY <2>1, <2>2, <2>3, <2>5 DEF Waiting
  <2> QED BY <2>4, <2>5 DEF Waiting
<1>2. ASSUME NEW m \in Members, Queue(m) \/ AskSeat(m) \/ Leave(m) PROVE Waiting'
  <2>1. \E op, table : Line(op, m, table)
    BY <1>2, QueueLine, AskLine, LeaveLine
  <2>2. call[m] = "none" /\ call' = [call EXCEPT ![m] = "ledger"]
    BY <1>2 DEF Queue, AskSeat, Leave
  <2> QED BY <1>1, <2>1, <2>2
<1>3. CASE PassSeat
  <2>1. call' = call
    BY <1>3 DEF PassSeat
  <2>2. PICK m, table : Line("seat", m, table) \/ serialised' = serialised
    BY <1>3, SweepLine
  <2>3. CASE Line("seat", m, table)
    <3>1. PICK task \in Task : serialised' = Append(serialised, task) /\ task.op = "seat"
      BY <2>3 DEF Line
    <3>2. /\ \A i \in DOMAIN serialised : serialised'[i] = serialised[i]
          /\ \A i \in DOMAIN serialised' : i \in DOMAIN serialised \/ serialised'[i] = task
      BY <1>0, <3>1, Lined
    <3> QED BY <2>1, <3>1, <3>2 DEF Waiting
  <2>4. CASE serialised' = serialised
    BY <2>1, <2>4 DEF Waiting
  <2> QED BY <2>2, <2>3, <2>4
<1>4. CASE \/ PassStart \/ PassTemplate \/ PassGroup \/ PassSeated \/ PassEnd
           \/ Tick \/ Drain \/ Grace \/ Expiry \/ Pause \/ Resume
           \/ \E m \in Members : Unqueue(m) \/ Offline(m) \/ Online(m) \/ Ban(m)
  <2>1. serialised' = serialised /\ call' = call
    BY <1>4 DEF PassStart, PassTemplate, PassGroup, PassSeated, PassEnd, Tick, Drain, Grace, Expiry,
               Pause, Resume, Unqueue, Offline, Online, Ban, lock
  <2> QED BY <2>1 DEF Waiting
<1>5. ASSUME NEW m \in Members, Kick(m) PROVE Waiting'
  <2>1. serialised' = serialised /\ call[m] = "kick" /\ call' = [call EXCEPT ![m] = "none"]
    BY <1>5 DEF Kick
  <2>2. ASSUME NEW i \in DOMAIN serialised, serialised[i].op # "seat"
        PROVE  call'[serialised[i].member] = "ledger"
    <3>1. call[serialised[i].member] = "ledger" /\ serialised[i].member \in Members
      BY <1>0, <2>2 DEF Waiting
    <3> QED BY <2>1, <3>1 DEF TypeInv, Lock
  <2> QED BY <2>1, <2>2 DEF Waiting
<1>6. ASSUME NEW op, NEW stage, Holds(op, stage), serialised' = Tail(serialised),
             \/ call' = call
             \/ op # "seat" /\ \E x : call' = [call EXCEPT ![Task1.member] = x]
      PROVE  Waiting'
  <2>1. serialised # << >> /\ 1 \in DOMAIN serialised /\ Task1 = serialised[1] /\ Task1.op = op
    BY <1>0, <1>6, Holder
  <2>2. \A i \in DOMAIN serialised' :
           i + 1 \in DOMAIN serialised /\ i + 1 # 1 /\ serialised'[i] = serialised[i + 1]
    BY <1>0, <1>6, <2>1, Popped
  <2>3. ASSUME NEW i \in DOMAIN serialised', serialised'[i].op # "seat"
        PROVE  call'[serialised'[i].member] = "ledger"
    <3>1. serialised[i + 1].op # "seat" /\ i + 1 \in DOMAIN serialised /\ i + 1 # 1
      BY <2>2, <2>3
    <3>2. call[serialised[i + 1].member] = "ledger" /\ serialised[i + 1].member \in Members
      BY <1>0, <3>1 DEF Waiting
    <3>3. op # "seat" => serialised[i + 1].member # Task1.member
      BY <2>1, <3>1 DEF Waiting
    <3>4. call'[serialised[i + 1].member] = call[serialised[i + 1].member]
      BY <1>6, <3>2, <3>3 DEF TypeInv, Lock
    <3> QED BY <2>2, <3>2, <3>4
  <2>4. ASSUME NEW i \in DOMAIN serialised', NEW j \in DOMAIN serialised',
               serialised'[i].op # "seat", serialised'[j].op # "seat",
               serialised'[j].member = serialised'[i].member
        PROVE  i = j
    <3>1. i + 1 = j + 1
      BY <2>2, <2>4 DEF Waiting
    <3>2. serialised' \in Seq(Task)
      BY <1>0, <1>6, <2>1, Popped
    <3>3. DOMAIN serialised' \subseteq Nat
      BY <3>2, LenProperties
    <3> QED BY <3>1, <3>3
  <2> QED BY <2>3, <2>4 DEF Waiting
<1>7. CASE QueueTask \/ LeaveTask
  <2>1. PICK op \in {"queue", "leave"} : Holds(op, "wait")
    BY <1>7 DEF QueueTask, LeaveTask
  <2>2. serialised' = Tail(serialised) /\ \E x : call' = [call EXCEPT ![Task1.member] = x]
    BY <1>7 DEF QueueTask, LeaveTask, Task1
  <2> QED BY <1>6, <2>1, <2>2
<1>8. ASSUME NEW op \in {"sit", "seat"}, NEW stage, Holds(op, stage), NEW table, NEW answer,
             Finished(table, answer)
      PROVE  Waiting'
  <2>1. Task1.op = op
    BY <1>0, <1>8, Holder
  <2>2. serialised' = Tail(serialised)
    BY <1>8 DEF Finished
  <2>3. \/ call' = call
        \/ op # "seat" /\ \E x : call' = [call EXCEPT ![Task1.member] = x]
    BY <1>8, <2>1 DEF Finished
  <2> QED BY <1>6, <1>8, <2>2, <2>3
<1>9. CASE SeatRefused \/ Granted
  <2>1. PICK op \in {"sit", "seat"} : \E stage : Holds(op, stage)
    BY <1>9 DEF SeatRefused, Granted, Seating
  <2>2. \E table, answer : Finished(table, answer)
    BY <1>9 DEF SeatRefused, Granted
  <2> QED BY <1>8, <2>1, <2>2
<1>10. CASE Unseat
  <2>1. PICK op \in {"sit", "seat"} :
            Holds(op, "unseating") /\ (Finished(0, "cancelled") \/ Settles(op))
    BY <1>10, UnseatFacts
  <2> QED BY <1>8, <2>1 DEF Settles
<1>11. CASE SeatTask \/ BuyIn
  <2>1. PICK op \in {"sit", "seat"}, new \in Task : \E stage : Goes(op, stage, new)
    BY <1>11, SeatTaskFacts, BuyInFacts
  <2>2. /\ DOMAIN serialised' = DOMAIN serialised /\ serialised'[1] = new
        /\ \A i \in DOMAIN serialised : i # 1 => serialised'[i] = serialised[i]
        /\ serialised[1].op = new.op /\ serialised[1].member = new.member
    BY <1>0, <2>1, Holder, Staged DEF Goes
  <2>3. \A i \in DOMAIN serialised :
           serialised'[i].op = serialised[i].op /\ serialised'[i].member = serialised[i].member
    BY <2>2
  <2>4. call' = call
    BY <1>11 DEF SeatTask, BuyIn
  <2> QED BY <2>2, <2>3, <2>4 DEF Waiting
<1>12. CASE SettleTask
  <2>1. call' = call
    BY <1>12 DEF SettleTask
  <2>2. /\ Task1 = serialised[1] /\ Task1.op = "settle" /\ 1 \in DOMAIN serialised
        /\ Len(serialised) \in Nat /\ DOMAIN serialised = 1 .. Len(serialised)
    BY <1>0, <1>12, SettleTaskFacts, Holder, LenProperties
  <2>3. \A i \in DOMAIN serialised' :
           \/ /\ i + 1 \in DOMAIN serialised /\ i + 1 # 1 /\ i # Len(serialised)
              /\ serialised'[i] = serialised[i + 1]
           \/ /\ i = Len(serialised)
              /\ serialised'[i].op = "leave" /\ serialised'[i].member = Task1.member
    BY <1>12, SettleTaskFacts
  <2>4. serialised' \in Seq(Task)
    BY <1>12, SettleTaskFacts
  <2>5. DOMAIN serialised' \subseteq Nat
    BY <2>4, LenProperties
  <2>6. ASSUME NEW i \in DOMAIN serialised', serialised'[i].op # "seat"
        PROVE  call[serialised'[i].member] = "ledger"
    BY <2>2, <2>3, <2>6 DEF Waiting
  <2>7. ASSUME NEW i \in DOMAIN serialised', NEW j \in DOMAIN serialised',
               serialised'[i].op # "seat", serialised'[j].op # "seat",
               serialised'[j].member = serialised'[i].member
        PROVE  i = j
    <3>1. CASE i # Len(serialised) /\ j # Len(serialised)
      <4>1. i + 1 = j + 1
        BY <2>3, <2>7, <3>1 DEF Waiting
      <4> QED BY <2>5, <4>1
    <3>2. CASE i = Len(serialised) /\ j # Len(serialised)
      BY <2>2, <2>3, <2>7, <3>2 DEF Waiting
    <3>3. CASE i # Len(serialised) /\ j = Len(serialised)
      BY <2>2, <2>3, <2>7, <3>3 DEF Waiting
    <3> QED BY <3>1, <3>2, <3>3
  <2> QED BY <2>1, <2>6, <2>7 DEF Waiting
<1> QED BY <1>2, <1>3, <1>4, <1>5, <1>7, <1>9, <1>10, <1>11, <1>12
     DEF Next, Sweeping, LedgerTurn, Calls

(* A ledger that is stuck stays so. *)
LEMMA CallersKept ==
    ASSUME TypeInv, LedgerInv, Callers, Next
    PROVE  Callers'
BY StuckStays, WaitingNext DEF Callers, Waiting

(* Nothing that a ticket waits for goes away.                               *)
LEMMA ComingStill ==
    ASSUME TypeInv, Coming, ToldSame,
           \A t \in tickets' : \E u \in tickets : t.id = u.id /\ t.seen = u.seen,
           \A m \in Members : call[m] = "kick" => call'[m] = "kick",
           wanted' = wanted, sweep'.stage = "start" <=> sweep.stage = "start",
           sweep'.stage = "off" <=> sweep.stage = "off"
    PROVE  Coming'
<1>1. ASSUME NEW t \in tickets'
      PROVE  t.seen \/ call'[told'[t.id].member] = "kick" \/ wanted' \/ sweep'.stage = "start"
  <2>1. PICK u \in tickets : t.id = u.id /\ t.seen = u.seen
    OBVIOUS
  <2>2. u.id \in DOMAIN told /\ told[u.id] \in Issued
    BY SeqEntries DEF TypeInv, Book, Queued
  <2>3. told'[t.id].member = told[u.id].member /\ told[u.id].member \in Members
    BY <2>1, <2>2 DEF ToldSame, Issued
  <2> QED BY <2>1, <2>3 DEF Coming
<1> QED BY <1>1 DEF Coming

(* Every step that brings a ticket, or ends a sweep, leaves one coming. *)
LEMMA ComingKept ==
    ASSUME TypeInv, LedgerInv, SweepInv, Callers, Coming, Next
    PROVE  Coming'
<1>0. ToldSame /\ \A t \in tickets : t.id = t.id /\ t.seen = t.seen
  BY ToldKept
<1>1. CASE \/ PassTemplate \/ PassGroup \/ PassSeat \/ PassSeated
           \/ SeatTask \/ BuyIn \/ SettleTask \/ Drain \/ Pause
           \/ \E m \in Members : Unqueue(m) \/ Ban(m)
  <2>1. tickets' \subseteq tickets /\ call' = call /\ wanted' = wanted
    BY <1>1 DEF PassTemplate, PassGroup, PassSeat, PassSeated, SeatTask, BuyIn, SettleTask, Drain,
               Drop, Pause, Unqueue, Ban, lock, book, run
  <2>2. sweep'.stage = sweep.stage \/ (sweep.stage = "pass" /\ sweep'.stage = "await")
    BY <1>1 DEF PassTemplate, PassGroup, PassSeat, PassSeated, SeatTask, BuyIn, SettleTask, Drain,
               Pause, Unqueue, Ban, run, TypeInv, SweepShape
  <2> QED BY <1>0, <2>1, <2>2, ComingStill
<1>2. CASE Grace \/ Expiry \/ \E m \in Members : Offline(m) \/ Online(m)
  <2>1. call' = call /\ wanted' = wanted /\ sweep' = sweep
    BY <1>2 DEF Grace, Expiry, Offline, Online, lock, run
  <2>2. PICK t \in tickets : \/ Becomes(t, [t EXCEPT !.away = "over"])
                             \/ Becomes(t, [t EXCEPT !.old = TRUE])
                             \/ Becomes(t, [t EXCEPT !.away = "counting"])
                             \/ Becomes(t, [t EXCEPT !.away = "no"])
    BY <1>2 DEF Grace, Expiry, Offline, Online, Of
  <2>3. PICK u : Becomes(t, u) /\ (\/ u = [t EXCEPT !.away = "over"]
                                   \/ u = [t EXCEPT !.old = TRUE]
                                   \/ u = [t EXCEPT !.away = "counting"]
                                   \/ u = [t EXCEPT !.away = "no"])
    BY <2>2
  <2>4. u.id = t.id /\ u.seen = t.seen
    <3>1. t \in Ticket
      BY DEF TypeInv, Book
    <3> QED BY <2>3, <3>1 DEF Ticket
  <2>5. \A v \in tickets' : v = u \/ v \in tickets
    BY <2>3 DEF Becomes
  <2> QED BY <1>0, <2>1, <2>4, <2>5, ComingStill
<1>3. ASSUME NEW m \in Members, Queue(m) \/ AskSeat(m) \/ Leave(m) PROVE Coming'
  <2>1. tickets' = tickets /\ wanted' = wanted /\ sweep' = sweep
        /\ call[m] = "none" /\ call' = [call EXCEPT ![m] = "ledger"]
    BY <1>3 DEF Queue, AskSeat, Leave, book, run
  <2>2. \A n \in Members : call[n] = "kick" => call'[n] = "kick"
    BY <2>1 DEF TypeInv, Lock
  <2> QED BY <1>0, <2>1, <2>2, ComingStill
<1>4. CASE Tick \/ Resume \/ \E m \in Members : Kick(m)
  <2>1. Run /\ tickets' = tickets /\ told' = told
    BY <1>4 DEF Tick, Resume, Kick, book
  <2>2. wanted' /\ sweep'.stage # "off"
    BY <2>1 DEF Run, NoSweep
  <2> QED BY <2>2 DEF Coming
<1>5. CASE PassStart
  <2>1. /\ wanted' = FALSE /\ sweep'.stage = "pass"
        /\ \E gone : tickets' = {[t EXCEPT !.seen = TRUE] : t \in tickets \ gone}
    BY <1>5 DEF PassStart, TypeInv, SweepShape
  <2>2. ASSUME NEW u \in tickets' PROVE u.seen
    <3>1. PICK t \in tickets : u = [t EXCEPT !.seen = TRUE]
      BY <2>1
    <3>2. t \in Ticket
      BY DEF TypeInv, Book
    <3> QED BY <3>1, <3>2 DEF Ticket
  <2> QED BY <2>1, <2>2 DEF Coming
<1>6. CASE PassEnd
  <2>1. tickets' = tickets /\ told' = told /\ call' = call /\ wanted' = wanted
        /\ sweep.stage = "pass" /\ sweep'.stage = IF wanted THEN "start" ELSE "off"
    BY <1>6 DEF PassEnd, NoSweep, book, lock
  <2> QED BY <2>1 DEF Coming
<1>7. CASE QueueTask
  <2>1. PICK made : made = [id |-> Len(told) + 1, away |-> "no", old |-> FALSE, seen |-> FALSE]
    OBVIOUS
  <2>2. PICK kept : kept = Answered({t.id : t \in Of(Task1.member)}, "cancelled")
    OBVIOUS
  <2>3. PICK new : new = [member |-> Task1.member, crit |-> Task1.crit, answers |-> << >>]
    OBVIOUS
  <2>4. /\ tickets' = (tickets \ Of(Task1.member)) \cup {made} /\ told' = Append(kept, new)
        /\ call' = [call EXCEPT ![Task1.member] = "kick"] /\ wanted' = wanted /\ sweep' = sweep
    BY <1>7, <2>1, <2>2, <2>3 DEF QueueTask, Task1, run
  <2>5. Task1 \in Task
    BY <1>7, Holder DEF QueueTask, TypeInv, Lock
  <2>6. new \in Issued /\ new.member = Task1.member /\ Task1.member \in Members
    BY <2>3, <2>5 DEF Task, Issued
  <2>7. kept \in Seq(Issued) /\ Len(kept) = Len(told)
    BY <2>2, AnswerFacts DEF TypeInv, Book
  <2>8. told'[Len(told) + 1] = new
    BY <2>4, <2>6, <2>7, AppendFacts
  <2>9. call'[told'[made.id].member] = "kick"
    BY <2>1, <2>4, <2>6, <2>8 DEF TypeInv, Lock
  <2>10. ASSUME NEW t \in tickets
         PROVE  t.seen \/ call'[told'[t.id].member] = "kick" \/ wanted' \/ sweep'.stage = "start"
    <3>1. t.id \in DOMAIN told /\ told[t.id] \in Issued
      BY SeqEntries DEF TypeInv, Book, Queued
    <3>2. told'[t.id].member = told[t.id].member /\ told[t.id].member \in Members
      BY <1>0, <3>1 DEF ToldSame, Issued
    <3>3. call[told[t.id].member] = "kick" => call'[told[t.id].member] = "kick"
      BY <2>4, <3>2 DEF TypeInv, Lock
    <3> QED BY <2>4, <3>2, <3>3 DEF Coming
  <2>11. \A t \in tickets' : t = made \/ t \in tickets
    BY <2>4
  <2> QED BY <2>4, <2>9, <2>10, <2>11 DEF Coming
<1>8. ASSUME NEW op, op # "seat", NEW stage, stage # "settling", Holds(op, stage)
      PROVE  call[Task1.member] = "ledger"
  <2>1. ~Stuck /\ Task1 = serialised[1] /\ 1 \in DOMAIN serialised /\ Task1.op = op
    BY <1>8, StuckFirst, Holder DEF TypeInv, Lock
  <2> QED BY <1>8, <2>1 DEF Callers
<1>9. CASE LeaveTask
  <2>1. Holds("leave", "wait") /\ tickets' = tickets /\ wanted' = wanted /\ sweep' = sweep
        /\ call' = [call EXCEPT ![Task1.member] = "none"]
    BY <1>9 DEF LeaveTask, book, run
  <2>2. \A n \in Members : call[n] = "kick" => call'[n] = "kick"
    BY <1>8, <2>1 DEF TypeInv, Lock
  <2> QED BY <1>0, <2>1, <2>2, ComingStill
<1>10. ASSUME NEW op \in {"sit", "seat"}, NEW stage, stage # "settling", Holds(op, stage),
              NEW table, NEW answer, Finished(table, answer)
       PROVE  Coming'
  <2>1. Task1.op = op
    BY <1>10, Holder DEF TypeInv, Lock
  <2>2. tickets' = tickets /\ wanted' = wanted
    BY <1>10 DEF Finished
  <2>3. CASE op = "sit"
    <3>1. sweep' = sweep /\ call' = [call EXCEPT ![Task1.member] = "none"]
      BY <1>10, <2>1, <2>3 DEF Finished
    <3>2. \A n \in Members : call[n] = "kick" => call'[n] = "kick"
      BY <1>8, <1>10, <2>3, <3>1 DEF TypeInv, Lock
    <3> QED BY <1>0, <2>2, <3>1, <3>2, ComingStill
  <2>4. CASE op = "seat"
    <3>1. PICK oldest : oldest = Oldest(sweep.group)
      OBVIOUS
    <3>2. sweep.stage = "await" /\ call' = call
          /\ sweep' = [sweep EXCEPT !.stage = "pass", !.group = @ \ {oldest},
                                    !.table = IF @ = 0 THEN table ELSE @]
      BY <1>10, <2>1, <2>4, <3>1, SweepServed DEF Finished
    <3>3. sweep'.stage = "pass"
      BY <3>2 DEF TypeInv, SweepShape
    <3> QED BY <1>0, <2>2, <3>2, <3>3, ComingStill
  <2> QED BY <2>3, <2>4
<1>11. CASE SeatRefused \/ Granted
  <2>1. PICK op \in {"sit", "seat"} : \E stage : stage # "settling" /\ Holds(op, stage)
    BY <1>11 DEF SeatRefused, Granted, Seating
  <2>2. \E table, answer : Finished(table, answer)
    BY <1>11 DEF SeatRefused, Granted
  <2> QED BY <1>10, <2>1, <2>2
<1>12. CASE Unseat
  <2>1. PICK op \in {"sit", "seat"} :
            Holds(op, "unseating") /\ (Finished(0, "cancelled") \/ Settles(op))
    BY <1>12, UnseatFacts
  <2>2. CASE Settles(op)
    <3>1. UNCHANGED <<book, run, call>>
      BY <2>2 DEF Settles
    <3> QED BY <1>0, <3>1, ComingStill DEF book, run
  <2> QED BY <1>10, <2>1, <2>2
<1> QED BY <1>1, <1>2, <1>3, <1>4, <1>5, <1>6, <1>7, <1>9, <1>11, <1>12
     DEF Next, Sweeping, LedgerTurn, Calls

-----------------------------------------------------------------------------
(* Seated once. *)

(* Who sits somewhere, seat by seat. *)
LEMMA GuestsAt ==
    ASSUME NEW rooms \in Seq(Table), NEW m
    PROVE  m \in Guests(rooms) <=>
              m # Nobody /\ \E t \in DOMAIN rooms, i \in 1 .. Width : rooms[t].seats[i] = m
<1>1. ASSUME NEW t \in DOMAIN rooms
      PROVE  m \in ToSet(rooms[t].seats) <=> \E i \in 1 .. Width : rooms[t].seats[i] = m
  <2>1. rooms[t] \in Table
    BY SeqEntries
  <2>2. DOMAIN rooms[t].seats = 1 .. Width
    BY <2>1 DEF Table
  <2> QED BY <2>2 DEF ToSet
<1> QED BY <1>1, GuestsSit

(* The same of the tables of now, ... *)
LEMMA SeatedAre ==
    ASSUME TypeInv
    PROVE  \A m : m \in SeatedAt <=>
              m # Nobody /\ \E t \in DOMAIN tables, i \in 1 .. Width : tables[t].seats[i] = m
<1>1. SeatedAt = Guests(tables)
  BY DEF SeatedAt, Guests
<1> QED BY <1>1, GuestsAt DEF TypeInv, Rooms

(* ... and of those after the step. *)
LEMMA SeatedAreNext ==
    ASSUME TypeInv'
    PROVE  \A m : m \in SeatedAt' <=>
              m # Nobody /\ \E t \in DOMAIN tables', i \in 1 .. Width : tables'[t].seats[i] = m
<1>1. SeatedAt' = Guests(tables')
  BY DEF SeatedAt, Guests
<1>2. tables' \in Seq(Table)
  BY DEF TypeInv, Rooms
<1> QED BY <1>1, <1>2, GuestsAt

(* The sweep seats somebody only while it waits. *)
LEMMA NowWaits ==
    ASSUME TypeInv, SweepInv, sweep.stage # "await"
    PROVE  Now = {}
<1>1. Len(serialised) # 0 => 1 \in DOMAIN serialised
  BY LenProperties DEF TypeInv, Lock
<1> QED BY <1>1 DEF Now, SweepInv

(* What becomes of the line when nobody sits down by a call.                *)
LEMMA SweepsByLine ==
    ASSUME TypeInv, OnlySweeps, NEW op \in {"queue", "seat"}, NEW m, NEW table, Line(op, m, table)
    PROVE  OnlySweeps' /\ Now' = Now
<1>1. PICK task \in Task : /\ serialised' = Append(serialised, task)
                           /\ task.op = op /\ task.stage = "wait"
  BY DEF Line
<1>2. /\ Len(serialised) \in Nat /\ DOMAIN serialised = 1 .. Len(serialised)
      /\ Len(serialised') = Len(serialised) + 1
      /\ \A i \in DOMAIN serialised : i \in DOMAIN serialised' /\ serialised'[i] = serialised[i]
      /\ \A i \in DOMAIN serialised' : i \in DOMAIN serialised \/ i = Len(serialised) + 1
      /\ serialised'[Len(serialised) + 1] = task
  BY <1>1, Lined DEF TypeInv, Lock
<1>3. Stuck => Stuck'
  BY <1>2 DEF Stuck
<1>4. OnlySweeps'
  BY <1>1, <1>2, <1>3 DEF OnlySweeps
<1>5. CASE Len(serialised) = 0
  <2>1. serialised'[1].stage = "wait"
    BY <1>1, <1>2, <1>5
  <2> QED BY <1>4, <1>5, <2>1 DEF Now
<1>6. CASE Len(serialised) # 0
  <2>1. 1 \in DOMAIN serialised /\ Len(serialised') # 0
    BY <1>2, <1>6
  <2>2. serialised'[1] = serialised[1]
    BY <1>2, <2>1
  <2> QED BY <1>4, <1>6, <2>1, <2>2 DEF Now
<1> QED BY <1>5, <1>6

(* ... when a turn is over, ... *)
LEMMA SweepsByTail ==
    ASSUME TypeInv, LedgerInv, OnlySweeps, NEW op, NEW stage, Holds(op, stage),
           stage # "settling", serialised' = Tail(serialised)
    PROVE  OnlySweeps' /\ Now' = {}
<1>1. /\ serialised' \in Seq(Task)
      /\ \A i \in DOMAIN serialised' :
            i + 1 \in DOMAIN serialised /\ i + 1 # 1 /\ serialised'[i] = serialised[i + 1]
  BY Holder, Popped DEF TypeInv, Lock
<1>2. ~Stuck
  BY StuckFirst
<1>3. OnlySweeps'
  BY <1>1, <1>2 DEF OnlySweeps
<1>4. ASSUME Len(serialised') # 0 PROVE serialised'[1].stage = "wait"
  <2>1. PICK rest \in Seq(Task) : rest = serialised'
    BY <1>1
  <2>2. Len(rest) \in Nat /\ DOMAIN rest = 1 .. Len(rest) /\ Len(rest) # 0
    BY <1>4, <2>1, LenProperties
  <2>3. 1 \in DOMAIN serialised'
    <3>1. 1 \in 1 .. Len(rest)
      BY <2>2
    <3>2. 1 \in DOMAIN rest
      BY <2>2, <3>1
    <3> QED BY <2>1, <3>2
  <2> QED BY <1>1, <2>3 DEF LedgerInv, Held
<1> QED BY <1>3, <1>4 DEF Now

(* ... and when the sweep's own task goes on. *)
LEMMA SweepsByStage ==
    ASSUME TypeInv, LedgerInv, OnlySweeps, NEW op \in {"sit", "seat"}, NEW stage,
           stage # "settling", NEW new \in Task, Goes(op, stage, new), new.stage # "wait"
    PROVE  /\ OnlySweeps' /\ Now' = {new.member}
           /\ op = "seat" /\ Now = IF stage = "wait" THEN {} ELSE {new.member}
<1>1. /\ serialised # << >> /\ 1 \in DOMAIN serialised /\ Task1 = serialised[1]
      /\ Task1.op = op /\ Task1.stage = stage /\ Len(serialised) # 0
      /\ new.op = op /\ new.member = Task1.member
  BY Holder DEF Goes, TypeInv, Lock
<1>2. /\ DOMAIN serialised' = DOMAIN serialised /\ serialised'[1] = new
      /\ Len(serialised') = Len(serialised)
      /\ \A i \in DOMAIN serialised : i # 1 => serialised'[i] = serialised[i]
  BY <1>1, Staged DEF Goes, TypeInv, Lock
<1>3. ~Stuck
  BY StuckFirst DEF Goes
<1>4. op = "seat"
  BY <1>1 DEF OnlySweeps
<1>5. OnlySweeps'
  BY <1>1, <1>2, <1>3, <1>4 DEF OnlySweeps
<1> QED BY <1>1, <1>2, <1>4, <1>5 DEF Now

(* The seats stay as they are. *)
LEMMA SeatsStill ==
    ASSUME TypeInv, TypeInv', OneSeat, SameSeats
    PROVE  OneSeat' /\ SeatedAt' = SeatedAt
<1>1. OneSeat'
  BY DEF OneSeat, SameSeats
<1>2. \A m : m \in SeatedAt' <=> m \in SeatedAt
  BY SeatedAre, SeatedAreNext DEF SameSeats
<1> QED BY <1>1, <1>2

(* One more sits somewhere. *)
LEMMA OneMoreSits ==
    ASSUME TypeInv, TypeInv', OneSeat, NEW t, NEW m \in Members, m \notin SeatedAt, Sits(t, m)
    PROVE  OneSeat' /\ SeatedAt' = SeatedAt \cup {m}
<1>0. m # Nobody
  BY NobodyAssumption
<1>1. PICK k \in 1 .. Width :
        /\ DOMAIN tables \subseteq DOMAIN tables' /\ t \in DOMAIN tables'
        /\ t \in DOMAIN tables => tables[t].seats[k] = Nobody
        /\ \A u \in DOMAIN tables' : \A j \in 1 .. Width :
              tables'[u].seats[j] = IF u = t /\ j = k THEN m
                                    ELSE IF u \in DOMAIN tables THEN tables[u].seats[j] ELSE Nobody
  BY DEF Sits
<1>2. \A u \in DOMAIN tables : \A j \in 1 .. Width : tables[u].seats[j] # m
  BY <1>0, SeatedAre
<1>3. ASSUME NEW u \in DOMAIN tables', NEW v \in DOMAIN tables',
             NEW i \in 1 .. Width, NEW j \in 1 .. Width,
             tables'[u].seats[i] = tables'[v].seats[j], tables'[u].seats[i] # Nobody
      PROVE  u = v /\ i = j
  <2>1. CASE tables'[u].seats[i] = m
    <3>1. u = t /\ i = k
      BY <1>0, <1>1, <1>2, <2>1
    <3>2. tables'[v].seats[j] = m
      BY <1>3, <2>1
    <3>3. v = t /\ j = k
      BY <1>0, <1>1, <1>2, <3>2
    <3> QED BY <3>1, <3>3
  <2>2. CASE tables'[u].seats[i] # m
    <3>1. u \in DOMAIN tables /\ tables[u].seats[i] = tables'[u].seats[i]
      BY <1>1, <1>3, <2>2
    <3>2. v \in DOMAIN tables /\ tables[v].seats[j] = tables'[v].seats[j]
      BY <1>1, <1>3, <2>2
    <3> QED BY <1>3, <3>1, <3>2 DEF OneSeat
  <2> QED BY <2>1, <2>2
<1>4. OneSeat'
  BY <1>3 DEF OneSeat
<1>5. tables'[t].seats[k] = m
  BY <1>1
<1>6. ASSUME NEW n \in SeatedAt' PROVE n \in SeatedAt \cup {m}
  <2>1. PICK u \in DOMAIN tables', j \in 1 .. Width : tables'[u].seats[j] = n /\ n # Nobody
    BY SeatedAreNext
  <2> QED BY <1>1, <2>1, SeatedAre
<1>7. ASSUME NEW n \in SeatedAt PROVE n \in SeatedAt'
  <2>1. PICK u \in DOMAIN tables, j \in 1 .. Width : tables[u].seats[j] = n /\ n # Nobody
    BY SeatedAre
  <2>2. u \in DOMAIN tables' /\ tables'[u].seats[j] = n
    BY <1>1, <2>1
  <2> QED BY <2>1, <2>2, SeatedAreNext
<1>8. m \in SeatedAt'
  BY <1>0, <1>1, <1>5, SeatedAreNext
<1> QED BY <1>4, <1>6, <1>7, <1>8

(* One gives its seat back. *)
LEMMA OneLessSits ==
    ASSUME TypeInv, TypeInv', OneSeat, NEW t \in DOMAIN tables, NEW k \in 1 .. Width,
           NEW m \in Members, tables[t].seats[k] = m, Reseated(t, k, Nobody)
    PROVE  OneSeat' /\ SeatedAt' = SeatedAt \ {m}
<1>0. m # Nobody
  BY NobodyAssumption
<1>1. /\ DOMAIN tables' = DOMAIN tables
      /\ \A u \in DOMAIN tables : \A j \in 1 .. Width :
            tables'[u].seats[j] = IF u = t /\ j = k THEN Nobody ELSE tables[u].seats[j]
  BY DEF Reseated
<1>2. OneSeat'
  <2>1. ASSUME NEW u \in DOMAIN tables', NEW v \in DOMAIN tables',
               NEW i \in 1 .. Width, NEW j \in 1 .. Width,
               tables'[u].seats[i] = tables'[v].seats[j], tables'[u].seats[i] # Nobody
        PROVE  u = v /\ i = j
    <3>1. u \in DOMAIN tables /\ v \in DOMAIN tables /\ tables'[v].seats[j] # Nobody
      BY <1>1, <2>1
    <3>2. ~(u = t /\ i = k) /\ ~(v = t /\ j = k)
      BY <1>1, <2>1, <3>1
    <3>3. tables'[u].seats[i] = tables[u].seats[i]
      BY <1>1, <3>1, <3>2
    <3>4. tables'[v].seats[j] = tables[v].seats[j]
      BY <1>1, <3>1, <3>2
    <3>5. tables[u].seats[i] = tables[v].seats[j] /\ tables[u].seats[i] # Nobody
      BY <2>1, <3>3, <3>4
    <3> QED BY <3>1, <3>5 DEF OneSeat
  <2> QED BY <2>1 DEF OneSeat
<1>3. ASSUME NEW u \in DOMAIN tables, NEW j \in 1 .. Width, tables[u].seats[j] = m
      PROVE  u = t /\ j = k
  BY <1>0, <1>3 DEF OneSeat
<1>4. ASSUME NEW n \in SeatedAt' PROVE n \in SeatedAt \ {m}
  <2>1. PICK u \in DOMAIN tables', j \in 1 .. Width : tables'[u].seats[j] = n /\ n # Nobody
    BY SeatedAreNext
  <2>2. tables[u].seats[j] = n /\ u \in DOMAIN tables /\ ~(u = t /\ j = k)
    BY <1>1, <2>1
  <2> QED BY <1>3, <2>1, <2>2, SeatedAre
<1>5. ASSUME NEW n \in SeatedAt \ {m} PROVE n \in SeatedAt'
  <2>1. PICK u \in DOMAIN tables, j \in 1 .. Width : tables[u].seats[j] = n /\ n # Nobody
    BY SeatedAre
  <2>2. ~(u = t /\ j = k)
    BY <1>5, <2>1
  <2>3. u \in DOMAIN tables' /\ tables'[u].seats[j] = n
    BY <1>1, <2>1, <2>2
  <2> QED BY <2>1, <2>3, SeatedAreNext
<1> QED BY <1>2, <1>4, <1>5

(* Nobody sits down or stands up. *)
LEMMA ArrangedStill ==
    ASSUME TypeInv, TypeInv', Arranged, ToldSame, SameSeats, OnlySweeps', Now' = Now,
           sweep'.group \subseteq sweep.group,
           sweep'.stage \in {"pass", "await"} =>
              sweep.stage \in {"pass", "await"} /\ Known \subseteq Known'
    PROVE  Arranged'
<1>1. OneSeat' /\ SeatedAt' = SeatedAt
  BY SeatsStill DEF Arranged
<1>2. \A id \in sweep'.group : told'[id].member = told[id].member
  BY DEF ToldSame, TypeInv, SweepShape
<1> QED BY <1>1, <1>2 DEF Arranged

(* ... and the line stays as it is. *)
LEMMA ArrangedQuiet ==
    ASSUME TypeInv, TypeInv', Arranged, ToldSame, serialised' = serialised, tables' = tables,
           sweep'.group \subseteq sweep.group,
           sweep'.stage \in {"pass", "await"} =>
              /\ sweep.stage \in {"pass", "await"} /\ sweep.seated \subseteq sweep'.seated
              /\ sweep.table # 0 => \/ sweep.company \subseteq sweep'.seated
                                    \/ sweep'.table # 0 /\ sweep.company \subseteq sweep'.company
    PROVE  Arranged'
<1>1. OnlySweeps' /\ Now' = Now
  BY DEF Arranged, OnlySweeps, Stuck, Now
<1>2. SameSeats
  BY DEF SameSeats, TypeInv, Rooms
<1>3. ASSUME sweep'.stage \in {"pass", "await"} PROVE Known \subseteq Known'
  BY <1>1, <1>3 DEF Known
<1> QED BY <1>1, <1>2, <1>3, ArrangedStill

(* The steps of the sweep between two groups, and what starts one.          *)
LEMMA ArrangedBySweep ==
    ASSUME TypeInv, TypeInv', SweepInv, Arranged, ToldSame,
           Run \/ sweep' = sweep \/ Sweeping, serialised' = serialised, tables' = tables
    PROVE  Arranged'
<1>1. CASE sweep' = sweep
  BY <1>1, ArrangedQuiet
<1>2. CASE Run /\ sweep.stage = "off"
  <2>1. sweep'.group = {} /\ sweep'.stage = "start"
    BY <1>2 DEF Run, NoSweep
  <2> QED BY <2>1, ArrangedQuiet
<1>3. CASE Run /\ sweep.stage # "off"
  BY <1>1, <1>3 DEF Run
<1>4. CASE PassStart
  <2>1. sweep'.seated = SeatedAt /\ sweep'.group = sweep.group
    BY <1>4 DEF PassStart, TypeInv, SweepShape
  <2>2. OnlySweeps' /\ Now' = Now
    BY DEF Arranged, OnlySweeps, Stuck, Now
  <2>3. SameSeats
    BY DEF SameSeats, TypeInv, Rooms
  <2>4. OneSeat' /\ SeatedAt' = SeatedAt
    BY <2>3, SeatsStill DEF Arranged
  <2>5. SeatedAt' \subseteq Known'
    BY <2>1, <2>4 DEF Known
  <2>6. \A id \in sweep'.group : told'[id].member = told[id].member
    BY <2>1 DEF ToldSame, TypeInv, SweepShape
  <2> QED BY <2>1, <2>2, <2>4, <2>5, <2>6 DEF Arranged
<1>5. CASE PassTemplate
  <2>1. sweep'.group = sweep.group /\ sweep'.stage = sweep.stage /\ sweep'.seated = sweep.seated
        /\ sweep'.company = sweep.company /\ sweep'.table = sweep.table /\ sweep.stage = "pass"
    BY <1>5 DEF PassTemplate, TypeInv, SweepShape
  <2> QED BY <2>1, ArrangedQuiet
<1>6. CASE PassGroup
  <2>1. PICK group : group = Head(sweep.groups)
    OBVIOUS
  <2>2. sweep.stage = "pass" /\ sweep.company = {}
    BY <1>6 DEF PassGroup
  <2>3. CASE /\ Seatable(group)
             /\ sweep' = [sweep EXCEPT !.groups = Tail(@), !.group = group, !.table = 0,
                                       !.company = {told[id].member : id \in group}]
    <3>1. sweep'.group = group /\ sweep'.seated = sweep.seated
      BY <2>3 DEF TypeInv, SweepShape
    <3>2. OnlySweeps' /\ Now' = Now
      BY DEF Arranged, OnlySweeps, Stuck, Now
    <3>3. SameSeats
      BY DEF SameSeats, TypeInv, Rooms
    <3>4. OneSeat' /\ SeatedAt' = SeatedAt
      BY <3>3, SeatsStill DEF Arranged
    <3>5. SeatedAt \subseteq sweep.seated
      <4>1. Now = {}
        BY <2>2, NowWaits
      <4>2. Known = sweep.seated
        BY <2>2, <4>1 DEF Known
      <4> QED BY <2>2, <4>2 DEF Arranged
    <3>6. SeatedAt' \subseteq Known'
      BY <3>1, <3>4, <3>5 DEF Known
    <3>7. ASSUME NEW id \in sweep'.group
          PROVE  told'[id].member \notin SeatedAt'
      <4>1. id \in Queued /\ told[id].member \notin sweep.seated
        BY <2>3, <3>1 DEF Seatable, Ready
      <4>2. told'[id].member = told[id].member
        BY <4>1 DEF ToldSame, TypeInv, Book
      <4> QED BY <3>4, <3>5, <4>1, <4>2
    <3> QED BY <3>2, <3>4, <3>6, <3>7 DEF Arranged
  <2>4. CASE sweep' = [sweep EXCEPT !.groups = Tail(@)]
    <3>1. sweep'.group = sweep.group /\ sweep'.stage = sweep.stage /\ sweep'.seated = sweep.seated
          /\ sweep'.company = sweep.company /\ sweep'.table = sweep.table
      BY <2>4 DEF TypeInv, SweepShape
    <3> QED BY <2>2, <3>1, ArrangedQuiet
  <2> QED BY <1>6, <2>1, <2>3, <2>4 DEF PassGroup
<1>7. CASE PassSeat
  <2>1. PICK oldest : oldest = Oldest(sweep.group)
    OBVIOUS
  <2>2. sweep.stage = "pass"
    BY <1>7 DEF PassSeat
  <2>3. CASE sweep' = [sweep EXCEPT !.group = @ \ {oldest}]
    <3>1. sweep'.group \subseteq sweep.group /\ sweep'.seated = sweep.seated
          /\ sweep'.company = sweep.company /\ sweep'.table = sweep.table
      BY <2>3 DEF TypeInv, SweepShape
    <3> QED BY <2>2, <3>1, ArrangedQuiet
  <2>4. CASE sweep' = [sweep EXCEPT !.stage = "await"]
    <3>1. sweep'.group = sweep.group /\ sweep'.seated = sweep.seated
          /\ sweep'.company = sweep.company /\ sweep'.table = sweep.table
      BY <2>4 DEF TypeInv, SweepShape
    <3> QED BY <2>2, <3>1, ArrangedQuiet
  <2> QED BY <1>7, <2>1, <2>3, <2>4, SweepLine
<1>8. CASE PassSeated
  <2>1. sweep'.group = sweep.group /\ sweep.stage = "pass"
        /\ sweep'.seated = sweep.seated \cup (IF sweep.table # 0 THEN sweep.company ELSE {})
    BY <1>8 DEF PassSeated, TypeInv, SweepShape
  <2>2. sweep.seated \subseteq sweep'.seated
    BY <2>1
  <2>3. sweep.table # 0 => sweep.company \subseteq sweep'.seated
    BY <2>1
  <2> QED BY <2>1, <2>2, <2>3, ArrangedQuiet
<1>9. CASE PassEnd
  <2>1. sweep'.group = {} /\ sweep'.stage \in {"start", "off"}
    BY <1>9 DEF PassEnd, NoSweep
  <2> QED BY <2>1, ArrangedQuiet
<1> QED BY <1>1, <1>2, <1>3, <1>4, <1>5, <1>6, <1>7, <1>8, <1>9 DEF Sweeping

(* Somebody comes to the line, for a ticket or a seat.                      *)
LEMMA ArrangedByLine ==
    ASSUME TypeInv, TypeInv', Arranged, ToldSame, tables' = tables,
           NEW op \in {"queue", "seat"}, NEW m, NEW table, Line(op, m, table),
           \/ sweep' = sweep
           \/ sweep.stage = "pass" /\ sweep' = [sweep EXCEPT !.stage = "await"]
    PROVE  Arranged'
<1>1. OnlySweeps' /\ Now' = Now
  BY SweepsByLine DEF Arranged
<1>2. SameSeats
  BY DEF SameSeats, TypeInv, Rooms
<1>3. /\ sweep'.group = sweep.group /\ sweep'.seated = sweep.seated
      /\ sweep'.company = sweep.company /\ sweep'.table = sweep.table
      /\ sweep'.stage \in {"pass", "await"} => sweep.stage \in {"pass", "await"}
  BY DEF TypeInv, SweepShape
<1>4. Known' = Known
  BY <1>1, <1>3 DEF Known
<1> QED BY <1>1, <1>2, <1>3, <1>4, ArrangedStill

(* The holder seats somebody for the sweep, or nobody.                      *)
LEMMA SeatsForSweep ==
    ASSUME TypeInv, LedgerInv, SweepInv, OnlySweeps, NEW op \in {"sit", "seat"}, NEW stage,
           stage # "settling", Holds(op, stage)
    PROVE  /\ op = "seat" /\ Now = IF stage = "wait" THEN {} ELSE {Task1.member}
           /\ \E oldest \in sweep.group :
                 /\ oldest = Oldest(sweep.group) /\ Task1.member = told[oldest].member
           /\ sweep.stage = "await" /\ Task1.member \in Members
<1>1. /\ serialised # << >> /\ 1 \in DOMAIN serialised /\ Task1 = serialised[1] /\ Task1 \in Task
      /\ Task1.op = op /\ Task1.stage = stage /\ Len(serialised) # 0
  BY Holder DEF TypeInv, Lock
<1>2. op = "seat"
  BY <1>1 DEF OnlySweeps
<1>3. sweep.group # {} /\ Task1.member = told[Oldest(sweep.group)].member /\ sweep.stage = "await"
  BY <1>1, <1>2 DEF SweepInv
<1>4. sweep.group \subseteq Nat
  BY IdsAreNumbers DEF TypeInv, Book, SweepShape
<1>5. Oldest(sweep.group) \in sweep.group
  BY <1>3, <1>4, OldestOne
<1>6. Now = IF stage = "wait" THEN {} ELSE {Task1.member}
  BY <1>1, <1>2 DEF Now
<1> QED BY <1>1, <1>2, <1>3, <1>5, <1>6 DEF Task

(* The registry seats a member for the sweep, which had no seat before.     *)
LEMMA ArrangedBySeat ==
    ASSUME TypeInv, TypeInv', LedgerInv, SweepInv, Arranged, ToldSame, SeatTask
    PROVE  Arranged'
<1>1. PICK op \in {"sit", "seat"}, new \in Task :
          Goes(op, "wait", new) /\ new.stage = "paying" /\ Sits(new.table, new.member)
  BY SeatTaskFacts
<1>2. sweep' = sweep
  BY DEF SeatTask, run
<1>3. OnlySweeps' /\ Now' = {new.member} /\ Now = {} /\ Holds(op, "wait") /\ new.member = Task1.member
  BY <1>1, SweepsByStage DEF Arranged, Goes
<1>4. PICK oldest \in sweep.group : new.member = told[oldest].member
  BY <1>3, SeatsForSweep DEF Arranged
<1>5. new.member \notin SeatedAt /\ new.member \in Members
  BY <1>3, <1>4, SeatsForSweep DEF Arranged
<1>6. OneSeat' /\ SeatedAt' = SeatedAt \cup {new.member}
  BY <1>1, <1>5, OneMoreSits DEF Arranged
<1>7. Known \subseteq Known' /\ new.member \in Known'
  BY <1>2, <1>3 DEF Known
<1>8. sweep'.stage \in {"pass", "await"} => SeatedAt' \subseteq Known'
  BY <1>2, <1>6, <1>7 DEF Arranged
<1>9. ASSUME NEW id \in sweep'.group, told'[id].member \in SeatedAt'
      PROVE  told'[id].member \in Now'
  <2>1. told'[id].member = told[id].member /\ id \in sweep.group
    BY <1>2, <1>9 DEF ToldSame, TypeInv, SweepShape
  <2>2. told[id].member \notin SeatedAt
    BY <1>3, <2>1 DEF Arranged
  <2> QED BY <1>3, <1>6, <1>9, <2>1, <2>2
<1> QED BY <1>3, <1>6, <1>8, <1>9 DEF Arranged

(* The sweep's task ends: its member is seated with the company, or not at all. *)
LEMMA ArrangedByDone ==
    ASSUME TypeInv, TypeInv', LedgerInv, SweepInv, GroupInv, Arranged, ToldSame,
           NEW op \in {"sit", "seat"}, NEW stage \in {"wait", "signing", "unseating"}, Holds(op, stage),
           NEW table, NEW answer, Finished(table, answer),
           OneSeat', SeatedAt' \subseteq SeatedAt,
           stage = "signing" => table # 0,
           stage = "unseating" => Task1.member \notin SeatedAt'
    PROVE  Arranged'
<1>1. /\ op = "seat" /\ Now = IF stage = "wait" THEN {} ELSE {Task1.member}
      /\ sweep.stage = "await"
  BY SeatsForSweep DEF Arranged
<1>2. PICK oldest \in sweep.group : oldest = Oldest(sweep.group) /\ Task1.member = told[oldest].member
  BY SeatsForSweep DEF Arranged
<1>3. /\ sweep' = [sweep EXCEPT !.stage = "pass", !.group = @ \ {oldest},
                                !.table = IF @ = 0 THEN table ELSE @]
  BY <1>1, <1>2, SweepServed
<1>4. /\ sweep'.stage = "pass" /\ sweep'.group = sweep.group \ {oldest}
      /\ sweep'.seated = sweep.seated /\ sweep'.company = sweep.company
      /\ sweep'.table = IF sweep.table = 0 THEN table ELSE sweep.table
  BY <1>3 DEF TypeInv, SweepShape
<1>5. serialised' = Tail(serialised)
  BY DEF Finished
<1>6. OnlySweeps' /\ Now' = {}
  BY <1>5, SweepsByTail DEF Arranged
<1>7. Task1.member \in sweep.company
  BY <1>2 DEF SweepInv
<1>8. ASSUME NEW n \in SeatedAt' PROVE n \in Known'
  <2>1. n \in Known
    BY <1>1, <1>8 DEF Arranged
  <2>2. CASE n \in sweep.seated
    BY <1>4, <2>2 DEF Known
  <2>3. CASE sweep.table # 0 /\ n \in sweep.company
    BY <1>4, <2>3 DEF Known
  <2>4. CASE n \in Now
    <3>1. stage = "signing" /\ n = Task1.member
      BY <1>1, <1>8, <2>4
    <3>2. sweep'.table # 0 /\ n \in sweep'.company
      BY <1>4, <1>7, <3>1
    <3> QED BY <3>2 DEF Known
  <2> QED BY <2>1, <2>2, <2>3, <2>4 DEF Known
<1>9. ASSUME NEW id \in sweep'.group PROVE told'[id].member \notin SeatedAt'
  <2>1. id \in sweep.group /\ id # oldest /\ told'[id].member = told[id].member
    BY <1>4, <1>9 DEF ToldSame, TypeInv, SweepShape
  <2>2. told[id].member # Task1.member
    BY <1>2, <2>1 DEF GroupInv, GetAlong
  <2>3. told[id].member \in SeatedAt => told[id].member \in Now
    BY <2>1 DEF Arranged
  <2> QED BY <1>1, <2>1, <2>2, <2>3
<1> QED BY <1>4, <1>6, <1>8, <1>9 DEF Arranged

(* ... or gives its seat back. *)
LEMMA ArrangedByUnseat ==
    ASSUME TypeInv, TypeInv', LedgerInv, SweepInv, GroupInv, Arranged, ToldSame, Unseat
    PROVE  Arranged'
<1>1. PICK op \in {"sit", "seat"}, i \in 1 .. Width :
          /\ Holds(op, "unseating") /\ Task1.table \in DOMAIN tables
          /\ tables[Task1.table].seats[i] = Task1.member /\ Reseated(Task1.table, i, Nobody)
          /\ Finished(0, "cancelled") \/ Settles(op)
  BY UnseatFacts
<1>2. op = "seat" /\ Now = {Task1.member} /\ Task1.member \in Members
  BY <1>1, SeatsForSweep DEF Arranged
<1>3. PICK m \in Members : m = Task1.member
  BY <1>2
<1>4. OneSeat' /\ SeatedAt' = SeatedAt \ {m}
  BY <1>1, <1>3, OneLessSits DEF Arranged
<1>5. CASE Finished(0, "cancelled")
  BY <1>1, <1>3, <1>4, <1>5, ArrangedByDone
<1>6. CASE Settles(op)
  <2>1. sweep' = sweep /\ told' = told /\ Stuck' /\ serialised' \in Seq(Task)
        /\ 1 \in DOMAIN serialised' /\ serialised'[1].op = "seat"
        /\ serialised'[1].stage = "settling" /\ serialised'[1].member = m
    BY <1>2, <1>3, <1>6 DEF Settles, run, book
  <2>2. \A k \in DOMAIN serialised' :
            \/ k = 1
            \/ serialised'[k].op = "settle"
            \/ k \in DOMAIN serialised /\ serialised'[k] = serialised[k]
    BY <1>6 DEF Settles
  <2>3. OnlySweeps'
    BY <2>1, <2>2 DEF Arranged, OnlySweeps
  <2>4. Now' = Now
    <3>1. PICK line \in Seq(Task) : line = serialised'
      BY <2>1
    <3>2. Len(line) \in Nat /\ DOMAIN line = 1 .. Len(line)
      BY <3>1, LenProperties
    <3>3. Len(line) # 0
      BY <2>1, <3>1, <3>2
    <3>4. Len(serialised') # 0
      BY <3>1, <3>3
    <3> QED BY <1>2, <1>3, <2>1, <3>4 DEF Now
  <2>5. Known' = Known
    BY <2>1, <2>4 DEF Known
  <2> QED BY <1>4, <2>1, <2>3, <2>4, <2>5 DEF Arranged
<1> QED BY <1>1, <1>5, <1>6

(* With no seat taken outside matchmaking before, none is taken after.      *)
LEMMA Unmoved ==
    ASSUME TypeInv, Next, moves' = 0
    PROVE  moves = 0 /\ \A m \in Members : ~AskSeat(m) /\ ~Leave(m)
<1>1. moves \in Nat
  BY DEF TypeInv, People, Conf
<1>2. ASSUME NEW m \in Members, AskSeat(m) \/ Leave(m) PROVE FALSE
  <2>1. moves' = moves + 1
    BY <1>2 DEF AskSeat, Leave
  <2> QED BY <1>1, <2>1
<1>3. moves' = moves
  BY <1>2 DEF Next, Sweeping, LedgerTurn, Calls, PassStart, PassTemplate, PassGroup, PassSeat,
     PassSeated, PassEnd, QueueTask, SeatTask, SeatRefused, BuyIn, Granted, Finished, Unseat,
     SettleTask, LeaveTask, Tick, Drain, Grace, Expiry, Pause, Resume, Queue, Unqueue, Offline,
     Online, Ban, Kick, people
<1> QED BY <1>2, <1>3

(* Every step but a sit or leave keeps one seat for each member. *)
LEMMA SeatsKept ==
    ASSUME TypeInv, TypeInv', LedgerInv, SweepInv, GroupInv, SeatInv, Next
    PROVE  SeatInv'
<1> SUFFICES ASSUME moves' = 0 PROVE Arranged'
  BY DEF SeatInv
<1>0. Arranged /\ ToldSame /\ \A m \in Members : ~AskSeat(m) /\ ~Leave(m)
  BY Unmoved, ToldKept DEF SeatInv
<1>1. CASE \/ Tick \/ Drain \/ Grace \/ Expiry \/ Pause \/ Resume
           \/ PassStart \/ PassTemplate \/ PassGroup \/ PassSeated \/ PassEnd
           \/ \E m \in Members : Unqueue(m) \/ Offline(m) \/ Online(m) \/ Ban(m) \/ Kick(m)
  <2>1. serialised' = serialised /\ tables' = tables
    BY <1>1 DEF Tick, Drain, Grace, Expiry, Pause, Resume, PassStart, PassTemplate, PassGroup,
       PassSeated, PassEnd, Unqueue, Offline, Online, Ban, Kick, people, lock
  <2>2. Run \/ sweep' = sweep \/ Sweeping
    BY <1>1 DEF Tick, Drain, Grace, Expiry, Pause, Resume, Sweeping,
       Unqueue, Offline, Online, Ban, Kick, run
  <2> QED BY <1>0, <2>1, <2>2, ArrangedBySweep
<1>2. ASSUME NEW m \in Members, Queue(m) PROVE Arranged'
  <2>1. Line("queue", m, 0)
    BY <1>2, QueueLine
  <2>2. sweep' = sweep /\ tables' = tables
    BY <1>2 DEF Queue, run, people
  <2> QED BY <1>0, <2>1, <2>2, ArrangedByLine
<1>3. CASE PassSeat
  <2>1. PICK oldest : oldest = Oldest(sweep.group)
    OBVIOUS
  <2>2. tables' = tables /\ sweep.stage = "pass"
    BY <1>3 DEF PassSeat, people
  <2>3. \/ /\ Line("seat", told[oldest].member, sweep.table)
           /\ sweep' = [sweep EXCEPT !.stage = "await"]
        \/ serialised' = serialised
    BY <1>3, <2>1, SweepLine
  <2>4. CASE /\ Line("seat", told[oldest].member, sweep.table)
             /\ sweep' = [sweep EXCEPT !.stage = "await"]
    BY <1>0, <2>2, <2>4, ArrangedByLine
  <2>5. CASE serialised' = serialised
    BY <1>0, <1>3, <2>2, <2>5, ArrangedBySweep DEF Sweeping
  <2> QED BY <2>3, <2>4, <2>5
<1>4. CASE QueueTask
  <2>1. Holds("queue", "wait") /\ serialised' = Tail(serialised) /\ sweep' = sweep
        /\ tables' = tables
    BY <1>4 DEF QueueTask, run, people
  <2>2. Task1.op = "queue" /\ Task1 = serialised[1]
    BY <2>1, Holder DEF TypeInv, Lock
  <2>3. Now = {} /\ Now' = {} /\ OnlySweeps'
    BY <1>0, <2>1, <2>2, SweepsByTail DEF Now, Arranged
  <2>4. SameSeats
    BY <2>1 DEF SameSeats, TypeInv, Rooms
  <2>5. Known' = Known
    BY <2>1, <2>3 DEF Known
  <2> QED BY <1>0, <2>1, <2>3, <2>4, <2>5, ArrangedStill
<1>5. CASE SeatTask
  BY <1>0, <1>5, ArrangedBySeat
<1>6. CASE SeatRefused
  <2>1. PICK op \in {"sit", "seat"} : Holds(op, "wait") /\ Finished(0, "cancelled") /\ tables' = tables
    BY <1>6 DEF SeatRefused, Seating
  <2>2. SameSeats
    BY <2>1 DEF SameSeats, TypeInv, Rooms
  <2>3. OneSeat' /\ SeatedAt' = SeatedAt
    BY <1>0, <2>2, SeatsStill DEF Arranged
  <2> QED BY <1>0, <2>1, <2>3, ArrangedByDone
<1>7. CASE BuyIn
  <2>1. PICK op \in {"sit", "seat"}, new \in Task :
            Goes(op, "paying", new) /\ new.stage \in {"signing", "unseating"} /\ SameSeats
    BY <1>7, BuyInFacts
  <2>2. sweep' = sweep
    BY <1>7 DEF BuyIn, run
  <2>3. OnlySweeps' /\ Now' = Now
    BY <1>0, <2>1, SweepsByStage DEF Arranged
  <2>4. Known' = Known
    BY <2>2, <2>3 DEF Known
  <2> QED BY <1>0, <2>1, <2>2, <2>3, <2>4, ArrangedStill
<1>8. CASE Granted
  <2>1. PICK op \in {"sit", "seat"} :
            Holds(op, "signing") /\ Finished(Task1.table, "matched") /\ tables' = tables
    BY <1>8 DEF Granted, Seating
  <2>2. SameSeats
    BY <2>1 DEF SameSeats, TypeInv, Rooms
  <2>3. OneSeat' /\ SeatedAt' = SeatedAt
    BY <1>0, <2>2, SeatsStill DEF Arranged
  <2>4. Task1.table # 0
    <3>1. Task1 = serialised[1] /\ 1 \in DOMAIN serialised /\ Task1.stage = "signing"
      BY <2>1, Holder DEF TypeInv, Lock
    <3>2. Task1.table \in DOMAIN tables
      BY <3>1 DEF LedgerInv, Held
    <3> QED BY <3>2, LenProperties DEF TypeInv, Rooms
  <2> QED BY <1>0, <2>1, <2>3, <2>4, ArrangedByDone
<1>9. CASE Unseat
  BY <1>0, <1>9, ArrangedByUnseat
<1>10. CASE SettleTask \/ LeaveTask
  <2>1. PICK op \in {"settle", "leave"} : Holds(op, "wait")
    BY <1>10 DEF SettleTask, LeaveTask
  <2>2. Task1 = serialised[1] /\ 1 \in DOMAIN serialised /\ Task1.op = op /\ ~Stuck
    BY <2>1, Holder, StuckFirst DEF TypeInv, Lock
  <2> QED BY <1>0, <2>2 DEF Arranged, OnlySweeps
<1> QED BY <1>0, <1>1, <1>2, <1>3, <1>4, <1>5, <1>6, <1>7, <1>8, <1>9, <1>10
     DEF Next, Sweeping, LedgerTurn, Calls

-----------------------------------------------------------------------------
(* Who meets at a table. *)

(* Getting along is mutual. *)
LEMMA BothWays ==
    ASSUME NEW a, NEW b, GetAlong(a, b)
    PROVE  GetAlong(b, a)
BY DEF GetAlong, Compatible

(* ... and stays so. *)
LEMMA StillAlong ==
    ASSUME ToldSame, NEW a \in DOMAIN told, NEW b \in DOMAIN told, GetAlong(a, b)
    PROVE  GetAlong(a, b)'
BY DEF GetAlong, ToldSame

(* Who has a seat at a table is among those that sit there.                 *)
LEMMA AtTable ==
    ASSUME TypeInv, NEW t \in DOMAIN tables, NEW a
    PROVE  At(a, t) <=> HasSeat(a, t)
<1>1. tables[t] \in Table
  BY SeqEntries DEF TypeInv, Rooms
<1>2. DOMAIN tables[t].seats = 1 .. Width
  BY <1>1 DEF Table
<1> QED BY <1>2 DEF ToSet, At, HasSeat

(* Every ticket is a member's. *)
LEMMA TheirTickets ==
    ASSUME TypeInv
    PROVE  /\ \A a \in DOMAIN told : told[a].member \in Members /\ told[a].member # Nobody
           /\ \A a \in Matched : a \in DOMAIN told
           /\ \A g \in sweep.group : g \in DOMAIN told
           /\ sweep.table # 0 => sweep.table \in DOMAIN tables
<1>1. \A a \in DOMAIN told : told[a] \in Issued
  BY SeqEntries DEF TypeInv, Book
<1>2. Len(tables) \in Nat /\ DOMAIN tables = 1 .. Len(tables)
  BY LenProperties DEF TypeInv, Rooms
<1> QED BY <1>1, <1>2, NobodyAssumption DEF Issued, Matched, TypeInv, SweepShape

(* A ticket with one answer had none before it. *)
LEMMA FirstOnly ==
    ASSUME NEW answers \in Seq({"matched", "cancelled"}), NEW answer \in {"matched", "cancelled"},
           NEW more, more = Append(answers, answer), more = <<"matched">>
    PROVE  answer = "matched"
<1>1. PICK longer : longer = Append(answers, answer)
  OBVIOUS
<1>2. /\ Len(longer) = Len(answers) + 1 /\ Len(answers) \in Nat
      /\ longer[Len(answers) + 1] = answer
  BY <1>1, AppendFacts
<1>3. longer = <<"matched">>
  BY <1>1
<1>4. Len(longer) = 1 /\ longer[1] = "matched"
  BY <1>3
<1>5. Len(answers) + 1 = 1
  BY <1>2, <1>4
<1> QED BY <1>2, <1>4, <1>5

(* A ticket answered as cancelled is not matched by that. *)
LEMMA CancelledOnly ==
    ASSUME TypeInv, NEW ids, told' = told \/ told' = Answered(ids, "cancelled")
    PROVE  Matched' \subseteq Matched
<1>1. CASE told' = told
  BY <1>1 DEF Matched
<1>2. CASE told' = Answered(ids, "cancelled")
  <2>1. /\ DOMAIN told' = DOMAIN told
        /\ \A id \in DOMAIN told :
              /\ id \notin ids => told'[id] = told[id]
              /\ id \in ids => told'[id].answers = Append(told[id].answers, "cancelled")
    BY <1>2, AnswerFacts DEF TypeInv, Book
  <2>2. ASSUME NEW id \in Matched' PROVE id \in Matched
    <3>1. id \in DOMAIN told /\ told'[id].answers = <<"matched">>
      BY <2>1, <2>2 DEF Matched
    <3>2. told[id].answers \in Seq({"matched", "cancelled"})
      <4>1. told[id] \in Issued
        BY <3>1, SeqEntries DEF TypeInv, Book
      <4> QED BY <4>1 DEF Issued
    <3>3. id \notin ids
      BY <2>1, <3>1, <3>2, FirstOnly
    <3> QED BY <2>1, <3>1, <3>3 DEF Matched
  <2> QED BY <2>2
<1> QED BY <1>1, <1>2

(* A new ticket is not matched, whatever it replaces. *)
LEMMA NewIsNot ==
    ASSUME TypeInv, QueueTask
    PROVE  Matched' \subseteq Matched
<1>1. PICK ids, kept, new :
          /\ kept = Answered(ids, "cancelled") /\ told' = Append(kept, new)
          /\ new = [member |-> Task1.member, crit |-> Task1.crit, answers |-> << >>]
  BY DEF QueueTask, Task1
<1>2. new \in Issued /\ new.answers = << >>
  <2>1. Task1 \in Task
    BY Holder DEF QueueTask, TypeInv, Lock
  <2> QED BY <1>1, <2>1 DEF Task, Issued
<1>3. /\ kept \in Seq(Issued) /\ DOMAIN kept = DOMAIN told
      /\ \A id \in DOMAIN told :
            /\ id \notin ids => kept[id] = told[id]
            /\ id \in ids => kept[id].answers = Append(told[id].answers, "cancelled")
  BY <1>1, AnswerFacts DEF TypeInv, Book
<1>4. /\ \A id \in DOMAIN kept : told'[id] = kept[id]
      /\ \A id \in DOMAIN told' : id \in DOMAIN kept \/ id = Len(kept) + 1
      /\ told'[Len(kept) + 1] = new
  BY <1>1, <1>2, <1>3, AppendFacts
<1>5. new.answers # <<"matched">>
  BY <1>2
<1>6. ASSUME NEW id \in Matched' PROVE id \in Matched
  <2>1. id \in DOMAIN told' /\ told'[id].answers = <<"matched">>
    BY <1>6 DEF Matched
  <2>2. id \in DOMAIN kept
    BY <1>4, <1>5, <2>1
  <2>3. id \in DOMAIN told /\ kept[id].answers = <<"matched">>
    BY <1>3, <1>4, <2>1, <2>2
  <2>4. told[id].answers \in Seq({"matched", "cancelled"})
    <3>1. told[id] \in Issued
      BY <2>3, SeqEntries DEF TypeInv, Book
    <3> QED BY <3>1 DEF Issued
  <2>5. id \notin ids
    BY <1>3, <2>3, <2>4, FirstOnly
  <2> QED BY <1>3, <2>3, <2>5 DEF Matched
<1> QED BY <1>6

(* A seat granted matches one ticket. *)
LEMMA OneIsMatched ==
    ASSUME TypeInv, NEW oldest, told' = Answered({oldest}, "matched")
    PROVE  Matched' \subseteq Matched \cup {oldest}
<1>1. /\ DOMAIN told' = DOMAIN told
      /\ \A id \in DOMAIN told : id \notin {oldest} => told'[id] = told[id]
  BY AnswerFacts DEF TypeInv, Book
<1> QED BY <1>1 DEF Matched

(* No seat is taken, though some may be given up. *)
FewerSeats ==
    \A t \in DOMAIN tables' : \A i \in 1 .. Width :
        tables'[t].seats[i] # Nobody =>
            t \in DOMAIN tables /\ tables[t].seats[i] = tables'[t].seats[i]

(* Who sat with whom stays so, when nobody sits down and no ticket is matched. *)
LEMMA CompanionsStill ==
    ASSUME TypeInv, TypeInv', Companions, ToldSame, FewerSeats, Matched' \subseteq Matched,
           OwnTable', NowSits', \A a \in Matched' : told[a].member \in SeatedAt' /\ told[a].member \notin Now',
           \/ sweep'.group = {} \/ sweep'.table = 0
           \/ sweep'.group \subseteq sweep.group /\ sweep'.table = sweep.table,
           sweep'.table = 0 /\ Now' # {} =>
              /\ sweep.table = 0 /\ Now # {} /\ serialised'[1].table = serialised[1].table
              /\ serialised[1].table \in DOMAIN tables'
    PROVE  Companions'
<1>1. /\ \A a \in Matched : a \in DOMAIN told
      /\ \A a \in DOMAIN told : told'[a].member = told[a].member /\ told[a].member # Nobody
      /\ \A g \in sweep.group : g \in DOMAIN told
      /\ sweep'.table # 0 => sweep'.table \in DOMAIN tables'
  <2>1. sweep'.table # 0 => sweep'.table \in DOMAIN tables'
    BY TheirTickets, LenProperties DEF TypeInv, SweepShape, Rooms
  <2> QED BY <2>1, TheirTickets DEF ToldSame
<1>2. ASSUME NEW a \in Matched', NEW t \in DOMAIN tables', HasSeat(a, t)'
      PROVE  a \in Matched /\ t \in DOMAIN tables /\ HasSeat(a, t)
  <2>1. PICK i \in 1 .. Width : tables'[t].seats[i] = told'[a].member
    BY <1>2 DEF HasSeat
  <2> QED BY <1>1, <2>1 DEF FewerSeats, HasSeat
<1>3. MatchedSit'
  BY <1>1 DEF MatchedSit
<1>4. RestFits'
  <2>1. ASSUME sweep'.table # 0, NEW a \in Matched', NEW g \in sweep'.group,
               HasSeat(a, sweep.table)'
        PROVE  GetAlong(a, g)'
    <3>1. sweep'.table = sweep.table /\ g \in sweep.group
      BY <2>1
    <3>2. a \in Matched /\ HasSeat(a, sweep.table)
      <4>1. PICK t : t = sweep.table
        OBVIOUS
      <4>2. HasSeat(a, t)' /\ t \in DOMAIN tables'
        BY <1>1, <2>1, <3>1, <4>1 DEF HasSeat
      <4> QED BY <1>2, <4>1, <4>2
    <3>3. GetAlong(a, g)
      BY <2>1, <3>1, <3>2 DEF Companions, RestFits
    <3> QED BY <1>1, <3>1, <3>2, <3>3, StillAlong
  <2> QED BY <2>1 DEF RestFits
<1>5. FirstAlone'
  <2>1. ASSUME sweep'.table = 0, Now' # {}, NEW a \in Matched', NEW t, t = serialised'[1].table,
               HasSeat(a, t)'
        PROVE  FALSE
    <3>1. sweep.table = 0 /\ Now # {} /\ t = serialised[1].table /\ t \in DOMAIN tables'
      BY <2>1
    <3>2. a \in Matched /\ HasSeat(a, t)
      BY <1>2, <2>1, <3>1
    <3> QED BY <3>1, <3>2 DEF Companions, FirstAlone
  <2> QED BY <2>1 DEF FirstAlone, HasSeat
<1>6. Meeting'
  <2>1. ASSUME NEW a \in Matched', NEW b \in Matched', NEW t \in DOMAIN tables', a # b,
               HasSeat(a, t)', HasSeat(b, t)'
        PROVE  GetAlong(a, b)'
    <3>1. /\ a \in Matched /\ b \in Matched /\ t \in DOMAIN tables
          /\ HasSeat(a, t) /\ HasSeat(b, t)
      BY <1>2, <2>1
    <3>2. GetAlong(a, b)
      BY <2>1, <3>1 DEF Companions, Meeting
    <3> QED BY <1>1, <3>1, <3>2, StillAlong
  <2> QED BY <2>1 DEF Meeting
<1> QED BY <1>3, <1>4, <1>5, <1>6 DEF Companions

(* ... and when the seats and the line stay as they are, ... *)
LEMMA CompanionsQuiet ==
    ASSUME TypeInv, TypeInv', LedgerInv, Companions, ToldSame, SameSeats, OneSeat,
           Matched' \subseteq Matched, OwnTable', Now' = Now,
           Now # {} => /\ serialised'[1].table = serialised[1].table
                       /\ serialised'[1].member = serialised[1].member
                       /\ serialised'[1].stage # "settling" => serialised[1].stage # "settling",
           \/ sweep' = sweep
           \/ /\ Now = {}
              /\ \/ sweep'.group = {} \/ sweep'.table = 0
                 \/ sweep'.group \subseteq sweep.group /\ sweep'.table = sweep.table
    PROVE  Companions'
<1>1. SeatedAt' = SeatedAt
  BY SeatsStill
<1>2. FewerSeats
  BY DEF FewerSeats, SameSeats
<1>3. \A a \in Matched' : told[a].member \in SeatedAt' /\ told[a].member \notin Now'
  BY <1>1 DEF Companions, MatchedSit
<1>4. Now # {} => serialised[1].table \in DOMAIN tables
  <2>1. ASSUME Now # {} PROVE serialised[1].table \in DOMAIN tables
    <3>1. Len(serialised) # 0 /\ serialised[1].stage # "wait"
      BY <2>1 DEF Now
    <3>2. 1 \in DOMAIN serialised
      BY <3>1, LenProperties DEF TypeInv, Lock
    <3> QED BY <3>1, <3>2 DEF LedgerInv, Held
  <2> QED BY <2>1
<1>5. NowSits'
  BY <1>4 DEF Companions, NowSits, SameSeats
<1>6. serialised[1].table \in DOMAIN tables => serialised[1].table \in DOMAIN tables'
  BY DEF SameSeats
<1> QED BY <1>2, <1>3, <1>4, <1>5, <1>6, CompanionsStill

(* With no seat asked for, a sweep's task gets the table it asks for, or opens one. *)
LEMMA SeatTaskTable ==
    ASSUME TypeInv, SeatTask, Task1.table # 0 \/ Task1.fresh
    PROVE  serialised'[1].table = IF Task1.table # 0 THEN Task1.table ELSE Len(tables) + 1
<1>1. PICK op \in {"sit", "seat"} : Holds(op, "wait")
  BY DEF SeatTask, Seating
<1>2. Task1 \in Task /\ Task1 = serialised[1] /\ 1 \in DOMAIN serialised
  BY <1>1, Holder DEF TypeInv, Lock
<1>3. CASE Task1.table # 0
  <2>1. Stage("paying")
    BY <1>3 DEF SeatTask
  <2>2. serialised'[1] = [Task1 EXCEPT !.stage = "paying"]
    BY <1>2, <2>1 DEF Stage
  <2> QED BY <1>2, <1>3, <2>2 DEF Task
<1>4. CASE Task1.table = 0
  <2>1. serialised' = [serialised EXCEPT ![1].stage = "paying", ![1].table = Len(tables) + 1]
    BY <1>4 DEF SeatTask
  <2>2. PICK table : table = Len(tables) + 1
    OBVIOUS
  <2>3. serialised'[1] = [Task1 EXCEPT !.stage = "paying", !.table = table]
    BY <1>2, <2>1, <2>2
  <2> QED BY <1>2, <1>4, <2>2, <2>3 DEF Task
<1> QED BY <1>3, <1>4

(* The sweep's member sits down: at its group's table, or at one it opens.  *)
LEMMA CompanionsBySeat ==
    ASSUME TypeInv, TypeInv', LedgerInv, SweepInv, Arranged, Companions, ToldSame, SeatTask
    PROVE  Companions'
<1>1. PICK op \in {"sit", "seat"}, new \in Task :
          Goes(op, "wait", new) /\ new.stage = "paying" /\ Sits(new.table, new.member)
  BY SeatTaskFacts
<1>2. sweep' = sweep /\ told' = told
  BY DEF SeatTask, run, book
<1>3. OnlySweeps' /\ Now' = {new.member} /\ Now = {} /\ Holds(op, "wait") /\ new.member = Task1.member
      /\ op = "seat"
  BY <1>1, SweepsByStage DEF Arranged, Goes
<1>4. /\ Task1 = serialised[1] /\ 1 \in DOMAIN serialised /\ Task1.op = "seat" /\ Task1.stage = "wait"
      /\ serialised # << >>
  BY <1>3, Holder DEF TypeInv, Lock
<1>5. /\ DOMAIN serialised' = DOMAIN serialised /\ serialised'[1] = new
      /\ \A i \in DOMAIN serialised : i # 1 => serialised'[i] = serialised[i]
  BY <1>1, <1>4, Staged DEF Goes, TypeInv, Lock
<1>6. new.op = "seat" /\ new.stage = "paying"
  BY <1>1, <1>3 DEF Goes
<1>7. Task1.table = sweep.table /\ (sweep.table = 0 => Task1.fresh)
  BY <1>4 DEF Companions, OwnTable
<1>8. new.table = IF sweep.table # 0 THEN sweep.table ELSE Len(tables) + 1
  BY <1>5, <1>7, SeatTaskTable
<1>9. \A i \in DOMAIN serialised : serialised[i].op = "seat" => i = 1
  BY <1>4 DEF SweepInv
<1>10. OwnTable'
  BY <1>2, <1>5, <1>6, <1>8, <1>9 DEF OwnTable
<1>11. PICK m \in Members : m = new.member /\ m \notin SeatedAt /\ m # Nobody
  <2>1. PICK oldest \in sweep.group : new.member = told[oldest].member
    BY <1>3, SeatsForSweep DEF Arranged
  <2>2. new.member \notin SeatedAt /\ new.member \in Members
    BY <1>3, <2>1, SeatsForSweep DEF Arranged
  <2> QED BY <2>2, NobodyAssumption
<1>12. OneSeat' /\ SeatedAt' = SeatedAt \cup {m}
  BY <1>1, <1>11, OneMoreSits DEF Arranged
<1>13. Matched' = Matched
  BY <1>2 DEF Matched
<1>14. PICK k \in 1 .. Width :
          /\ new.table \in DOMAIN tables'
          /\ \A u \in DOMAIN tables' : \A j \in 1 .. Width :
                tables'[u].seats[j] = IF u = new.table /\ j = k THEN m
                                      ELSE IF u \in DOMAIN tables THEN tables[u].seats[j] ELSE Nobody
  BY <1>1, <1>11 DEF Sits
<1>15. MatchedSit'
  <2>1. ASSUME NEW a \in Matched
        PROVE  told[a].member \in SeatedAt' /\ told[a].member \notin Now'
    BY <1>3, <1>11, <1>12 DEF Companions, MatchedSit
  <2> QED BY <1>2, <1>13, <2>1 DEF MatchedSit
<1>16. NowSits'
  <2>1. tables'[new.table].seats[k] = m
    BY <1>14
  <2> QED BY <1>5, <1>11, <2>1 DEF NowSits
<1>17. ASSUME NEW a \in Matched, NEW t \in DOMAIN tables', HasSeat(a, t)'
       PROVE  t \in DOMAIN tables /\ HasSeat(a, t)
  <2>1. PICK i \in 1 .. Width : tables'[t].seats[i] = told[a].member
    BY <1>2, <1>17 DEF HasSeat
  <2>2. told[a].member \in SeatedAt /\ told[a].member # Nobody
    BY TheirTickets DEF Companions, MatchedSit
  <2>3. told[a].member # m
    BY <1>11, <2>2
  <2> QED BY <1>14, <2>1, <2>2, <2>3 DEF HasSeat
<1>18. RestFits'
  <2>1. ASSUME sweep.table # 0, NEW a \in Matched, NEW g \in sweep.group, HasSeat(a, sweep.table)'
        PROVE  GetAlong(a, g)
    <3>1. sweep.table \in DOMAIN tables'
      BY <1>8, <1>14, <2>1
    <3>2. PICK t : t = sweep.table
      OBVIOUS
    <3>3. HasSeat(a, t)'
      BY <1>2, <2>1, <3>2 DEF HasSeat
    <3>4. HasSeat(a, sweep.table)
      BY <1>17, <3>1, <3>2, <3>3
    <3> QED BY <2>1, <3>4 DEF Companions, RestFits
  <2> QED BY <1>2, <1>13, <2>1 DEF RestFits, GetAlong, HasSeat
<1>19. FirstAlone'
  <2>1. ASSUME sweep.table = 0, NEW a \in Matched, NEW t, t = new.table, HasSeat(a, t)'
        PROVE  FALSE
    <3>1. t \in DOMAIN tables
      BY <1>14, <1>17, <2>1
    <3>2. Len(tables) \in Nat /\ DOMAIN tables = 1 .. Len(tables)
      BY LenProperties DEF TypeInv, Rooms
    <3>3. t = Len(tables) + 1
      BY <1>8, <2>1
    <3> QED BY <3>1, <3>2, <3>3
  <2> QED BY <1>2, <1>5, <1>13, <2>1 DEF FirstAlone, HasSeat
<1>20. Meeting'
  <2>1. ASSUME NEW a \in Matched, NEW b \in Matched, NEW t \in DOMAIN tables', a # b,
               HasSeat(a, t)', HasSeat(b, t)'
        PROVE  GetAlong(a, b)
    BY <1>17, <2>1 DEF Companions, Meeting
  <2> QED BY <1>2, <1>13, <2>1 DEF Meeting, GetAlong
<1> QED BY <1>10, <1>15, <1>16, <1>18, <1>19, <1>20 DEF Companions

(* The sweep's task ends without a seat.                                    *)
LEMMA CompanionsByEnd ==
    ASSUME TypeInv, TypeInv', LedgerInv, SweepInv, OnlySweeps, Companions, ToldSame,
           NEW op \in {"sit", "seat"}, NEW stage \in {"wait", "unseating"}, Holds(op, stage),
           Finished(0, "cancelled"), FewerSeats,
           SeatedAt' = SeatedAt \ Now
    PROVE  Companions'
<1>1. op = "seat"
  BY SeatsForSweep
<1>2. PICK oldest : oldest = Oldest(sweep.group)
  OBVIOUS
<1>3. /\ sweep' = [sweep EXCEPT !.stage = "pass", !.group = @ \ {oldest},
                                !.table = IF @ = 0 THEN 0 ELSE @]
      /\ told' = Answered({oldest}, "cancelled")
      /\ \A i \in DOMAIN serialised' : serialised'[i].op # "seat"
  BY <1>1, <1>2, SweepServed
<1>4. sweep'.group \subseteq sweep.group /\ sweep'.table = sweep.table
  BY <1>3 DEF TypeInv, SweepShape
<1>5. Matched' \subseteq Matched
  BY <1>3, CancelledOnly
<1>6. serialised' = Tail(serialised)
  BY DEF Finished
<1>7. Now' = {}
  BY <1>6, SweepsByTail
<1>8. OwnTable' /\ NowSits'
  BY <1>3, <1>7 DEF OwnTable, NowSits
<1>9. \A a \in Matched' : told[a].member \in SeatedAt' /\ told[a].member \notin Now'
  BY <1>5, <1>7 DEF Companions, MatchedSit
<1> QED BY <1>4, <1>5, <1>7, <1>8, <1>9, CompanionsStill

(* ... or with one: where a group sits already, or where nobody else does.  *)
LEMMA CompanionsByGrant ==
    ASSUME TypeInv, TypeInv', LedgerInv, SweepInv, GroupInv, Arranged, Companions, ToldSame, Granted
    PROVE  Companions'
<1>1. PICK op \in {"sit", "seat"} :
          Holds(op, "signing") /\ Finished(Task1.table, "matched") /\ tables' = tables
  BY DEF Granted, Seating
<1>2. op = "seat" /\ Now = {Task1.member}
  BY <1>1, SeatsForSweep DEF Arranged
<1>3. PICK oldest \in sweep.group : oldest = Oldest(sweep.group) /\ Task1.member = told[oldest].member
  BY <1>1, SeatsForSweep DEF Arranged
<1>4. /\ Task1 = serialised[1] /\ 1 \in DOMAIN serialised /\ Task1.op = "seat"
      /\ Task1.stage = "signing"
  BY <1>1, <1>2, Holder DEF TypeInv, Lock
<1>5. PICK table \in DOMAIN tables : table = Task1.table
  BY <1>4 DEF LedgerInv, Held
<1>6. table # 0
  BY LenProperties DEF TypeInv, Rooms
<1>7. /\ sweep' = [sweep EXCEPT !.stage = "pass", !.group = @ \ {oldest},
                                !.table = IF @ = 0 THEN table ELSE @]
      /\ told' = Answered({oldest}, "matched")
      /\ \A i \in DOMAIN serialised' : serialised'[i].op # "seat"
  BY <1>1, <1>2, <1>3, <1>5, SweepServed
<1>8. sweep.table # 0 => table = sweep.table
  BY <1>4, <1>5 DEF Companions, OwnTable
<1>9. sweep'.group = sweep.group \ {oldest} /\ sweep'.table = table
  BY <1>7, <1>8 DEF TypeInv, SweepShape
<1>10. Matched' \subseteq Matched \cup {oldest}
  BY <1>7, OneIsMatched
<1>11. serialised' = Tail(serialised)
  BY <1>1 DEF Finished
<1>12. Now' = {}
  BY <1>1, <1>11, SweepsByTail DEF Arranged
<1>13. OwnTable' /\ NowSits' /\ FirstAlone'
  BY <1>7, <1>12 DEF OwnTable, NowSits, FirstAlone
<1>14. /\ \A a \in DOMAIN told : told'[a].member = told[a].member /\ told[a].member # Nobody
       /\ \A a \in Matched' : a \in DOMAIN told
       /\ \A g \in sweep.group : g \in DOMAIN told
  BY <1>10, TheirTickets DEF ToldSame
<1>15. SameSeats
  BY <1>1 DEF SameSeats, TypeInv, Rooms
<1>16. SeatedAt' = SeatedAt
  BY <1>15, SeatsStill DEF Arranged
<1>17. PICK k \in 1 .. Width : tables[table].seats[k] = told[oldest].member
  BY <1>2, <1>3, <1>4, <1>5 DEF Companions, NowSits
<1>18. told[oldest].member \in SeatedAt
  BY <1>3, <1>14, <1>17, SeatedAre
<1>19. MatchedSit'
  BY <1>10, <1>12, <1>14, <1>16, <1>18 DEF MatchedSit, Companions
<1>20. ASSUME NEW a \in Matched, NEW g \in sweep.group, HasSeat(a, table)
       PROVE  GetAlong(a, g)
  <2>1. CASE sweep.table # 0
    BY <1>8, <1>20, <2>1 DEF Companions, RestFits
  <2>2. CASE sweep.table = 0
    BY <1>2, <1>4, <1>5, <1>20, <2>2 DEF Companions, FirstAlone
  <2> QED BY <2>1, <2>2
<1>21. \A a \in Matched' : \A t \in DOMAIN tables : HasSeat(a, t)' <=> HasSeat(a, t)
  BY <1>1, <1>14 DEF HasSeat
<1>22. RestFits'
  <2>1. ASSUME NEW a \in Matched', NEW g \in sweep'.group, HasSeat(a, table)'
        PROVE  GetAlong(a, g)'
    <3>1. g \in sweep.group /\ g # oldest /\ HasSeat(a, table)
      BY <1>9, <1>21, <2>1
    <3>2. GetAlong(a, g)
      BY <1>10, <1>20, <3>1 DEF GroupInv
    <3> QED BY <1>14, <3>1, <3>2, StillAlong
  <2> QED BY <1>9, <2>1 DEF RestFits, HasSeat
<1>23. ASSUME NEW a \in Matched', NEW t \in DOMAIN tables, a # oldest, HasSeat(a, t), HasSeat(oldest, t)
       PROVE  GetAlong(a, oldest)
  <2>1. PICK i \in 1 .. Width : tables[t].seats[i] = told[oldest].member
    BY <1>23 DEF HasSeat
  <2>2. t = table
    BY <1>14, <1>17, <2>1 DEF Arranged, OneSeat
  <2> QED BY <1>10, <1>20, <1>23, <2>2
<1>24. Meeting'
  <2>1. ASSUME NEW a \in Matched', NEW b \in Matched', NEW t \in DOMAIN tables', a # b,
               HasSeat(a, t)', HasSeat(b, t)'
        PROVE  GetAlong(a, b)'
    <3>1. t \in DOMAIN tables /\ HasSeat(a, t) /\ HasSeat(b, t)
      BY <1>1, <1>21, <2>1
    <3>2. GetAlong(a, b)
      <4>1. CASE a = oldest
        BY <1>23, <2>1, <3>1, <4>1, BothWays
      <4>2. CASE b = oldest
        BY <1>23, <2>1, <3>1, <4>2
      <4>3. CASE a # oldest /\ b # oldest
        <5>1. a \in Matched /\ b \in Matched
          BY <1>10, <2>1, <4>3
        <5> QED BY <2>1, <3>1, <5>1 DEF Companions, Meeting
      <4> QED BY <4>1, <4>2, <4>3
    <3> QED BY <1>14, <2>1, <3>2, StillAlong
  <2> QED BY <2>1 DEF Meeting
<1> QED BY <1>13, <1>19, <1>22, <1>24 DEF Companions

(* ... or gives its seat back, to a registry that settles or does not.      *)
LEMMA CompanionsByUnseat ==
    ASSUME TypeInv, TypeInv', LedgerInv, SweepInv, Arranged, Companions, ToldSame, Unseat
    PROVE  Companions'
<1>1. PICK op \in {"sit", "seat"}, i \in 1 .. Width :
          /\ Holds(op, "unseating") /\ Task1.table \in DOMAIN tables
          /\ tables[Task1.table].seats[i] = Task1.member /\ Reseated(Task1.table, i, Nobody)
          /\ Finished(0, "cancelled") \/ Settles(op)
  BY UnseatFacts
<1>2. op = "seat" /\ Now = {Task1.member} /\ Task1.member \in Members
  BY <1>1, SeatsForSweep DEF Arranged
<1>3. PICK m \in Members : m = Task1.member
  BY <1>2
<1>4. OneSeat' /\ SeatedAt' = SeatedAt \ {m}
  BY <1>1, <1>3, OneLessSits DEF Arranged
<1>5. FewerSeats
  BY <1>1 DEF FewerSeats, Reseated
<1>6. CASE Finished(0, "cancelled")
  BY <1>1, <1>2, <1>3, <1>4, <1>5, <1>6, CompanionsByEnd DEF Arranged
<1>7. CASE Settles(op)
  <2>1. /\ sweep' = sweep /\ told' = told /\ 1 \in DOMAIN serialised' /\ serialised'[1].op = "seat"
        /\ serialised'[1].stage = "settling" /\ serialised'[1].member = m
        /\ serialised'[1].table = Task1.table /\ serialised' \in Seq(Task)
        /\ \A k \in DOMAIN serialised' :
              \/ k = 1
              \/ serialised'[k].op = "settle"
              \/ k \in DOMAIN serialised /\ serialised'[k] = serialised[k]
    BY <1>2, <1>3, <1>7 DEF Settles, run, book
  <2>2. /\ Task1 = serialised[1] /\ 1 \in DOMAIN serialised /\ Task1.op = "seat"
        /\ Task1.stage = "unseating"
    BY <1>1, <1>2, Holder DEF TypeInv, Lock
  <2>3. Now' = {m}
    <3>1. PICK line \in Seq(Task) : line = serialised'
      BY <2>1
    <3>2. Len(line) # 0
      BY <2>1, <3>1, LenProperties
    <3> QED BY <2>1, <3>1, <3>2 DEF Now
  <2>4. \A k \in DOMAIN serialised : serialised[k].op = "seat" => k = 1
    BY <2>2 DEF SweepInv
  <2>5. OwnTable'
    <3>1. \A k \in DOMAIN serialised' : serialised'[k].op = "seat" => k = 1
      BY <2>1, <2>4
    <3>2. sweep.table # 0 => Task1.table = sweep.table
      BY <2>2 DEF Companions, OwnTable
    <3> QED BY <2>1, <3>1, <3>2 DEF OwnTable
  <2>6. NowSits'
    BY <2>1 DEF NowSits
  <2>7. Matched' = Matched
    BY <2>1 DEF Matched
  <2>8. \A a \in Matched' : told[a].member \in SeatedAt' /\ told[a].member \notin Now'
    BY <1>2, <1>3, <1>4, <2>3, <2>7 DEF Companions, MatchedSit
  <2>9. /\ Now # {} /\ serialised'[1].table = serialised[1].table
        /\ serialised[1].table \in DOMAIN tables'
    BY <1>1, <1>2, <2>1, <2>2 DEF Reseated
  <2> QED BY <1>5, <2>1, <2>5, <2>6, <2>7, <2>8, <2>9, CompanionsStill
<1> QED BY <1>1, <1>6, <1>7

(* What the line and the sweep leave alone while no seat is taken for it.   *)
LEMMA OwnTableQuiet ==
    ASSUME TypeInv, SweepInv, OwnTable, serialised' = serialised,
           sweep' = sweep \/ sweep.stage # "await"
    PROVE  OwnTable'
BY DEF OwnTable, SweepInv

(* Every step but a sit or leave keeps it so.                               *)
LEMMA CompanyKept ==
    ASSUME TypeInv, TypeInv', LedgerInv, SweepInv, GroupInv, SeatInv, CompanyInv, Next
    PROVE  CompanyInv'
<1> SUFFICES ASSUME moves' = 0 PROVE Companions'
  BY DEF CompanyInv
<1>0. /\ Arranged /\ Companions /\ ToldSame /\ OnlySweeps /\ OneSeat
      /\ \A m \in Members : ~AskSeat(m) /\ ~Leave(m)
  BY Unmoved, ToldKept DEF SeatInv, CompanyInv, Arranged
<1>1. CASE \/ Tick \/ Drain \/ Grace \/ Expiry \/ Pause \/ Resume
           \/ PassStart \/ PassTemplate \/ PassGroup \/ PassSeated \/ PassEnd
           \/ \E m \in Members : Unqueue(m) \/ Offline(m) \/ Online(m) \/ Ban(m) \/ Kick(m)
  <2>1. serialised' = serialised /\ tables' = tables
    BY <1>1 DEF Tick, Drain, Grace, Expiry, Pause, Resume, PassStart, PassTemplate, PassGroup,
       PassSeated, PassEnd, Unqueue, Offline, Online, Ban, Kick, people, lock
  <2>2. \E ids : told' = told \/ told' = Answered(ids, "cancelled")
    BY <1>1 DEF Tick, Drain, Grace, Expiry, Pause, Resume, PassStart, PassTemplate, PassGroup,
       PassSeated, PassEnd, Unqueue, Offline, Online, Ban, Kick, Drop, book
  <2>3. Matched' \subseteq Matched
    BY <2>2, CancelledOnly
  <2>4. \/ sweep' = sweep
        \/ /\ sweep.stage # "await"
           /\ \/ sweep'.group = {} \/ sweep'.table = 0
              \/ sweep'.group \subseteq sweep.group /\ sweep'.table = sweep.table
    <3>1. CASE Tick \/ Resume \/ \E m \in Members : Kick(m)
      BY <3>1 DEF Tick, Resume, Kick, Run, NoSweep
    <3>2. CASE \/ Drain \/ Grace \/ Expiry \/ Pause
               \/ \E m \in Members : Unqueue(m) \/ Offline(m) \/ Online(m) \/ Ban(m)
      BY <3>2 DEF Drain, Grace, Expiry, Pause, Unqueue, Offline, Online, Ban, run
    <3>3. CASE PassStart \/ PassTemplate \/ PassSeated
      BY <3>3 DEF PassStart, PassTemplate, PassSeated, TypeInv, SweepShape
    <3>4. CASE PassGroup
      <4>1. PICK group : group = Head(sweep.groups)
        OBVIOUS
      <4>2. \/ sweep' = [sweep EXCEPT !.groups = Tail(@), !.group = group, !.table = 0,
                                      !.company = {told[id].member : id \in group}]
            \/ sweep' = [sweep EXCEPT !.groups = Tail(@)]
        BY <3>4, <4>1 DEF PassGroup
      <4>3. sweep.stage # "await"
        BY <3>4 DEF PassGroup
      <4> QED BY <4>2, <4>3 DEF TypeInv, SweepShape
    <3>5. CASE PassEnd
      BY <3>5 DEF PassEnd, NoSweep
    <3> QED BY <1>1, <3>1, <3>2, <3>3, <3>4, <3>5
  <2>5. OwnTable'
    BY <1>0, <2>1, <2>4, OwnTableQuiet DEF Companions
  <2>6. Now' = Now /\ (sweep.stage # "await" => Now = {})
    BY <2>1, NowWaits DEF Now
  <2>7. SameSeats
    BY <2>1 DEF SameSeats, TypeInv, Rooms
  <2> QED BY <1>0, <2>1, <2>3, <2>4, <2>5, <2>6, <2>7, CompanionsQuiet
<1>2. ASSUME NEW m \in Members, Queue(m) PROVE Companions'
  <2>1. PICK task \in Task : serialised' = Append(serialised, task) /\ task.op = "queue"
    BY <1>2, QueueLine DEF Line
  <2>2. sweep' = sweep /\ tables' = tables /\ told' = told
    BY <1>2 DEF Queue, run, people, book
  <2>3. /\ DOMAIN serialised = 1 .. Len(serialised) /\ Len(serialised) \in Nat
        /\ \A i \in DOMAIN serialised : i \in DOMAIN serialised' /\ serialised'[i] = serialised[i]
        /\ \A i \in DOMAIN serialised' : i \in DOMAIN serialised \/ i = Len(serialised) + 1
        /\ serialised'[Len(serialised) + 1] = task
    BY <2>1, Lined DEF TypeInv, Lock
  <2>4. Now' = Now
    BY <1>0, <1>2, QueueLine, SweepsByLine
  <2>5. OwnTable'
    BY <1>0, <2>1, <2>2, <2>3 DEF OwnTable, Companions
  <2>6. Now # {} => serialised'[1] = serialised[1]
    BY <2>3 DEF Now
  <2>7. SameSeats /\ Matched' = Matched
    BY <2>2 DEF SameSeats, TypeInv, Rooms, Matched
  <2> QED BY <1>0, <2>2, <2>4, <2>5, <2>6, <2>7, CompanionsQuiet
<1>3. CASE PassSeat
  <2>1. PICK oldest : oldest = Oldest(sweep.group)
    OBVIOUS
  <2>2. tables' = tables /\ sweep.stage = "pass" /\ told' = told
    BY <1>3 DEF PassSeat, people, book
  <2>3. SameSeats /\ Matched' = Matched /\ Now = {}
    BY <2>2, NowWaits DEF SameSeats, TypeInv, Rooms, Matched
  <2>4. ASSUME NEW task \in Task, serialised' = Append(serialised, task),
               task.op = "seat", task.table = sweep.table, task.stage = "wait",
               sweep.table = 0 => task.fresh, task.member = told[oldest].member,
               sweep' = [sweep EXCEPT !.stage = "await"]
        PROVE  Companions'
    <3>1. sweep'.group = sweep.group /\ sweep'.table = sweep.table
      BY <2>4 DEF TypeInv, SweepShape
    <3>2. /\ \A i \in DOMAIN serialised : serialised'[i] = serialised[i] /\ serialised[i].op # "seat"
          /\ \A i \in DOMAIN serialised' : i \in DOMAIN serialised \/ i = Len(serialised) + 1
          /\ serialised'[Len(serialised) + 1] = task
      BY <2>2, <2>4, Lined DEF TypeInv, Lock, SweepInv
    <3>3. OwnTable'
      BY <2>4, <3>1, <3>2 DEF OwnTable
    <3>4. Line("seat", told[oldest].member, sweep.table)
      BY <2>4 DEF Line
    <3>5. Now' = Now
      BY <1>0, <3>4, SweepsByLine
    <3> QED BY <1>0, <2>3, <3>1, <3>3, <3>5, CompanionsQuiet
  <2>5. CASE sweep' = [sweep EXCEPT !.group = @ \ {oldest}] /\ serialised' = serialised
    <3>1. sweep'.group \subseteq sweep.group /\ sweep'.table = sweep.table
      BY <2>5 DEF TypeInv, SweepShape
    <3>2. OwnTable'
      BY <1>0, <2>2, <2>5, OwnTableQuiet DEF Companions
    <3>3. Now' = Now
      BY <2>5 DEF Now
    <3> QED BY <1>0, <2>3, <3>1, <3>2, <3>3, CompanionsQuiet
  <2> QED BY <1>3, <2>1, <2>4, <2>5, SweepTask
<1>4. CASE QueueTask
  <2>1. Holds("queue", "wait") /\ serialised' = Tail(serialised) /\ sweep' = sweep
        /\ tables' = tables
    BY <1>4 DEF QueueTask, run, people
  <2>2. Task1.op = "queue" /\ Task1 = serialised[1] /\ serialised # << >>
    BY <2>1, Holder DEF TypeInv, Lock
  <2>3. Now = {} /\ Now' = {}
    BY <1>0, <2>1, <2>2, SweepsByTail DEF Now
  <2>4. \A i \in DOMAIN serialised' :
            i + 1 \in DOMAIN serialised /\ serialised'[i] = serialised[i + 1]
    BY <2>1, <2>2, Popped DEF TypeInv, Lock
  <2>5. OwnTable'
    BY <1>0, <2>1, <2>4 DEF OwnTable, Companions
  <2>6. SameSeats /\ Matched' \subseteq Matched
    BY <1>4, <2>1, NewIsNot DEF SameSeats, TypeInv, Rooms
  <2> QED BY <1>0, <2>1, <2>3, <2>5, <2>6, CompanionsQuiet
<1>5. CASE SeatTask
  BY <1>0, <1>5, CompanionsBySeat
<1>6. CASE SeatRefused
  <2>1. PICK op \in {"sit", "seat"} : Holds(op, "wait") /\ Finished(0, "cancelled") /\ tables' = tables
    BY <1>6 DEF SeatRefused, Seating
  <2>2. SameSeats
    BY <2>1 DEF SameSeats, TypeInv, Rooms
  <2>3. FewerSeats /\ SeatedAt' = SeatedAt
    BY <1>0, <2>2, SeatsStill DEF FewerSeats, SameSeats
  <2>4. Now = {}
    BY <1>0, <2>1, SeatsForSweep
  <2> QED BY <1>0, <2>1, <2>3, <2>4, CompanionsByEnd
<1>7. CASE BuyIn
  <2>1. PICK op \in {"sit", "seat"}, new \in Task :
            /\ Goes(op, "paying", new) /\ new.stage \in {"signing", "unseating"} /\ SameSeats
            /\ new.table = Task1.table
    BY <1>7, BuyInFacts
  <2>2. sweep' = sweep /\ told' = told
    BY <1>7 DEF BuyIn, run, book
  <2>3. Now' = Now
    BY <1>0, <2>1, SweepsByStage
  <2>4. /\ Task1 = serialised[1] /\ serialised # << >> /\ Task1.stage = "paying"
        /\ new.member = Task1.member /\ 1 \in DOMAIN serialised /\ new.op = op /\ Task1.op = op
    BY <2>1, Holder DEF Goes, TypeInv, Lock
  <2>5. /\ DOMAIN serialised' = DOMAIN serialised /\ serialised'[1] = new
        /\ \A i \in DOMAIN serialised : i # 1 => serialised'[i] = serialised[i]
    BY <2>1, <2>4, Staged DEF Goes, TypeInv, Lock
  <2>6. OwnTable'
    BY <1>0, <2>1, <2>2, <2>4, <2>5 DEF OwnTable, Companions
  <2>7. Matched' = Matched
    BY <2>2 DEF Matched
  <2> QED BY <1>0, <2>1, <2>2, <2>3, <2>4, <2>5, <2>6, <2>7, CompanionsQuiet
<1>8. CASE Granted
  BY <1>0, <1>8, CompanionsByGrant
<1>9. CASE Unseat
  BY <1>0, <1>9, CompanionsByUnseat
<1>10. CASE SettleTask \/ LeaveTask
  <2>1. PICK op \in {"settle", "leave"} : Holds(op, "wait")
    BY <1>10 DEF SettleTask, LeaveTask
  <2>2. Task1 = serialised[1] /\ 1 \in DOMAIN serialised /\ Task1.op = op /\ ~Stuck
    BY <2>1, Holder, StuckFirst DEF TypeInv, Lock
  <2> QED BY <1>0, <2>2 DEF OnlySweeps
<1> QED BY <1>0, <1>1, <1>2, <1>3, <1>4, <1>5, <1>6, <1>7, <1>8, <1>9, <1>10
     DEF Next, Sweeping, LedgerTurn, Calls

-----------------------------------------------------------------------------
(* The specification. *)

(* What holds in every state, with the callers, the sweeps that are coming and
   the seats.                                                               *)
Always == MatchInv /\ Callers /\ Coming /\ SeatInv /\ CompanyInv

(* A club that opens has nobody in its queue, its line and its tables. *)
LEMMA AtFirst ==
    ASSUME Init
    PROVE  Always
<1> USE DEF Init
<1>1. conf \in Conf /\ conf.events \in Nat /\ conf.moves \in Nat /\ conf.chips \subseteq Nat
  BY ConfsAssumption DEF Conf
<1>2. People
  <2>1. balance \in [Members -> Nat]
    BY <1>1
  <2>2. events \in 0 .. conf.events /\ moves \in 0 .. conf.moves
    BY <1>1
  <2> QED BY <1>1, <2>1, <2>2 DEF People
<1>3. DOMAIN told = {} /\ DOMAIN tables = {} /\ DOMAIN serialised = {}
      /\ Len(tables) = 0 /\ Len(serialised) = 0
  BY EmptySeq, LenProperties
<1>4. Book /\ Rooms /\ Lock
  BY DEF Book, Rooms, Lock, Queued
<1>5. AnyTemplate \in Templates
  BY <1>1, AnyTyped
<1>6. SweepShape
  BY <1>3, <1>5 DEF SweepShape, NoSweep
<1>7. LedgerInv /\ SweepInv /\ GroupInv /\ Callers
  BY <1>3 DEF LedgerInv, SweepInv, GroupInv, Callers, NoSweep
<1>8. BookInv
  BY <1>3 DEF BookInv, OneAnswer, Queued, NoSweep
<1>9. Coming
  BY DEF Coming, NoSweep
<1>10. SeatInv
  BY <1>3 DEF SeatInv, Arranged, OnlySweeps, OneSeat, NoSweep
<1>11. Matched = {} /\ Now = {}
  BY <1>3 DEF Matched, Now
<1>12. CompanyInv
  BY <1>3, <1>11 DEF CompanyInv, Companions, OwnTable, MatchedSit, NowSits, RestFits, FirstAlone,
     Meeting
<1> QED BY <1>2, <1>4, <1>6, <1>7, <1>8, <1>9, <1>10, <1>12 DEF Always, MatchInv, TypeInv

(* Every step keeps all of it. *)
LEMMA AlwaysNext ==
    ASSUME Always, [Next]_vars
    PROVE  Always'
<1>1. CASE Next
  <2>1. TypeInv'
    BY <1>1, TypesOfQueue, TypesOfSweep, TypesOfLedger DEF Next, LedgerTurn, Calls, Always, MatchInv
  <2>2. LedgerInv' /\ SweepInv' /\ BookInv' /\ GroupInv'
    BY <1>1, LedgerKept, SweepKeptOn, BookKeptOn, GroupsKept DEF Always, MatchInv
  <2>3. Callers' /\ Coming' /\ SeatInv' /\ CompanyInv'
    BY <1>1, <2>1, CallersKept, ComingKept, SeatsKept, CompanyKept DEF Always, MatchInv
  <2> QED BY <2>1, <2>2, <2>3 DEF Always, MatchInv
<1>2. CASE UNCHANGED vars
  <2>1. UNCHANGED <<conf, active, balance, tables, moves, tickets, told, serialised, call,
                    sweep, wanted, paused, events>>
    BY <1>2 DEF vars, people, book, lock, run
  <2>2. MatchInv'
    BY <2>1 DEF Always, MatchInv, TypeInv, People, Book, Rooms, Lock, SweepShape, Queued, LedgerInv,
       Held, Stuck, SweepInv, BookInv, OneAnswer, Pending, GroupInv, GetAlong
  <2>3. Callers' /\ Coming'
    BY <2>1 DEF Always, Callers, Coming, Stuck
  <2>4. SeatInv'
    BY <2>1 DEF Always, SeatInv, Arranged, OnlySweeps, Stuck, OneSeat, SeatedAt, Known, Now
  <2>5. CompanyInv'
    BY <2>1 DEF Always, CompanyInv, Companions, OwnTable, MatchedSit, SeatedAt, NowSits, RestFits,
       FirstAlone, Meeting, Matched, HasSeat, GetAlong, Now
  <2> QED BY <2>2, <2>3, <2>4, <2>5 DEF Always
<1> QED BY <1>1, <1>2

(* All of it holds in every state of every club.                            *)
THEOREM Matchmaking == Spec => []Always
<1> QED BY AtFirst, AlwaysNext, PTL DEF Spec

(* The ledger's holder waits for a settlement behind it only where the seat of a
   member banned meanwhile is given back, whatever the club and the registry. *)
THEOREM LedgerIsFree == Spec => []LedgerFree
<1>1. Always => LedgerFree
  BY DEF Always, MatchInv, LedgerInv, Held, LedgerFree
<1> QED BY <1>1, Matchmaking, PTL

(* Every ticket gets one answer, and none before it has left the queue and its
   seating is over.                                                         *)
THEOREM AnsweredOnce == Spec => []OneAnswer
<1>1. Always => OneAnswer
  BY DEF Always, MatchInv, BookInv
<1> QED BY <1>1, Matchmaking, PTL

(* When no sweep runs, one that began after each ticket came has looked at it,
   or is about to be asked for; with the types.                             *)
THEOREM NothingIsMissed == Spec => []NothingMissed
<1>1. Always => TypeOK
  <2>1. Always => SweepInv /\ TypeInv
    BY DEF Always, MatchInv
  <2> QED BY <2>1 DEF TypeOK, SweepInv, TypeInv, People, Book, Rooms, Lock, SweepShape
<1>2. Always => Coming
  BY DEF Always
<1>3. Coming => (sweep.stage = "off" =>
                    \A t \in tickets : t.seen \/ call[told[t.id].member] = "kick")
  BY DEF Coming
<1>4. Always => NothingMissed
  BY <1>1, <1>2, <1>3 DEF NothingMissed
<1> QED BY <1>4, Matchmaking, PTL

(* As long as nobody sits down by a call, a member has one seat at most.    *)
THEOREM OneSeatEach == Spec => []SeatedOnce
<1>1. ASSUME Always PROVE SeatedOnce
  <2> SUFFICES ASSUME moves = 0, NEW m \in Members
               PROVE  Cardinality({at \in (DOMAIN tables) \X (1 .. Width) :
                                      tables[at[1]].seats[at[2]] = m}) <= 1
    BY DEF SeatedOnce
  <2>1. OneSeat /\ m # Nobody
    BY <1>1, NobodyAssumption DEF Always, SeatInv, Arranged
  <2>2. PICK seats : seats = {at \in (DOMAIN tables) \X (1 .. Width) :
                                 tables[at[1]].seats[at[2]] = m}
    OBVIOUS
  <2>3. ASSUME NEW a \in seats, NEW b \in seats PROVE a = b
    <3>1. PICK t \in DOMAIN tables, i \in 1 .. Width : a = <<t, i>> /\ tables[t].seats[i] = m
      BY <2>2
    <3>2. PICK u \in DOMAIN tables, j \in 1 .. Width : b = <<u, j>> /\ tables[u].seats[j] = m
      BY <2>2
    <3>3. t = u /\ i = j
      BY <2>1, <3>1, <3>2 DEF OneSeat
    <3> QED BY <3>1, <3>2, <3>3
  <2>4. CASE seats = {}
    BY <2>2, <2>4, FS_EmptySet
  <2>5. CASE seats # {}
    <3>1. PICK a : a \in seats
      BY <2>5
    <3>2. seats = {a}
      BY <2>3, <3>1
    <3>3. Cardinality(seats) = 1
      BY <3>2, FS_Singleton
    <3> QED BY <2>2, <3>3
  <2> QED BY <2>4, <2>5
<1> QED BY <1>1, Matchmaking, PTL

(* Members that matchmaking brought to one table could play each other, whatever
   the policy answered and whoever of a group got no seat, as long as nobody sits
   down by a call.                                                          *)
THEOREM TheyMeetWell == Spec => []TablesGetAlong
<1>1. ASSUME Always PROVE TablesGetAlong
  <2> SUFFICES ASSUME moves = 0, NEW a \in Matched, NEW b \in Matched, NEW t \in DOMAIN tables,
                      a # b, At(a, t), At(b, t)
               PROVE  GetAlong(a, b)
    BY DEF TablesGetAlong
  <2>1. TypeInv /\ Meeting
    BY <1>1 DEF Always, MatchInv, CompanyInv, Companions
  <2>2. HasSeat(a, t) /\ HasSeat(b, t)
    BY <2>1, AtTable
  <2> QED BY <2>1, <2>2 DEF Meeting
<1> QED BY <1>1, Matchmaking, PTL
=============================================================================
