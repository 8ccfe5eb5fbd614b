---------------------------- MODULE ClubMatching ----------------------------
(***************************************************************************)
(* Matchmaking in a club: the queue, the sweep and the seating of groups   *)
(* in packages/club/src/ClubServer.ts, on top of the lock that serialises  *)
(* the ledger and of the registry of tables the club calls.                *)
(*                                                                         *)
(* A sweep reads who is seated, asks the policy for groups and seats them  *)
(* one member at a time; every seating waits for the ledger, for the       *)
(* registry and for signatures, and everything else goes on meanwhile.     *)
(* Between two awaits a sweep is not interrupted: its stage is then "pass" *)
(* and nothing else moves.                                                 *)
(*                                                                         *)
(* The registry is code outside the repository: it is taken to do what     *)
(* the club's tests have it do.                                            *)
(***************************************************************************)
EXTENDS Integers, Sequences, SequencesExt

CONSTANTS
    Members,     \* the club's members
    Nobody,      \* a free seat
    Templates,   \* the table types
    Width,       \* seats at a table
    Crits,       \* criteria a member queues with: [templates, rated]
    Confs        \* the registries and policies considered, a subset of Conf

(* settles: the registry settles a table when somebody stands up; whims: the
   policy answers anything, else it is proposeMatches; templates: the table
   types, in the order of the rooms; crits: what members queue with;
   chips: the balances a member may start with, where a seat costs one.  Bounds:
   tickets issued; moves, the seats asked for or given up outside matchmaking;
   events, the bans, expiries, lost devices, pauses and drains.             *)
Conf == [settles : BOOLEAN, whims : BOOLEAN, templates : Seq(Templates) \ {<< >>},
         crits : SUBSET Crits, chips : SUBSET Nat, tickets : Nat, moves : Nat,
         events : Nat]
Crit == [templates : SUBSET Templates, rated : BOOLEAN]
ASSUME CritsAssumption  == Crits \subseteq Crit /\ Crits # {}
ASSUME WidthAssumption  == Width \in Nat \ {0}
ASSUME ConfsAssumption  == Confs \subseteq Conf
ASSUME NobodyAssumption == Nobody \notin Members

VARIABLES
    conf,      \* the registry and the policy of this club
    active,    \* members that are not banned
    balance,   \* of every member
    tickets,   \* the queue
    told,      \* the tickets issued so far, with the answers each got, by id
    tables,    \* the registry's tables, with the chips members brought there
    serialised, \* tasks that want the ledger; the first one holds it
    call,      \* the call each member waits for
    sweep,     \* the sweep in progress
    wanted,    \* another sweep is asked for
    paused,    \* matchmaking is paused
    moves,     \* seats asked for or given up outside matchmaking so far
    events     \* bans, expiries, lost devices, pauses and drains so far

people == <<conf, active, balance, tables, moves>>
book   == <<tickets, told>>
lock   == <<serialised, call>>
run    == <<sweep, wanted, paused>>
vars   == <<people, book, lock, run, events>>

-----------------------------------------------------------------------------
(* Data. *)

(* What a ticket is for, and its place in the queue: a lower id is older.  away:
   how far the grace clock of an offline member has run; old: past its expiry;
   seen: a sweep has looked at it.                                          *)
Issued == [member : Members, crit : Crits, answers : Seq({"matched", "cancelled"})]
Ticket == [id : Nat \ {0}, away : {"no", "counting", "over"}, old : BOOLEAN, seen : BOOLEAN]

Table == [template : Templates, seats : [1 .. Width -> Members \cup {Nobody}],
          stack : [Members -> Nat]]

(* table 0: any of the template; fresh: a new one.                          *)
Task == [op : {"queue", "sit", "seat", "settle", "leave"}, member : Members,
         crit : Crits, template : Templates, table : Nat, fresh : BOOLEAN,
         stage : {"wait", "paying", "signing", "unseating", "settling"}]

AnyCrit     == CHOOSE crit \in Crits : TRUE
AnyTemplate == CHOOSE template \in Templates : TRUE
TaskOf(op, member) ==
    [op |-> op, member |-> member, crit |-> AnyCrit, template |-> AnyTemplate,
     table |-> 0, fresh |-> FALSE, stage |-> "wait"]

(* Groups are sets of tickets, by id, in the order of the policy's answer.  *)
NoSweep == [stage |-> "off", seated |-> {}, todo |-> << >>, groups |-> << >>,
            group |-> {}, company |-> {}, template |-> AnyTemplate, table |-> 0]

Free(t)   == \E i \in 1 .. Width : tables[t].seats[i] = Nobody
Queued    == {t.id : t \in tickets}
Of(m)     == {t \in tickets : told[t.id].member = m}
Oldest(group) == CHOOSE id \in group : \A other \in group : id <= other

(* Mutation: a registry without the optional seated. *)
SeatedAtNobody == {}

(* The registry's seated.                                                   *)
SeatedAt == (UNION {ToSet(tables[t].seats) : t \in DOMAIN tables}) \ {Nobody}

Interrupt == sweep.stage \in {"off", "await"}

(* criteriaCompatible and matchesTemplate, as far as criteria go here.      *)
Compatible(a, b) == a.rated = b.rated /\ a.templates \cap b.templates # {}
Fits(crit, template) == template \in crit.templates

Answered(ids, answer) ==
    [id \in DOMAIN told |-> IF id \in ids THEN [told[id] EXCEPT !.answers = Append(@, answer)]
                                          ELSE told[id]]

Event == events < conf.events /\ events' = events + 1

-----------------------------------------------------------------------------
(* The queue. *)

(* dropTicket for each of the ids.                                          *)
Drop(ids) ==
    /\ tickets' = {t \in tickets : t.id \notin ids}
    /\ told' = Answered(ids, "cancelled")

(* queue: the call waits for the ledger.                                    *)
Queue(m) ==
    /\ Interrupt /\ call[m] = "none" /\ m \in active
    /\ Len(told) + Cardinality({i \in DOMAIN serialised : serialised[i].op = "queue"})
          < conf.tickets
    /\ \E crit \in conf.crits :
         serialised' = Append(serialised, [TaskOf("queue", m) EXCEPT !.crit = crit])
    /\ call' = [call EXCEPT ![m] = "ledger"]
    /\ UNCHANGED <<people, book, run, events>>

(* ... and with it: one ticket per member, the newest.                      *)
Holds(op, stage) ==
    Interrupt /\ serialised # << >> /\ Head(serialised).op = op /\ Head(serialised).stage = stage

QueueTask ==
    /\ Holds("queue", "wait")
    /\ LET task == Head(serialised)
           mine == Of(task.member)
       IN  /\ tickets' = (tickets \ mine) \cup
                  {[id |-> Len(told) + 1, away |-> "no", old |-> FALSE, seen |-> FALSE]}
           /\ told' = Append(Answered({t.id : t \in mine}, "cancelled"),
                             [member |-> task.member, crit |-> task.crit, answers |-> << >>])
           /\ call' = [call EXCEPT ![task.member] = "kick"]
    /\ serialised' = Tail(serialised)
    /\ UNCHANGED <<people, run, events>>

(* unqueue; a ticket already taken out by a sweep is not found.             *)
Unqueue(m) ==
    /\ Interrupt
    /\ \E t \in Of(m) : Drop({t.id})
    /\ UNCHANGED <<people, lock, run, events>>

(* drainMatchmaking.                                                        *)
Drain ==
    /\ Interrupt /\ tickets # {} /\ Event /\ Drop(Queued)
    /\ UNCHANGED <<people, lock, run>>

Becomes(t, u) == tickets' = (tickets \ {t}) \cup {u}

(* noteMemberOffline: a member's last device goes, or any session of it ends. *)
Offline(m) ==
    /\ Interrupt /\ Event
    /\ \E t \in Of(m) : t.away = "no" /\ Becomes(t, [t EXCEPT !.away = "counting"])
    /\ UNCHANGED <<people, lock, run, told>>

(* noteMemberOnline: a device is admitted.                                  *)
Online(m) ==
    /\ Interrupt
    /\ \E t \in Of(m) : t.away # "no" /\ Becomes(t, [t EXCEPT !.away = "no"])
    /\ UNCHANGED <<people, lock, run, told, events>>

(* Time: a grace period ends, a ticket expires.                             *)
Grace ==
    /\ Interrupt
    /\ \E t \in tickets : t.away = "counting" /\ Becomes(t, [t EXCEPT !.away = "over"])
    /\ UNCHANGED <<people, lock, run, told, events>>

Expiry ==
    /\ Interrupt /\ Event
    /\ \E t \in tickets : ~t.old /\ Becomes(t, [t EXCEPT !.old = TRUE])
    /\ UNCHANGED <<people, lock, run, told>>

-----------------------------------------------------------------------------
(* The sweep. *)

(* runMatchmaking: two never run at once; a call made meanwhile gets another
   one after it.                                                            *)
Run ==
    /\ wanted' = TRUE
    /\ sweep' = IF sweep.stage = "off" THEN [NoSweep EXCEPT !.stage = "start"] ELSE sweep

(* The caller of queue goes on, after its ticket is in.                     *)
Kick(m) ==
    /\ Interrupt /\ call[m] = "kick"
    /\ call' = [call EXCEPT ![m] = "none"]
    /\ Run
    /\ UNCHANGED <<people, book, serialised, paused, events>>

(* The interval timer; over an empty queue it does nothing.                 *)
Tick ==
    /\ Interrupt /\ ~wanted /\ tickets # {}
    /\ Run
    /\ UNCHANGED <<people, book, lock, paused, events>>

Pause ==
    /\ Interrupt /\ ~paused /\ Event
    /\ paused' = TRUE
    /\ UNCHANGED <<people, book, lock, sweep, wanted>>

Resume ==
    /\ Interrupt /\ paused
    /\ paused' = FALSE
    /\ Run
    /\ UNCHANGED <<people, book, lock, events>>

(* Whom retireTickets drops.                                                *)
Retired(t) == told[t.id].member \notin active \/ t.old \/ t.away = "over"

(* matchPass begins: retire, then look at every template.                   *)
PassStart ==
    /\ sweep.stage = "start"
    /\ wanted' = FALSE
    /\ LET gone == {t \in tickets : Retired(t)}
           idle == paused \/ gone = tickets
       IN  /\ tickets' = {[t EXCEPT !.seen = TRUE] : t \in tickets \ gone}
           /\ told' = Answered({t.id : t \in gone}, "cancelled")
           /\ sweep' = [sweep EXCEPT !.stage = "pass", !.seated = SeatedAt,
                                     !.todo = IF idle THEN << >> ELSE conf.templates]
    /\ UNCHANGED <<people, lock, paused, events>>

(* proposeMatches at two seats or more: the oldest ticket with the oldest
   ones that get along with everybody before them, and again with the rest. *)
Joins(group, id) == /\ Cardinality(group) < Width
                    /\ \A g \in group : g # id /\ Compatible(told[g].crit, told[id].crit)
GroupOf(head, pool) ==
    FoldLeft(LAMBDA group, id : IF Joins(group, id) THEN group \cup {id} ELSE group,
             {head}, pool)
Propose(pool) ==
    FoldLeft(LAMBDA groups, head :
                 LET used == UNION ToSet(groups)
                     mine == GroupOf(head, SelectSeq(pool, LAMBDA id : id \notin used))
                 IN  IF head \notin used /\ Cardinality(mine) >= Width
                     THEN Append(groups, mine) ELSE groups,
             << >>, pool)

(* What an injected policy may answer besides: two groups of the right size
   that may overlap and need not get along.                                 *)
Whims(pool) == {<<g, h>> : g, h \in kSubset(Width, pool)}

PassTemplate ==
    /\ sweep.stage = "pass" /\ sweep.company = {} /\ sweep.groups = << >> /\ sweep.todo # << >>
    /\ LET template == Head(sweep.todo)
           eligible == {id \in Queued : told[id].member \notin sweep.seated
                                         /\ Fits(told[id].crit, template)}
           answers  == IF Cardinality(eligible) < Width THEN {<< >>}
                       ELSE {Propose(SetToSortSeq(eligible, <))}
                            \cup IF conf.whims THEN Whims(eligible) ELSE {}
       IN  \E groups \in answers :
             sweep' = [sweep EXCEPT !.todo = Tail(@), !.groups = groups,
                                    !.template = template]
    /\ UNCHANGED <<people, book, lock, wanted, paused, events>>

(* groupIsSeatable: who is in it, and that they get along.                  *)
Ready(id) == told[id].member \notin sweep.seated /\ told[id].member \in active
GetAlong(s, t) ==
    told[s].member # told[t].member /\ Compatible(told[s].crit, told[t].crit)
AllCompatible(group) == \A s, t \in group : s # t => GetAlong(s, t)

(* Mutation: tickets that left the queue meanwhile are not looked for.      *)
SeatableStale(group) == group # {} /\ AllCompatible(group) /\ \A id \in group : Ready(id)

Seatable(group) ==
    group # {} /\ AllCompatible(group) /\ \A id \in group : id \in Queued /\ Ready(id)

(* The next group, and seatGroup's first step: its tickets leave the queue. *)
PassGroup ==
    /\ sweep.stage = "pass" /\ sweep.company = {} /\ sweep.groups # << >>
    /\ LET group == Head(sweep.groups)
       IN  \/ /\ Seatable(group)
              /\ tickets' = {t \in tickets : t.id \notin group}
              /\ sweep' = [sweep EXCEPT !.groups = Tail(@), !.group = group, !.table = 0,
                                        !.company = {told[id].member : id \in group}]
           \/ /\ ~Seatable(group)
              /\ sweep' = [sweep EXCEPT !.groups = Tail(@)]
              /\ UNCHANGED tickets
    /\ UNCHANGED <<people, lock, told, wanted, paused, events>>

(* Mutation: a group begins at a table that is part full.                   *)
PassSeatAnywhere ==
    /\ sweep.stage = "pass" /\ sweep.group # {}
    /\ LET m == told[Oldest(sweep.group)].member
       IN  \/ /\ m \in active
              /\ serialised' = Append(serialised, [TaskOf("seat", m) EXCEPT
                              !.template = sweep.template, !.table = sweep.table])
              /\ sweep' = [sweep EXCEPT !.stage = "await"]
           \/ /\ m \notin active
              /\ sweep' = [sweep EXCEPT !.group = @ \ {Oldest(@)}]
              /\ UNCHANGED serialised
    /\ UNCHANGED <<people, book, call, wanted, paused, events>>

(* seatGroup's loop: a member that was banned is passed over, the others wait
   for the ledger.                                                          *)
PassSeat ==
    /\ sweep.stage = "pass" /\ sweep.group # {}
    /\ LET m == told[Oldest(sweep.group)].member
       IN  \/ /\ m \in active
              /\ serialised' = Append(serialised, [TaskOf("seat", m) EXCEPT
                              !.template = sweep.template, !.table = sweep.table,
                              !.fresh = sweep.table = 0])
              /\ sweep' = [sweep EXCEPT !.stage = "await"]
           \/ /\ m \notin active
              /\ sweep' = [sweep EXCEPT !.group = @ \ {Oldest(@)}]
              /\ UNCHANGED serialised
    /\ UNCHANGED <<people, book, call, wanted, paused, events>>

(* The group is done: all of it counts as seated if anybody was.            *)
PassSeated ==
    /\ sweep.stage = "pass" /\ sweep.company # {} /\ sweep.group = {}
    /\ sweep' = [sweep EXCEPT !.company = {},
                              !.seated = @ \cup IF sweep.table # 0 THEN sweep.company ELSE {}]
    /\ UNCHANGED <<people, book, lock, wanted, paused, events>>

(* Mutation: what was asked for during the sweep counts as done. *)
PassEndDone ==
    /\ sweep.stage = "pass"
    /\ sweep.company = {} /\ sweep.groups = << >> /\ sweep.todo = << >>
    /\ sweep' = NoSweep /\ wanted' = FALSE
    /\ UNCHANGED <<people, book, lock, paused, events>>

(* Another sweep if one was asked for meanwhile.                            *)
PassEnd ==
    /\ sweep.stage = "pass"
    /\ sweep.company = {} /\ sweep.groups = << >> /\ sweep.todo = << >>
    /\ sweep' = [NoSweep EXCEPT !.stage = IF wanted THEN "start" ELSE "off"]
    /\ UNCHANGED <<people, book, lock, wanted, paused, events>>

-----------------------------------------------------------------------------
(* seatMember, with the ledger in hand, for a call of sit or for the sweep. *)

Seating(stage) == Holds("sit", stage) \/ Holds("seat", stage)
Task1 == Head(serialised)
Stage(stage) == serialised' = [serialised EXCEPT ![1].stage = stage]

(* The end of the task: the caller is answered, or the sweep goes on.       *)
Finished(table, answer) ==
    /\ serialised' = Tail(serialised)
    /\ IF Task1.op = "sit"
       THEN call' = [call EXCEPT ![Task1.member] = "none"] /\ UNCHANGED <<sweep, told>>
       ELSE /\ sweep' = [sweep EXCEPT !.stage = "pass", !.group = @ \ {Oldest(@)},
                                      !.table = IF @ = 0 THEN table ELSE @]
            /\ told' = Answered({Oldest(sweep.group)}, answer)
            /\ UNCHANGED call
    /\ UNCHANGED <<conf, active, tickets, wanted, paused, moves, events>>

(* The registry answers at once: with the table asked for, a part-full one of
   the template, or a new one.                                              *)
Sit(t, m) ==
    LET seat == CHOOSE i \in 1 .. Width : tables[t].seats[i] = Nobody
                                          /\ \A j \in 1 .. i - 1 : tables[t].seats[j] # Nobody
    IN  tables' = [tables EXCEPT ![t].seats[seat] = m]
Open(template, m) ==
    tables' = Append(tables, [template |-> template,
                              seats |-> [i \in 1 .. Width |-> IF i = 1 THEN m ELSE Nobody],
                              stack |-> [n \in Members |-> 0]])
PartFull(template) == {t \in DOMAIN tables : tables[t].template = template /\ Free(t)}

(* Mutation: the stake is not looked at. *)
AffordsAny == TRUE

Affords == balance[Task1.member] >= 1

SeatTask ==
    /\ Seating("wait") /\ Affords
    /\ LET task == Task1
       IN  \/ /\ task.table # 0 /\ Free(task.table)
              /\ Sit(task.table, task.member)
              /\ Stage("paying")
           \/ /\ task.table = 0 /\ ~task.fresh /\ PartFull(task.template) # {}
              /\ \E t \in PartFull(task.template) :
                    /\ Sit(t, task.member)
                    /\ serialised' = [serialised EXCEPT ![1].stage = "paying", ![1].table = t]
           \/ /\ task.table = 0 /\ (task.fresh \/ PartFull(task.template) = {})
              /\ Open(task.template, task.member)
              /\ serialised' = [serialised EXCEPT ![1].stage = "paying",
                                                  ![1].table = Len(tables) + 1]
    /\ UNCHANGED <<book, run, conf, active, balance, call, moves, events>>

(* Not enough chips, or the table is full.                                  *)
SeatRefused ==
    /\ Seating("wait")
    /\ ~Affords \/ (Task1.table # 0 /\ ~Free(Task1.table))
    /\ Finished(0, "cancelled")
    /\ UNCHANGED <<balance, tables>>

(* The buy-in is an entry of the ledger, refused to a banned member and where
   it would overdraw.                                                       *)
EntryOk == Task1.member \in active /\ balance[Task1.member] >= 1

BuyIn ==
    /\ Seating("paying")
    /\ \/ /\ EntryOk
          /\ balance' = [balance EXCEPT ![Task1.member] = @ - 1]
          /\ tables' = [tables EXCEPT ![Task1.table].stack[Task1.member] = @ + 1]
          /\ Stage("signing")
       \/ /\ ~EntryOk
          /\ Stage("unseating")
          /\ UNCHANGED <<balance, tables>>
    /\ UNCHANGED <<book, run, conf, active, call, moves, events>>

(* The commitment is signed and the seat granted.                           *)
Granted ==
    /\ Seating("signing")
    /\ Finished(Task1.table, "matched")
    /\ UNCHANGED <<balance, tables>>

(* The registry frees the first seat of the member.                         *)
Vacate(t, m) ==
    \E i \in 1 .. Width :
        /\ tables[t].seats[i] = m /\ \A j \in 1 .. i - 1 : tables[t].seats[j] # m
        /\ tables' = [tables EXCEPT ![t].seats[i] = Nobody]

(* The seat of a refused buy-in is given back, with the ledger still held: a
   registry that settles waits for the ledger, behind this very task.       *)
Unseat ==
    /\ Seating("unseating")
    /\ Vacate(Task1.table, Task1.member)
    /\ UNCHANGED balance
    /\ \/ /\ ~conf.settles
          /\ Finished(0, "cancelled")
       \/ /\ conf.settles
          /\ serialised' = Append([serialised EXCEPT ![1].stage = "settling"],
                              TaskOf("settle", Task1.member))
          /\ UNCHANGED <<book, run, conf, active, call, moves, events>>

-----------------------------------------------------------------------------
(* Calls of sit and leave, and the admins. *)

AskSeat(m) ==
    /\ Interrupt /\ call[m] = "none" /\ m \in active /\ moves < conf.moves
    /\ \E task \in {[TaskOf("sit", m) EXCEPT !.template = template] :
                       template \in ToSet(conf.templates)}
                   \cup {[TaskOf("sit", m) EXCEPT !.table = t,
                                                  !.template = tables[t].template] :
                       t \in DOMAIN tables} :
         serialised' = Append(serialised, task)
    /\ moves' = moves + 1
    /\ call' = [call EXCEPT ![m] = "ledger"]
    /\ UNCHANGED <<book, run, conf, active, balance, tables, events>>

(* leave: the registry frees the seat, which may settle the table, before the
   ledger is asked for.                                                     *)
Leave(m) ==
    /\ Interrupt /\ call[m] = "none" /\ m \in active /\ moves < conf.moves
    /\ \A i \in DOMAIN serialised : serialised[i].member # m
    /\ \E t \in DOMAIN tables :
         /\ Vacate(t, m)
         /\ serialised' = Append(serialised,
                                  [TaskOf(IF conf.settles THEN "settle" ELSE "leave", m)
                                         EXCEPT !.table = t])
    /\ moves' = moves + 1
    /\ call' = [call EXCEPT ![m] = "ledger"]
    /\ UNCHANGED <<book, run, conf, active, balance, events>>

(* The registry's settlement; the one who stands up goes on to its own turn. *)
SettleTask ==
    /\ Holds("settle", "wait")
    /\ serialised' = Append(Tail(serialised), [Task1 EXCEPT !.op = "leave"])
    /\ UNCHANGED <<people, book, run, call, events>>

LeaveTask ==
    /\ Holds("leave", "wait")
    /\ balance' = [balance EXCEPT ![Task1.member] = @ + tables[Task1.table].stack[Task1.member]]
    /\ tables' = [tables EXCEPT ![Task1.table].stack[Task1.member] = 0]
    /\ call' = [call EXCEPT ![Task1.member] = "none"]
    /\ serialised' = Tail(serialised)
    /\ UNCHANGED <<book, run, conf, active, moves, events>>

(* A ban while an entry is being signed is undone by it, as Club shows; the
   entry is one step here, so that no ban falls into it.                    *)
Ban(m) ==
    /\ Interrupt /\ m \in active /\ Event
    /\ active' = active \ {m}
    /\ UNCHANGED <<book, lock, run, conf, balance, tables, moves>>

-----------------------------------------------------------------------------
(* The specification. *)

Init ==
    /\ conf \in Confs
    /\ active = Members /\ balance \in [Members -> conf.chips]
    /\ tickets = {} /\ told = << >>
    /\ tables = << >> /\ serialised = << >> /\ call = [m \in Members |-> "none"]
    /\ sweep = NoSweep /\ wanted = FALSE /\ paused = FALSE
    /\ moves = 0 /\ events = 0

Sweeping == PassStart \/ PassTemplate \/ PassGroup \/ PassSeat \/ PassSeated \/ PassEnd
LedgerTurn == QueueTask \/ SeatTask \/ SeatRefused \/ BuyIn
              \/ Granted \/ Unseat \/ SettleTask \/ LeaveTask
Calls(m) == Queue(m) \/ Unqueue(m) \/ Offline(m) \/ Online(m) \/ AskSeat(m) \/ Leave(m) \/ Ban(m)

Next ==
    \/ Sweeping \/ LedgerTurn \/ Tick
    \/ Drain \/ Grace \/ Expiry \/ Pause \/ Resume
    \/ \E m \in Members : Calls(m) \/ Kick(m)

Spec == Init /\ [][Next]_vars

-----------------------------------------------------------------------------
(* Properties. *)

(* Every variable has its type; a sweep awaits exactly its own task.         *)
TypeOK ==
    /\ conf \in Confs /\ events \in 0 .. conf.events
    /\ active \subseteq Members /\ balance \in [Members -> Nat]
    /\ tickets \subseteq Ticket /\ told \in Seq(Issued)
    /\ tables \in Seq(Table) /\ serialised \in Seq(Task)
    /\ call \in [Members -> {"none", "ledger", "kick"}]
    /\ sweep.stage \in {"off", "start", "pass", "await"}
    /\ sweep.seated \subseteq Members /\ sweep.group \cup Queued \subseteq DOMAIN told
    /\ sweep.table \in 0 .. Len(tables)
    /\ sweep.stage = "await" <=> \E i \in DOMAIN serialised : serialised[i].op = "seat"
    /\ wanted \in BOOLEAN /\ paused \in BOOLEAN /\ moves \in 0 .. conf.moves

(* A ticket is answered exactly once, although a sweep takes it out of the
   queue before it knows whether its member gets a seat: while it is queued or
   being seated not at all, then as matched or as cancelled.  Only the ticket
   of a member banned meanwhile may go unanswered (seatGroup passes it over). *)
Pending == Queued \cup sweep.group
OneAnswer ==
    \A id \in DOMAIN told :
        LET answers == told[id].answers
        IN  IF id \in Pending THEN answers = << >>
            ELSE Len(answers) = 1 \/ (answers = << >> /\ told[id].member \notin active)

(* "queue() followed by a tick cannot miss the ticket that was just added"
   (runMatchmaking): a sweep that waits has its own task before it, and when none
   runs, one that began after each ticket came has looked at it, unless its caller
   has not asked yet.                                                       *)
NothingMissed ==
    /\ TypeOK
    /\ sweep.stage = "off" =>
          \A t \in tickets : t.seen \/ call[told[t.id].member] = "kick"

(* Members the club seats together could play each other, also where a group was
   broken up (a member banned meanwhile or out of chips) and its table stays part
   full, and whatever the policy answered: "a group fills a table, so it opens
   its own rather than squeezing into one that is already part full" (seatGroup).
   As long as nobody sits down by a call, the tickets that brought members to one
   table are of different members and compatible.                            *)
Matched == {id \in DOMAIN told : told[id].answers = <<"matched">>}
At(id, t) == told[id].member \in ToSet(tables[t].seats)
TablesGetAlong ==
    moves = 0 => \A a, b \in Matched : \A t \in DOMAIN tables :
        a # b /\ At(a, t) /\ At(b, t) => GetAlong(a, b)

(* Matchmaking seats nobody twice, neither in one sweep nor in two, also a
   member who queues again while its first ticket is being seated: as long as
   nobody sits down by a call, a member has one seat at most.                *)
SeatedOnce ==
    moves = 0 => \A m \in Members :
        Cardinality({at \in (DOMAIN tables) \X (1 .. Width) :
                        tables[at[1]].seats[at[2]] = m}) <= 1

(* "Do it before taking the lock, never while holding it" (leave, of standing
   up at the registry): the ledger's holder waits for a settlement behind it
   only where the seat of a member banned meanwhile is given back.           *)
LedgerFree ==
    \A i \in DOMAIN serialised :
        serialised[i].stage = "settling" => serialised[i].member \notin active
=============================================================================
