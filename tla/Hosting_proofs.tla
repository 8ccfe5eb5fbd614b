---------------------------- MODULE Hosting_proofs ----------------------------
(***************************************************************************)
(* Proofs about hosting: tables.json and the saves of the tables of a dealer *)
(* process through every interleaving of calls, actions and deaths, the room *)
(* code of a table that players open again, and the moves and positions of a *)
(* table played by mail while its host is away.                             *)
(***************************************************************************)
EXTENDS Dealers, Reopen, Mailbox, ProofLemmas, FiniteSetTheorems

Statuses  == {"none", "running", "stopped"}
Registry  == [TableIds -> Statuses]
Saved     == Nat \cup {Absent}
MakerOps  == {"create", "resume", "resumeAll"}
DealerRec == [table : TableIds, seq : Saved, up : BOOLEAN, heard : BOOLEAN, saves : Seq(Saved)]
Request   == [op : MakerOps \cup {"idle", "stop", "remove"}, table : TableIds,
              pc : {"called", "make", "writing", "wrote", "start", "saving", "done", "failed"},
              dealer : Nat, todo : SUBSET TableIds, purge : BOOLEAN]
Write     == [by : Slots \cup {NoSlot}, pc : {"open", "write", "rename"},
              to : {"tmp", "json", "nothing"}, content : Registry \cup {Torn}]
Files     == [json : Registry \cup {Torn}, tmp : Registry \cup {Torn, NoFile},
              tables : [TableIds -> Saved]]

DealerTypes ==
    /\ serve \in DealerConf
    /\ alive \in BOOLEAN
    /\ entries \in Registry
    /\ dealers \in Seq(DealerRec)
    /\ managed \in [TableIds -> Nat]
    /\ requests \in [Slots -> Request]
    /\ writes \in Seq(Write)
    /\ files \in Files

(* What the manager holds for a table is a dealer of that table, and whatever is
   hosted is held.                                                          *)
ManagedInv ==
    /\ \A t \in TableIds : managed[t] # 0 =>
          managed[t] \in DOMAIN dealers /\ dealers[managed[t]].table = t
    /\ \A d \in DOMAIN dealers : dealers[d].up => managed[dealers[d].table] = d

(* Calls under way are about different tables.                              *)
Of(j) == IF j.op = "idle" THEN {} ELSE {j.table} \cup j.todo
CallsApart == \A s, r \in Slots : s # r => Of(requests[s]) \cap Of(requests[r]) = {}

(* A dealer that is not hosted yet; one that has not been played at either; a
   table that nothing hosts.                                                *)
ToStart(t, d) == d \in DOMAIN dealers /\ dealers[d].table = t /\ ~dealers[d].up
Fresh(t, d) == /\ ToStart(t, d)
               /\ dealers[d].saves = << >> /\ dealers[d].seq >= files.tables[t]
Unhosted(t) == \A d \in DOMAIN dealers : dealers[d].table = t => ~dealers[d].up

(* What a call may rely on at each of its awaits.                           *)
CallSound(j) ==
    LET t == j.table IN
    /\ j.op = "idle" => j.pc = "done"
    /\ j.op # "resumeAll" => j.todo = {}
    /\ j.pc # "done" => t \notin j.todo
    /\ \A u \in j.todo : managed[u] = 0
    /\ j.op = "create" /\ j.pc = "called" =>
          files.tables[t] = Absent /\ \A d \in DOMAIN dealers : dealers[d].table # t
    /\ j.op = "resumeAll" /\ j.pc = "called" => managed[t] = 0
    /\ j.op = "resumeAll" /\ j.pc = "failed" => Unhosted(t)
    /\ j.pc = "make" => j.op \in {"resume", "resumeAll"} /\ managed[t] = 0
    /\ j.op \in MakerOps /\ j.pc \in {"writing", "wrote"} => managed[t] = 0 /\ Fresh(t, j.dealer)
    /\ j.pc = "start" => j.op \in MakerOps /\ managed[t] = j.dealer /\ ToStart(t, j.dealer)
    /\ j.pc = "saving" => /\ j.op = "stop" /\ managed[t] = j.dealer
                          /\ j.dealer \in DOMAIN dealers /\ dealers[j.dealer].table = t
                          /\ ~dealers[j.dealer].up
    /\ j.op = "remove" /\ j.pc \in {"writing", "wrote"} => managed[t] = 0

(* The saves of a dealer that wait lead from what is in the file to where it is. *)
SavesSound(d) ==
    LET r == dealers[d] IN
    /\ r.saves # << >> =>
          /\ managed[r.table] = d /\ r.saves[Len(r.saves)] = r.seq
          /\ files.tables[r.table] <= r.saves[1]
          /\ \A i, j \in DOMAIN r.saves : i <= j => r.saves[i] <= r.saves[j]
    /\ r.up /\ r.saves = << >> => files.tables[r.table] = r.seq
    /\ managed[r.table] = d => files.tables[r.table] <= r.seq

(* Who waits for a write of tables.json waits for one.                      *)
WritersSound ==
    /\ \A i \in DOMAIN writes : writes[i].by # NoSlot => requests[writes[i].by].pc = "writing"
    /\ \A i, j \in DOMAIN writes : writes[i].by = writes[j].by /\ writes[i].by # NoSlot => i = j

SavingInv == alive => /\ CallsApart
                      /\ \A s \in Slots : CallSound(requests[s])
                      /\ \A d \in DOMAIN dealers : SavesSound(d)
                      /\ WritersSound

(* A table is running, from when the entry that says so is written.         *)
Runs(t) ==
    \/ \E d \in DOMAIN dealers : dealers[d].table = t /\ dealers[d].up
    \/ \E s \in Slots : /\ requests[s].table = t /\ requests[s].op \in MakerOps
                        /\ requests[s].pc \in {"wrote", "start"}

(* What a write of tables.json holds, once it is opened.                    *)
Writes(t) == \A i \in DOMAIN writes : writes[i].pc # "open" => writes[i].content[t] = "running"
Listed(t) == t \in DOMAIN files.json /\ files.json[t] = "running"

(* One write at a time, which some call may wait for, brings to tables.json what
   runs.                                                                    *)
RegistryInv ==
    /\ ~serve.overlap
    /\ alive =>
        /\ \A i, j \in DOMAIN writes : i = j
        /\ \A i \in DOMAIN writes :
              /\ writes[i].to = "tmp"
              /\ writes[i].pc # "open" => writes[i].content \in Registry
              /\ writes[i].pc = "rename" => files.tmp = writes[i].content
        /\ \A s \in Slots : requests[s].pc = "writing" =>
              \E i \in DOMAIN writes : writes[i].by = s
        /\ \A s \in Slots : requests[s].op \in MakerOps /\ requests[s].pc = "writing" =>
              entries[requests[s].table] = "running" /\ Writes(requests[s].table)
        /\ \A t \in TableIds : Runs(t) => entries[t] = "running" /\ Writes(t) /\ Listed(t)

-----------------------------------------------------------------------------
(* Lemmas. *)

(* A sequence without its i-th entry.                                       *)
LEMMA RemoveAtFacts ==
    ASSUME NEW S, NEW s \in Seq(S), NEW i \in DOMAIN s
    PROVE  /\ RemoveAt(s, i) \in Seq(S)
           /\ Len(RemoveAt(s, i)) = Len(s) - 1
           /\ \A j \in DOMAIN RemoveAt(s, i) :
                 RemoveAt(s, i)[j] = IF j < i THEN s[j] ELSE s[j + 1]
<1>1. Len(s) \in Nat /\ DOMAIN s = 1 .. Len(s) /\ i \in 1 .. Len(s)
  BY LenProperties
<1> DEFINE a == SubSeq(s, 1, i - 1)
           b == SubSeq(s, i + 1, Len(s))
<1>2. /\ a \in Seq(S) /\ Len(a) = i - 1
      /\ \A j \in 1 .. Len(a) : a[j] = s[j]
  BY <1>1, SubSeqProperties
<1>3. /\ b \in Seq(S) /\ Len(b) = Len(s) - i
      /\ \A j \in 1 .. Len(b) : b[j] = s[i + j]
  BY <1>1, SubSeqProperties
<1> HIDE DEF a, b
<1>4. /\ a \o b \in Seq(S) /\ Len(a \o b) = Len(a) + Len(b)
      /\ \A j \in 1 .. Len(a) + Len(b) :
            (a \o b)[j] = IF j <= Len(a) THEN a[j] ELSE b[j - Len(a)]
  BY <1>2, <1>3, ConcatProperties
<1>5. RemoveAt(s, i) = a \o b
  BY DEF RemoveAt, a, b
<1> DEFINE r == RemoveAt(s, i)
<1> HIDE DEF r
<1>6. r \in Seq(S) /\ Len(r) = Len(s) - 1
  <2>1. Len(a) + Len(b) = Len(s) - 1
    BY <1>1, <1>2, <1>3
  <2>2. r = a \o b
    BY <1>5 DEF r
  <2> QED BY <1>4, <2>1, <2>2
<1>7. ASSUME NEW j \in DOMAIN r PROVE r[j] = IF j < i THEN s[j] ELSE s[j + 1]
  <2>1. j \in 1 .. Len(s) - 1
    BY <1>6, <1>7, LenProperties
  <2>2. r[j] = IF j <= i - 1 THEN a[j] ELSE b[j - (i - 1)]
    <3>1. j \in 1 .. Len(a) + Len(b) /\ Len(a) = i - 1
      BY <1>1, <1>2, <1>3, <2>1
    <3>2. r[j] = (a \o b)[j]
      BY <1>5 DEF r
    <3> QED BY <1>4, <3>1, <3>2
  <2>3. CASE j < i
    BY <1>1, <1>2, <2>1, <2>2, <2>3
  <2>4. CASE ~(j < i)
    <3>1. r[j] = b[j - (i - 1)] /\ j - (i - 1) \in 1 .. Len(b) /\ i + (j - (i - 1)) = j + 1
      BY <1>1, <1>3, <2>1, <2>2, <2>4
    <3> QED BY <1>3, <2>4, <3>1
  <2> QED BY <2>3, <2>4
<1> QED BY <1>6, <1>7 DEF r

(* The dealers, one by one.                                                 *)
LEMMA DealerEntries ==
    ASSUME dealers \in Seq(DealerRec)
    PROVE  /\ Len(dealers) \in Nat /\ DOMAIN dealers = 1 .. Len(dealers) /\ 0 \notin DOMAIN dealers
           /\ \A d \in DOMAIN dealers :
                 /\ dealers[d].table \in TableIds /\ dealers[d].seq \in Saved
                 /\ dealers[d].up \in BOOLEAN /\ dealers[d].saves \in Seq(Saved)
<1>1. \A d \in DOMAIN dealers : dealers[d] \in DealerRec
  BY SeqEntries
<1> QED BY <1>1, LenProperties DEF DealerRec
-----------------------------------------------------------------------------
(* Types. *)

LEMMA Spent ==
    ASSUME NEW bound \in {"calls", "actions", "refusals", "deaths"}, serve \in DealerConf,
           Spends(bound)
    PROVE  serve' \in DealerConf /\ serve'.overlap = serve.overlap
<1>1. serve' = [serve EXCEPT ![bound] = @ - 1] /\ serve[bound] > 0
  BY DEF Spends
<1>2. serve[bound] \in Nat
  BY DEF DealerConf
<1> QED BY <1>1, <1>2 DEF DealerConf

LEMMA ExceptRequest ==
    ASSUME NEW r \in Request
    PROVE  /\ \A op \in MakerOps \cup {"idle", "stop", "remove"}, t \in TableIds,
                 purge \in BOOLEAN :
                [r EXCEPT !.op = op, !.table = t, !.pc = "called", !.purge = purge] \in Request
           /\ \A op \in MakerOps, all \in SUBSET TableIds :
                [r EXCEPT !.op = op, !.todo = all] \in Request
BY DEF Request

(* The calls that begin.                                                    *)
LEMMA IdleTyped ==
    /\ Idle \in Request
    /\ \A op \in {"create", "resume", "stop", "remove"}, t \in TableIds, purge \in BOOLEAN :
          [Idle EXCEPT !.op = op, !.table = t, !.pc = "called", !.purge = purge] \in Request
    /\ \A all \in SUBSET TableIds : [Idle EXCEPT !.op = "resumeAll", !.todo = all] \in Request
<1> DEFINE t0 == CHOOSE t \in TableIds : TRUE
<1>1. t0 \in TableIds
  BY DealerAssumption
<1>2. Idle = [op |-> "idle", table |-> t0, pc |-> "done", dealer |-> 0, todo |-> {},
              purge |-> FALSE]
  BY DEF Idle
<1> HIDE DEF t0
<1>3. Idle \in Request
  BY <1>1, <1>2 DEF Request
<1>4. ASSUME NEW op \in {"create", "resume", "stop", "remove"}, NEW t \in TableIds,
             NEW purge \in BOOLEAN
      PROVE  [Idle EXCEPT !.op = op, !.table = t, !.pc = "called", !.purge = purge] \in Request
  BY <1>3, <1>4, ExceptRequest, Zenon DEF MakerOps
<1>5. ASSUME NEW all \in SUBSET TableIds
      PROVE  [Idle EXCEPT !.op = "resumeAll", !.todo = all] \in Request
  BY <1>3, <1>5, ExceptRequest, Zenon DEF MakerOps
<1> QED BY <1>3, <1>4, <1>5

LEMMA TypesKept ==
    ASSUME DealerTypes, ManagedInv, [DealerNext]_dealerVars PROVE DealerTypes'
<1>0. /\ DealerTypes /\ TableIds # {} /\ NoSlot \notin Slots
      /\ Torn \notin Registry \/ Torn \in Registry
  BY DealerAssumption
<1> USE DEF DealerTypes
<1>1. CASE UNCHANGED dealerVars
  BY <1>1 DEF dealerVars
<1>2. Spends("calls") \/ Spends("actions") \/ Spends("refusals") \/ Spends("deaths")
        => serve' \in DealerConf
  BY Spent
<1>3. ASSUME NEW i \in DOMAIN writes, WriteOpens(i) PROVE DealerTypes'
  <2>1. writes[i] \in Write
    BY SeqEntries
  <2>2. [writes[i] EXCEPT !.pc = "write", !.content = entries] \in Write
    BY <2>1 DEF Write
  <2>5. writes' \in Seq(Write)
    BY <1>3, <2>2, ExceptFacts DEF WriteOpens
  <2>3. files' \in Files
    BY <1>3 DEF WriteOpens, Put, Files
  <2> QED BY <1>3, <2>3, <2>5 DEF WriteOpens
<1>4. ASSUME NEW i \in DOMAIN writes, Written(i) PROVE DealerTypes'
  <2>1. writes[i] \in Write
    BY SeqEntries
  <2>2. [writes[i] EXCEPT !.pc = "rename"] \in Write
    BY <2>1 DEF Write
  <2>5. writes' \in Seq(Write)
    BY <1>4, <2>2, ExceptFacts DEF Written
  <2>3. files' \in Files
    BY <1>4, <2>1 DEF Written, Put, Files, Write
  <2> QED BY <1>4, <2>3, <2>5 DEF Written
<1>5. ASSUME NEW i \in DOMAIN writes, Renames(i) PROVE DealerTypes'
  <2>1. writes[i] \in Write /\ RemoveAt(writes, i) \in Seq(Write)
    BY SeqEntries, RemoveAtFacts
  <2> DEFINE w == writes[i]
             rest == RemoveAt(writes, i)
             moved == [j \in DOMAIN rest |-> [rest[j] EXCEPT !.to = RenamedTo(@)]]
  <2>2. /\ \/ /\ files' = [files EXCEPT !.json = files.tmp, !.tmp = NoFile]
              /\ files.tmp # NoFile /\ writes' = moved
           \/ UNCHANGED files /\ writes' = rest
        /\ \/ UNCHANGED requests
           \/ /\ w.by # NoSlot
              /\ \E pc \in {"wrote", "failed"} : requests' = [requests EXCEPT ![w.by].pc = pc]
        /\ alive' \in BOOLEAN
        /\ UNCHANGED <<serve, entries, dealers, managed>>
    BY <1>5 DEF Renames
  <2>3. files' \in Files
    BY <2>2 DEF Files
  <2>4. requests' \in [Slots -> Request]
    <3>1. \A r \in Request, pc \in {"wrote", "failed"} : [r EXCEPT !.pc = pc] \in Request
      BY DEF Request
    <3>2. w.by \in Slots \cup {NoSlot}
      BY <2>1 DEF Write
    <3> HIDE DEF w
    <3> QED BY <2>2, <3>1, <3>2
  <2>5. moved \in Seq(Write)
    <3> HIDE DEF rest
    <3>1. rest \in Seq(Write)
      BY <2>1 DEF rest
    <3>2. \A j \in DOMAIN rest : rest[j] \in Write
      BY <3>1, SeqEntries
    <3>3. \A j \in DOMAIN rest : [rest[j] EXCEPT !.to = RenamedTo(@)] \in Write
      BY <3>2 DEF Write, RenamedTo
    <3>4. Len(rest) \in Nat /\ DOMAIN rest = 1 .. Len(rest)
      BY <3>1, LenProperties
    <3>5. \A j \in 1 .. Len(rest) : [rest[j] EXCEPT !.to = RenamedTo(@)] \in Write
      BY <3>3, <3>4
    <3> QED BY <3>4, <3>5, MappedSeq
  <2> QED BY <2>1, <2>2, <2>3, <2>4, <2>5
<1>6. ASSUME NEW d \in DOMAIN dealers, Saves(d) PROVE DealerTypes'
  <2>1. dealers[d] \in DealerRec
    BY SeqEntries
  <2>2. /\ Head(dealers[d].saves) \in Saved /\ Tail(dealers[d].saves) \in Seq(Saved)
        /\ dealers[d].table \in TableIds
    BY <1>6, <2>1, HeadTailProperties DEF Saves, DealerRec
  <2>5. [dealers[d] EXCEPT !.saves = Tail(@)] \in DealerRec
    BY <2>1, <2>2 DEF DealerRec
  <2>3. dealers' \in Seq(DealerRec)
    BY <1>6, <2>5, ExceptFacts DEF Saves
  <2>4. files' \in Files
    BY <1>6, <2>2 DEF Saves, Files
  <2> QED BY <1>6, <2>3, <2>4 DEF Saves
<1>7. ASSUME NEW t \in TableIds, NEW seq \in Saved PROVE Dealer(t, seq) \in DealerRec
  BY DEF Dealer, DealerRec
<1>8. ASSUME NEW s \in Slots \cup {NoSlot}, Begin(s) PROVE writes' \in Seq(Write)
  <2>1. Writer(s) \in Write
    BY DEF Writer, Write
  <2> QED BY <1>8, <2>1, AppendProperties DEF Begin
<1>9. ASSUME NEW d \in DealerRec
      PROVE  /\ Persisted(d) \in DealerRec
             /\ \A up \in BOOLEAN : [d EXCEPT !.up = up] \in DealerRec
             /\ \A heard \in BOOLEAN : [d EXCEPT !.heard = heard] \in DealerRec
             /\ Acted(d) \in DealerRec
  <2>1. d.saves \in Seq(Saved) /\ d.seq \in Saved /\ d.seq + 1 \in Saved
    BY DEF DealerRec, Saved, Absent
  <2>2. Append(d.saves, d.seq) \in Seq(Saved)
    BY <2>1, AppendProperties
  <2>3. [d EXCEPT !.seq = @ + 1] \in DealerRec /\ Persisted(d) \in DealerRec
    BY <2>1, <2>2 DEF DealerRec, Persisted
  <2>4. Append([d EXCEPT !.seq = @ + 1].saves, [d EXCEPT !.seq = @ + 1].seq) \in Seq(Saved)
    <3>1. /\ [d EXCEPT !.seq = @ + 1].saves \in Seq(Saved)
          /\ [d EXCEPT !.seq = @ + 1].seq \in Saved
      BY <2>3 DEF DealerRec
    <3> QED BY <3>1, AppendProperties
  <2>5. Acted(d) \in DealerRec
    BY <2>3, <2>4 DEF Acted, Persisted, DealerRec
  <2> QED BY <2>3, <2>5 DEF DealerRec
<1>10. ASSUME NEW d \in DOMAIN dealers, DealerActs(d) PROVE DealerTypes'
  <2>1. dealers[d] \in DealerRec
    BY SeqEntries
  <2>2. Acted(dealers[d]) \in DealerRec
    BY <1>9, <2>1
  <2>5. dealers' = [dealers EXCEPT ![d] = Acted(dealers[d])]
    BY <1>10 DEF DealerActs
  <2>3. dealers' \in Seq(DealerRec)
    BY <2>2, <2>5, ExceptFacts
  <2>4. writes' \in Seq(Write) /\ serve' \in DealerConf
    BY <1>2, <1>8, <1>10 DEF DealerActs
  <2> QED BY <1>10, <2>3, <2>4 DEF DealerActs
<1>11. /\ Idle \in Request
       /\ \A r \in Request : /\ r.table \in TableIds /\ r.dealer \in Nat
                             /\ r.todo \subseteq TableIds
       /\ \A r \in Request, pc \in {"called", "make", "writing", "wrote", "start", "saving",
                                   "done", "failed"} :
             /\ [r EXCEPT !.pc = pc] \in Request
             /\ \A d \in Nat : [[r EXCEPT !.pc = pc] EXCEPT !.dealer = d] \in Request
  <2>1. ASSUME NEW r \in Request,
               NEW pc \in {"called", "make", "writing", "wrote", "start", "saving", "done",
                           "failed"}
        PROVE  /\ [r EXCEPT !.pc = pc] \in Request
               /\ \A d \in Nat : [[r EXCEPT !.pc = pc] EXCEPT !.dealer = d] \in Request
    BY DEF Request
  <2>2. \A r \in Request : r.table \in TableIds /\ r.dealer \in Nat /\ r.todo \subseteq TableIds
    BY DEF Request
  <2> QED BY <2>1, <2>2, IdleTyped
<1>12. ASSUME NEW s \in Slots, NEW pc \in {"called", "make", "writing", "wrote", "start",
                                          "saving", "done", "failed"}, Goes(s, pc)
       PROVE  requests' \in [Slots -> Request]
  BY <1>11, <1>12 DEF Goes
<1>13. ASSUME NEW s \in Slots, NEW op \in {"create", "resume", "stop", "remove"},
              NEW t \in TableIds, Calls(s, op, t)
       PROVE  DealerTypes'
  <2>1. \A purge \in BOOLEAN : [Idle EXCEPT !.op = op, !.table = t, !.pc = "called",
                                         !.purge = purge] \in Request
    BY IdleTyped
  <2>2. requests' \in [Slots -> Request]
    BY <1>13, <2>1 DEF Calls
  <2> QED BY <1>2, <1>13, <2>2 DEF Calls
<1>14. ASSUME NEW s \in Slots, Loads(s) PROVE DealerTypes'
  BY <1>12, <1>14 DEF Loads
<1>15. ASSUME NEW s \in Slots, Makes(s) PROVE DealerTypes'
  <2> DEFINE t == requests[s].table
             new == Dealer(t, IF requests[s].op = "create" THEN 0 ELSE files.tables[t])
  <2>1. t \in TableIds /\ files.tables[t] \in Saved
    BY <1>11 DEF Files
  <2>2. new \in DealerRec
    BY <1>7, <2>1 DEF Saved
  <2>3. dealers' = Append(dealers, new) /\ entries' = [entries EXCEPT ![t] = "running"]
        /\ Begin(s) /\ requests' = [requests EXCEPT ![s].pc = "writing",
                                                    ![s].dealer = Len(dealers')]
        /\ UNCHANGED <<serve, alive, managed, files>>
    BY <1>15 DEF Makes, Registers
  <2> HIDE DEF new
  <2>4. dealers' \in Seq(DealerRec) /\ Len(dealers') \in Nat
    BY <2>2, <2>3, AppendFacts
  <2>5. requests' \in [Slots -> Request]
    BY <1>11, <2>3, <2>4
  <2>6. entries' \in Registry
    BY <2>1, <2>3 DEF Registry, Statuses
  <2> QED BY <1>8, <2>3, <2>4, <2>5, <2>6
<1>16. ASSUME NEW s \in Slots, Attaches(s) PROVE DealerTypes'
  <2>1. managed' \in [TableIds -> Nat]
    BY <1>11, <1>16 DEF Attaches
  <2> QED BY <1>12, <1>16, <2>1 DEF Attaches
<1>17. ASSUME NEW s \in Slots, Starts(s) PROVE DealerTypes'
  <2> DEFINE d == requests[s].dealer
  <2>1. CASE dealers' = [dealers EXCEPT ![d] = Persisted([@ EXCEPT !.up = TRUE])]
             /\ Goes(s, "done") /\ UNCHANGED serve
    <3>1. CASE d \in DOMAIN dealers
      <4>1. Persisted([dealers[d] EXCEPT !.up = TRUE]) \in DealerRec
        BY <1>9, <3>1, SeqEntries
      <4>2. dealers' \in Seq(DealerRec)
        BY <2>1, <3>1, <4>1, ExceptFacts
      <4> QED BY <1>12, <1>17, <2>1, <4>2 DEF Starts
    <3>2. CASE d \notin DOMAIN dealers
      <4>1. dealers' = dealers
        BY <2>1, <3>2
      <4> QED BY <1>12, <1>17, <2>1, <4>1 DEF Starts
    <3> QED BY <3>1, <3>2
  <2>2. CASE Spends("refusals") /\ Goes(s, "failed") /\ UNCHANGED dealers
    BY <1>2, <1>12, <1>17, <2>2 DEF Starts
  <2> QED BY <1>17, <2>1, <2>2 DEF Starts
<1>18. ASSUME NEW s \in Slots, Stops(s) PROVE DealerTypes'
  <2> DEFINE d == managed[requests[s].table]
  <2>1. d \in Nat
    BY <1>11
  <2>2. CASE Goes(s, "failed") /\ UNCHANGED dealers
    BY <1>12, <1>18, <2>2 DEF Stops
  <2>3. CASE /\ dealers' = [dealers EXCEPT ![d] = Shut(d)]
             /\ requests' = [requests EXCEPT ![s].pc = "saving", ![s].dealer = d]
    <3>1. requests' \in [Slots -> Request]
      BY <1>11, <2>1, <2>3
    <3>2. CASE d \in DOMAIN dealers
      <4>1. Shut(d) \in DealerRec
        BY <1>9, <3>2, SeqEntries DEF Shut
      <4>2. dealers' \in Seq(DealerRec)
        BY <2>3, <3>2, <4>1, ExceptFacts
      <4> QED BY <1>18, <3>1, <4>2 DEF Stops
    <3>3. CASE d \notin DOMAIN dealers
      <4>1. dealers' = dealers
        BY <2>3, <3>3
      <4> QED BY <1>18, <3>1, <4>1 DEF Stops
    <3> QED BY <3>2, <3>3
  <2> QED BY <1>18, <2>2, <2>3 DEF Stops
<1>19. ASSUME NEW s \in Slots, Stopped(s) PROVE DealerTypes'
  <2>1. managed' \in [TableIds -> Nat] /\ entries' \in Registry
    BY <1>11, <1>19 DEF Stopped, Registry, Statuses
  <2> QED BY <1>8, <1>12, <1>19, <2>1 DEF Stopped
<1>20. ASSUME NEW s \in Slots, Removes(s) PROVE DealerTypes'
  <2>1. entries' \in Registry
    BY <1>11, <1>20 DEF Removes, Registry, Statuses
  <2> QED BY <1>8, <1>12, <1>20, <2>1 DEF Removes
<1>21. ASSUME NEW s \in Slots, Purges(s) PROVE DealerTypes'
  <2>1. files' \in Files
    BY <1>11, <1>21 DEF Purges, Files, Saved
  <2> QED BY <1>12, <1>21, <2>1 DEF Purges
<1>22. ASSUME NEW s \in Slots, Returns(s) PROVE DealerTypes'
  BY <1>11, <1>22 DEF Returns
<1>23. ASSUME NEW s \in Slots, ResumesNext(s) PROVE DealerTypes'
  <2>1. entries' \in Registry
    BY <1>11, <1>23 DEF ResumesNext, Registry, Statuses
  <2>2. \A t \in requests[s].todo : OnTo(requests[s], t) \in Request
    <3>1. requests[s] \in Request
      OBVIOUS
    <3> QED BY <3>1 DEF Request, OnTo
  <2>3. requests' \in [Slots -> Request]
    <3>1. CASE requests' = [requests EXCEPT ![s] = Idle]
      BY <1>11, <3>1
    <3>2. CASE \E t \in requests[s].todo : requests' = [requests EXCEPT ![s] = OnTo(@, t)]
      BY <2>2, <3>2
    <3> QED BY <1>23, <3>1, <3>2 DEF ResumesNext
  <2>4. writes' \in Seq(Write)
    BY <1>8, <1>23 DEF ResumesNext
  <2> QED BY <1>23, <2>1, <2>3, <2>4 DEF ResumesNext
<1>24. CASE Dies
  BY <1>2, <1>24 DEF Dies
<1>25. CASE Closes
  <2> DEFINE kept == [t \in TableIds |-> IF managed[t] = 0 THEN files.tables[t]
                                        ELSE dealers[managed[t]].seq]
  <2>1. files' = [files EXCEPT !.tables = kept]
    BY <1>25 DEF Closes, Files
  <2>2. \A t \in TableIds : kept[t] \in Saved
    <3> SUFFICES ASSUME NEW t \in TableIds PROVE kept[t] \in Saved
      OBVIOUS
    <3>1. managed[t] # 0 => dealers[managed[t]] \in DealerRec
      BY SeqEntries DEF ManagedInv
    <3> QED BY <3>1 DEF DealerRec, Files
  <2>3. files' \in Files
    BY <2>1, <2>2 DEF Files
  <2> QED BY <1>2, <1>25, <2>3 DEF Closes
<1>26. ASSUME NEW s \in Slots, Opens(s) PROVE DealerTypes'
  <2>1. \A t \in TableIds : Found(t) \in Statuses
    BY DEF Found, Files, Registry, Statuses, Torn
  <2>3. entries' \in Registry
    BY <1>26, <2>1 DEF Opens, Registry
  <2>4. requests' \in [Slots -> Request]
    <3> DEFINE all == {t \in TableIds : Found(t) = "running"}
    <3>1. requests' = [r \in Slots |-> IF r # s \/ all = {} THEN Idle
                                     ELSE [Idle EXCEPT !.op = "resumeAll", !.todo = all]]
      BY <1>26 DEF Opens
    <3>2. all \in SUBSET TableIds
      OBVIOUS
    <3> HIDE DEF all
    <3> QED BY <3>1, <3>2, IdleTyped
  <2>5. /\ managed' \in [TableIds -> Nat] /\ dealers' = << >> /\ writes' = << >>
        /\ alive' = TRUE /\ UNCHANGED <<serve, files>>
    BY <1>26 DEF Opens
  <2>6. << >> \in Seq(DealerRec) /\ << >> \in Seq(Write)
    OBVIOUS
  <2> QED BY <2>3, <2>4, <2>5, <2>6
<1> QED BY <1>1, <1>3, <1>4, <1>5, <1>6, <1>10, <1>13, <1>14, <1>15, <1>16, <1>17, <1>18, <1>19,
           <1>20, <1>21, <1>22, <1>23, <1>24, <1>25, <1>26
        DEF DealerNext
-----------------------------------------------------------------------------
(* What a step leaves alone. *)

(* Nothing that the manager or the disk holds changes but for the tables T.  *)
OnlyAt(T) ==
    /\ \A u \in TableIds \ T : managed'[u] = managed[u] /\ files'.tables[u] = files.tables[u]
    /\ \A d \in DOMAIN dealers :
          /\ d \in DOMAIN dealers' /\ dealers'[d].table = dealers[d].table
          /\ dealers[d].table \notin T => dealers'[d] = dealers[d]
    /\ \A d \in DOMAIN dealers' : d \in DOMAIN dealers \/ dealers'[d].table \in T
OthersWait(s) == \A r \in Slots : r # s => requests'[r] = requests[r]

LEMMA CallElsewhere ==
    ASSUME DealerTypes, NEW T, OnlyAt(T), NEW r \in Slots, requests'[r] = requests[r],
           Of(requests[r]) \cap T = {}, CallSound(requests[r])
    PROVE  CallSound(requests[r])'
<1> DEFINE j == requests[r]
           t == j.table
<1>1. j \in Request
  BY DEF DealerTypes
<1>2. t \in TableIds /\ j.todo \subseteq TableIds /\ j.dealer \in Nat
  BY <1>1 DEF Request
<1>3. CASE j.op = "idle"
  BY <1>3 DEF CallSound, MakerOps
<1>4. CASE j.op # "idle"
  <2>1. t \notin T /\ j.todo \cap T = {}
    BY <1>4 DEF Of
  <2>2. /\ managed'[t] = managed[t] /\ files'.tables[t] = files.tables[t]
        /\ \A u \in j.todo : managed'[u] = managed[u]
    BY <1>2, <2>1 DEF OnlyAt
  <2>3. \A d : d \in DOMAIN dealers' /\ dealers'[d].table = t
               <=> d \in DOMAIN dealers /\ dealers[d].table = t
    BY <2>1 DEF OnlyAt
  <2>4. \A d \in DOMAIN dealers : dealers[d].table = t => dealers'[d] = dealers[d]
    BY <2>1 DEF OnlyAt
  <2>5. /\ Unhosted(t) => Unhosted(t)'
        /\ Fresh(t, j.dealer) => Fresh(t, j.dealer)'
        /\ ToStart(t, j.dealer) => ToStart(t, j.dealer)'
    <3>1. Unhosted(t) => Unhosted(t)'
      BY <2>3, <2>4 DEF Unhosted
    <3>2. Fresh(t, j.dealer) => Fresh(t, j.dealer)'
      BY <2>2, <2>3, <2>4 DEF Fresh, ToStart
    <3>3. ToStart(t, j.dealer) => ToStart(t, j.dealer)'
      BY <2>3, <2>4 DEF ToStart
    <3> QED BY <3>1, <3>2, <3>3
  <2> QED BY <2>2, <2>3, <2>4, <2>5 DEF CallSound
<1> QED BY <1>3, <1>4

LEMMA SavesElsewhere ==
    ASSUME DealerTypes, NEW T, OnlyAt(T), NEW d \in DOMAIN dealers', dealers'[d].table \notin T,
           \A e \in DOMAIN dealers : SavesSound(e)
    PROVE  SavesSound(d)'
<1>1. d \in DOMAIN dealers /\ dealers'[d] = dealers[d] /\ dealers[d].table \in TableIds
  BY DealerEntries DEF OnlyAt, DealerTypes
<1>2. /\ managed'[dealers[d].table] = managed[dealers[d].table]
      /\ files'.tables[dealers[d].table] = files.tables[dealers[d].table]
  BY <1>1 DEF OnlyAt
<1> QED BY <1>1, <1>2 DEF SavesSound

(* Writing goes on, or begins.                                              *)
LEMMA WritersKept ==
    ASSUME DealerTypes, WritersSound,
           \A r \in Slots : requests[r].pc = "writing" => requests'[r].pc = "writing"
    PROVE  /\ UNCHANGED writes => WritersSound'
           /\ \A s \in Slots \cup {NoSlot} :
                 /\ Begin(s)
                 /\ s # NoSlot => requests[s].pc # "writing" /\ requests'[s].pc = "writing"
                 => WritersSound'
<1>1. ASSUME NEW i \in DOMAIN writes PROVE writes[i].by \in Slots \cup {NoSlot}
  <2>1. writes[i] \in Write
    BY SeqEntries DEF DealerTypes
  <2> QED BY <2>1 DEF Write
<1>2. ASSUME UNCHANGED writes PROVE WritersSound'
  BY <1>1, <1>2 DEF WritersSound
<1>3. ASSUME NEW s \in Slots \cup {NoSlot}, Begin(s),
             s # NoSlot => requests[s].pc # "writing" /\ requests'[s].pc = "writing"
      PROVE  WritersSound'
  <2> DEFINE w == Writer(s)
  <2>1. w \in Write /\ w.by = s
    BY DEF Writer, Write
  <2>2. writes' = Append(writes, w)
    BY <1>3 DEF Begin
  <2> HIDE DEF w
  <2>3. /\ Len(writes) + 1 \in DOMAIN writes' /\ writes'[Len(writes) + 1] = w
        /\ \A i \in DOMAIN writes : writes'[i] = writes[i]
        /\ \A i \in DOMAIN writes' : i \in DOMAIN writes \/ i = Len(writes) + 1
    BY <2>1, <2>2, AppendFacts DEF DealerTypes
  <2>4. \A i \in DOMAIN writes : writes[i].by = s => s = NoSlot
    BY <1>3 DEF WritersSound
  <2> QED BY <1>1, <1>3, <2>1, <2>3, <2>4 DEF WritersSound
<1> QED BY <1>2, <1>3

(* Calls stay about different tables.                                       *)
LEMMA ApartKept ==
    ASSUME CallsApart, NEW s \in Slots, OthersWait(s),
           \A u \in Of(requests'[s]) : u \in Of(requests[s]) \/ \A r \in Slots : u \notin Of(requests[r])
    PROVE  CallsApart'
BY DEF CallsApart, OthersWait

(* A step that disturbs nothing but its tables: one that moves no call, and one
   of a call about them.                                                    *)
LEMMA StillStep ==
    ASSUME DealerTypes, SavingInv, alive, NEW T, OnlyAt(T), UNCHANGED requests, WritersSound',
           \A s \in Slots : Of(requests[s]) \cap T # {} => CallSound(requests[s])',
           \A d \in DOMAIN dealers' : dealers'[d].table \in T => SavesSound(d)'
    PROVE  SavingInv'
<1>1. /\ CallsApart /\ \A r \in Slots : CallSound(requests[r])
      /\ \A d \in DOMAIN dealers : SavesSound(d)
  BY DEF SavingInv
<1>2. CallsApart'
  BY <1>1 DEF CallsApart
<1>3. ASSUME NEW r \in Slots PROVE CallSound(requests[r])'
  <2>1. CASE Of(requests[r]) \cap T # {}
    BY <2>1
  <2>2. CASE Of(requests[r]) \cap T = {}
    BY <1>1, <2>2, CallElsewhere
  <2> QED BY <2>1, <2>2
<1>4. ASSUME NEW d \in DOMAIN dealers' PROVE SavesSound(d)'
  BY <1>1, <1>4, SavesElsewhere
<1> QED BY <1>2, <1>3, <1>4 DEF SavingInv

LEMMA CallStep ==
    ASSUME DealerTypes, SavingInv, alive, NEW s \in Slots, NEW T, T \subseteq Of(requests[s]),
           OnlyAt(T), OthersWait(s), CallsApart', CallSound(requests[s])', WritersSound',
           \A d \in DOMAIN dealers' : dealers'[d].table \in T => SavesSound(d)'
    PROVE  SavingInv'
<1>1. /\ CallsApart /\ \A r \in Slots : CallSound(requests[r])
      /\ \A d \in DOMAIN dealers : SavesSound(d)
  BY DEF SavingInv
<1>2. ASSUME NEW r \in Slots PROVE CallSound(requests[r])'
  <2>1. CASE r = s
    BY <2>1
  <2>2. CASE r # s
    <3>1. requests'[r] = requests[r] /\ Of(requests[r]) \cap T = {}
      BY <1>1, <2>2 DEF CallsApart, OthersWait
    <3> QED BY <1>1, <3>1, CallElsewhere
  <2> QED BY <2>1, <2>2
<1>3. ASSUME NEW d \in DOMAIN dealers' PROVE SavesSound(d)'
  BY <1>1, <1>3, SavesElsewhere
<1> QED BY <1>2, <1>3 DEF SavingInv

(* Steps that move calls and writes only.                                   *)
Forward == \A t \in TableIds : files'.tables[t] < files.tables[t] => files'.tables[t] = Absent
Quiet   == UNCHANGED <<dealers, managed>> /\ files'.tables = files.tables

LEMMA QuietStep ==
    ASSUME DealerTypes, ManagedInv, SavingInv, alive, Quiet, WritersSound'
    PROVE  /\ ManagedInv' /\ OnlyAt({}) /\ Forward
           /\ UNCHANGED requests => SavingInv'
<1>1. OnlyAt({}) /\ ManagedInv'
  BY DEF Quiet, OnlyAt, ManagedInv
<1>2. Forward
  <2>1. \A t \in TableIds : files.tables[t] \in Int
    BY DEF DealerTypes, Files, Saved, Absent
  <2> QED BY <2>1 DEF Quiet, Forward
<1> QED BY <1>1, <1>2, StillStep

LEMMA QuietCall ==
    ASSUME DealerTypes, ManagedInv, SavingInv, alive, Quiet, WritersSound', NEW s \in Slots,
           OthersWait(s), CallsApart', CallSound(requests[s])'
    PROVE  ManagedInv' /\ SavingInv' /\ Forward
<1>1. ManagedInv' /\ OnlyAt({}) /\ Forward
  BY QuietStep
<1>2. \A d \in DOMAIN dealers' : dealers'[d].table \in {} => SavesSound(d)'
  OBVIOUS
<1>3. {} \subseteq Of(requests[s])
  OBVIOUS
<1> QED BY <1>1, <1>2, <1>3, CallStep

(* A call that fails, or is over, holds nothing.                            *)
LEMMA CallOver ==
    ASSUME NEW s \in Slots, requests[s] \in Request, CallSound(requests[s]), Quiet,
           NEW pc \in {"failed", "done"}, requests'[s] = [requests[s] EXCEPT !.pc = pc],
           requests[s].op # "idle", requests[s].pc # "done",
           requests[s].op = "resumeAll" => Unhosted(requests[s].table)
    PROVE  CallSound(requests[s])'
<1> DEFINE j == requests[s]
<1>1. /\ j'.op = j.op /\ j'.table = j.table /\ j'.pc = pc /\ j'.todo = j.todo
  BY DEF Request
<1>2. j.op = "resumeAll" => Unhosted(j.table)'
  BY <1>1 DEF Quiet, Unhosted
<1> QED BY <1>1, <1>2 DEF CallSound, Quiet, MakerOps

-----------------------------------------------------------------------------
(* The steps. *)

LEMMA SavingKept ==
    ASSUME DealerTypes, DealerTypes', ManagedInv, SavingInv, [DealerNext]_dealerVars
    PROVE  ManagedInv' /\ SavingInv' /\ Forward
<1>0. /\ dealers \in Seq(DealerRec) /\ Len(dealers) \in Nat /\ DOMAIN dealers = 1 .. Len(dealers)
      /\ 0 \notin DOMAIN dealers /\ TableIds # {} /\ NoSlot \notin Slots
      /\ \A d \in DOMAIN dealers : /\ dealers[d].table \in TableIds /\ dealers[d].seq \in Saved
                                   /\ dealers[d].saves \in Seq(Saved)
      /\ \A u \in TableIds : files.tables[u] \in Saved /\ managed[u] \in Nat
      /\ \A s \in Slots : /\ requests[s] \in Request /\ requests[s].table \in TableIds
                          /\ requests[s].todo \subseteq TableIds /\ requests[s].dealer \in Nat
      /\ \A n \in Saved : n \in Int /\ Absent <= n
  BY DealerEntries, DealerAssumption DEF DealerTypes, Files, Request, Saved, Absent
<1>1. alive => /\ CallsApart /\ \A s \in Slots : CallSound(requests[s])
               /\ \A d \in DOMAIN dealers : SavesSound(d)
               /\ WritersSound
  BY DEF SavingInv
<1>2. \A u \in TableIds : managed[u] = 0 => Unhosted(u)
  BY <1>0 DEF ManagedInv, Unhosted
<1>3. CASE UNCHANGED dealerVars
  <2>1. Forward
    BY <1>0, <1>3 DEF dealerVars, Forward
  <2>2. ManagedInv'
    BY <1>3 DEF dealerVars, ManagedInv
  <2>3. CallsApart <=> CallsApart'
    BY <1>3 DEF dealerVars, CallsApart, Of
  <2>4. ASSUME NEW s \in Slots PROVE CallSound(requests[s]) <=> CallSound(requests[s])'
    BY <1>3 DEF dealerVars, CallSound, Fresh, ToStart, Unhosted
  <2>5. ASSUME NEW d \in DOMAIN dealers PROVE SavesSound(d) <=> SavesSound(d)'
    BY <1>3 DEF dealerVars, SavesSound
  <2>6. WritersSound <=> WritersSound'
    BY <1>3 DEF dealerVars, WritersSound
  <2>7. alive' = alive /\ DOMAIN dealers' = DOMAIN dealers
    BY <1>3 DEF dealerVars
  <2>8. SavingInv'
    BY <1>1, <2>3, <2>4, <2>5, <2>6, <2>7 DEF SavingInv
  <2> QED BY <2>1, <2>2, <2>8
<1>5. ASSUME alive, NEW i \in DOMAIN writes, WriteOpens(i) \/ Written(i)
      PROVE  ManagedInv' /\ SavingInv' /\ Forward
  <2>1. /\ UNCHANGED <<alive, dealers, managed, requests>>
        /\ DOMAIN writes' = DOMAIN writes
        /\ \A k \in DOMAIN writes : writes'[k].by = writes[k].by
    <3>1. writes[i] \in Write
      BY SeqEntries DEF DealerTypes
    <3>2. CASE WriteOpens(i)
      BY <3>1, <3>2 DEF WriteOpens, Write
    <3>3. CASE Written(i)
      BY <3>1, <3>3 DEF Written, Write
    <3> QED BY <1>5, <3>2, <3>3
  <2>2. files'.tables = files.tables
    BY <1>5 DEF WriteOpens, Written, Put, DealerTypes, Files
  <2>3. WritersSound'
    BY <1>1, <1>5, <2>1 DEF WritersSound
  <2> QED BY <1>5, <2>1, <2>2, <2>3, QuietStep DEF Quiet
<1>6. ASSUME alive, NEW i \in DOMAIN writes, Renames(i)
      PROVE  ManagedInv' /\ SavingInv' /\ Forward
  <2> DEFINE w == writes[i]
             rest == RemoveAt(writes, i)
  <2>1. /\ UNCHANGED <<dealers, managed>> /\ files'.tables = files.tables
        /\ DOMAIN writes' = DOMAIN rest /\ \A k \in DOMAIN rest : writes'[k].by = rest[k].by
        /\ IF w.by = NoSlot THEN UNCHANGED requests
           ELSE \E pc \in {"wrote", "failed"} : requests' = [requests EXCEPT ![w.by].pc = pc]
    <3>1. /\ UNCHANGED <<dealers, managed>>
          /\ IF w.by = NoSlot THEN UNCHANGED requests
             ELSE \E pc \in {"wrote", "failed"} : requests' = [requests EXCEPT ![w.by].pc = pc]
      BY <1>6 DEF Renames
    <3>2. files'.tables = files.tables
      BY <1>6 DEF Renames, DealerTypes, Files
    <3>3. rest \in Seq(Write)
      BY RemoveAtFacts DEF DealerTypes
    <3>4. \A k \in DOMAIN rest : rest[k] \in Write
      BY <3>3, SeqEntries
    <3>5. \/ writes' = [k \in DOMAIN rest |-> [rest[k] EXCEPT !.to = RenamedTo(@)]]
          \/ writes' = rest
      BY <1>6 DEF Renames
    <3> HIDE DEF rest
    <3>6. DOMAIN writes' = DOMAIN rest /\ \A k \in DOMAIN rest : writes'[k].by = rest[k].by
      BY <3>4, <3>5 DEF Write
    <3> QED BY <3>1, <3>2, <3>6
  <2>2. /\ DOMAIN writes = 1 .. Len(writes) /\ Len(writes) \in Nat
        /\ DOMAIN rest = 1 .. Len(writes) - 1
        /\ \A k \in DOMAIN rest : rest[k] = IF k < i THEN writes[k] ELSE writes[k + 1]
    BY RemoveAtFacts, LenProperties DEF DealerTypes
  <2>3. /\ \A k \in DOMAIN rest : \E m \in DOMAIN writes :
              m # i /\ rest[k] = writes[m] /\ (m = IF k < i THEN k ELSE k + 1)
    <3> SUFFICES ASSUME NEW k \in DOMAIN rest
                 PROVE  \E m \in DOMAIN writes :
                          m # i /\ rest[k] = writes[m] /\ (m = IF k < i THEN k ELSE k + 1)
      OBVIOUS
    <3> HIDE DEF rest
    <3>1. CASE k < i
      BY <2>2, <3>1
    <3>2. CASE ~(k < i)
      BY <2>2, <3>2
    <3> QED BY <3>1, <3>2
  <2>4. w.by \in Slots \cup {NoSlot}
    <3>1. w \in Write
      BY SeqEntries DEF DealerTypes
    <3> QED BY <3>1 DEF Write
  <2>5. \A r \in Slots : r # w.by => requests'[r] = requests[r]
    BY <1>0, <2>1, <2>4 DEF DealerTypes
  <2> HIDE DEF rest, w
  <2>6. WritersSound'
    <3>1. ASSUME NEW k \in DOMAIN writes', writes'[k].by # NoSlot
          PROVE  requests'[writes'[k].by].pc = "writing"
      <4>1. PICK m \in DOMAIN writes : m # i /\ rest[k] = writes[m]
        BY <2>1, <2>3, <3>1
      <4>2. writes'[k].by = writes[m].by /\ writes[m].by # w.by
        BY <1>1, <1>6, <2>1, <3>1, <4>1 DEF WritersSound, w
      <4>3. requests[writes[m].by].pc = "writing" /\ writes[m].by \in Slots
        <5>1. writes[m] \in Write
          BY SeqEntries DEF DealerTypes
        <5> QED BY <1>1, <1>6, <3>1, <4>2, <5>1 DEF WritersSound, Write
      <4> QED BY <2>5, <4>2, <4>3
    <3>2. ASSUME NEW k \in DOMAIN writes', NEW l \in DOMAIN writes',
                 writes'[k].by = writes'[l].by, writes'[k].by # NoSlot
          PROVE  k = l
      <4>1. PICK m \in DOMAIN writes :
              m # i /\ rest[k] = writes[m] /\ (m = IF k < i THEN k ELSE k + 1)
        BY <2>1, <2>3, <3>2
      <4>2. PICK n \in DOMAIN writes :
              n # i /\ rest[l] = writes[n] /\ (n = IF l < i THEN l ELSE l + 1)
        BY <2>1, <2>3, <3>2
      <4>3. m = n
        BY <1>1, <1>6, <2>1, <3>2, <4>1, <4>2 DEF WritersSound
      <4>4. k \in Int /\ l \in Int /\ i \in Int
        BY <2>1, <2>2
      <4> QED BY <4>1, <4>2, <4>3, <4>4
    <3> QED BY <3>1, <3>2 DEF WritersSound
  <2>7. CASE w.by = NoSlot
    BY <1>6, <2>1, <2>6, <2>7, QuietStep DEF Quiet
  <2>8. CASE w.by # NoSlot
    <3>1. PICK pc \in {"wrote", "failed"} : requests' = [requests EXCEPT ![w.by].pc = pc]
      BY <2>1, <2>8
    <3>2. PICK s \in Slots : s = w.by
      BY <2>4, <2>8
    <3>3. OthersWait(s) /\ requests[s].pc = "writing"
      BY <1>1, <1>6, <2>5, <2>8, <3>2 DEF OthersWait, WritersSound, w
    <3> DEFINE j == requests[s]
    <3>4. j' = [j EXCEPT !.pc = pc] /\ j \in Request
      BY <1>0, <3>1, <3>2 DEF DealerTypes
    <3>5. CallSound(j) /\ CallsApart
      BY <1>1, <1>6
    <3>6. /\ j'.op = j.op /\ j'.table = j.table /\ j'.pc = pc /\ j'.todo = j.todo
          /\ j'.dealer = j.dealer /\ j.table \in TableIds
      BY <3>4 DEF Request
    <3>7. CallsApart'
      <4>1. Of(j') = Of(j)
        BY <3>6 DEF Of
      <4> QED BY <3>3, <3>5, <4>1, ApartKept
    <3>8. CallSound(j)'
      <4>1. j.op \in MakerOps => managed[j.table] = 0 /\ Fresh(j.table, j.dealer)
        BY <3>3, <3>5 DEF CallSound
      <4>2. /\ Fresh(j.table, j.dealer) => Fresh(j.table, j.dealer)'
            /\ Unhosted(j.table) => Unhosted(j.table)'
        BY <2>1, <3>6 DEF Fresh, ToStart, Unhosted
      <4> QED BY <1>2, <2>1, <3>3, <3>5, <3>6, <4>1, <4>2 DEF CallSound, MakerOps
    <3> QED BY <1>6, <2>1, <2>6, <3>3, <3>7, <3>8, QuietCall DEF Quiet
  <2> QED BY <2>7, <2>8
<1>7. ASSUME alive, NEW d \in DOMAIN dealers, Saves(d)
      PROVE  ManagedInv' /\ SavingInv' /\ Forward
  <2> DEFINE t    == dealers[d].table
             old  == dealers[d].saves
             rest == Tail(old)
  <2>1. /\ t \in TableIds /\ old \in Seq(Saved) /\ old # << >> /\ dealers[d] \in DealerRec
    BY <1>0, <1>7, SeqEntries DEF Saves
  <2>2. /\ Len(old) \in Nat \ {0} /\ DOMAIN old = 1 .. Len(old) /\ Head(old) = old[1]
        /\ rest \in Seq(Saved) /\ Len(rest) = Len(old) - 1 /\ DOMAIN rest = 1 .. Len(rest)
        /\ \A i \in 1 .. Len(rest) : rest[i] = old[i + 1]
        /\ \A i \in DOMAIN old : old[i] \in Int
    <3>1. \A i \in DOMAIN old : old[i] \in Saved
      BY <2>1, SeqEntries
    <3> QED BY <1>0, <2>1, <3>1, HeadTailProperties, LenProperties
  <2>3. /\ SavesSound(d) /\ managed[t] = d /\ d # 0
    BY <1>0, <1>1, <1>7, <2>1 DEF SavesSound
  <2>4. /\ files.tables[t] <= old[1] /\ old[Len(old)] = dealers[d].seq
        /\ \A i, j \in DOMAIN old : i <= j => old[i] <= old[j]
    BY <2>1, <2>3 DEF SavesSound
  <2>5. /\ files'.tables = [files.tables EXCEPT ![t] = Head(old)]
        /\ dealers' = [dealers EXCEPT ![d] = [dealers[d] EXCEPT !.saves = Tail(old)]]
        /\ UNCHANGED <<alive, managed, requests, writes>>
    BY <1>7 DEF Saves, DealerTypes, Files
  <2>6. /\ DOMAIN dealers' = DOMAIN dealers
        /\ \A e \in DOMAIN dealers : e # d => dealers'[e] = dealers[e]
        /\ dealers'[d].table = t /\ dealers'[d].seq = dealers[d].seq /\ dealers'[d].saves = rest
        /\ dealers'[d].up = dealers[d].up
        /\ files'.tables[t] = old[1] /\ \A u \in TableIds : u # t => files'.tables[u] = files.tables[u]
    BY <2>1, <2>2, <2>5 DEF DealerRec, DealerTypes, Files
  <2> HIDE DEF rest, old, t
  <2>7. OnlyAt({t})
    BY <2>5, <2>6 DEF OnlyAt, t
  <2>8. ManagedInv'
    BY <2>5, <2>6 DEF ManagedInv, t
  <2>9. Forward
    <3>1. 1 \in DOMAIN old /\ old[1] \in Int /\ files.tables[t] \in Int
      BY <1>0, <2>1, <2>2
    <3>2. ~(files'.tables[t] < files.tables[t])
      BY <2>4, <2>6, <3>1
    <3>3. \A u \in TableIds : u # t => ~(files'.tables[u] < files.tables[u])
      BY <1>0, <2>6
    <3> QED BY <3>2, <3>3 DEF Forward
  <2>10. SavesSound(d)'
    <3>1. \A i, j \in DOMAIN rest : i <= j => rest[i] <= rest[j]
      <4> SUFFICES ASSUME NEW i \in DOMAIN rest, NEW j \in DOMAIN rest, i <= j
                   PROVE  rest[i] <= rest[j]
        OBVIOUS
      <4>1. i + 1 \in DOMAIN old /\ j + 1 \in DOMAIN old /\ i + 1 <= j + 1
        BY <2>2
      <4> QED BY <2>2, <2>4, <4>1
    <3>2. old[1] <= old[Len(old)]
      BY <2>2, <2>4
    <3>3. CASE rest = << >>
      <4>1. Len(old) = 1
        BY <2>2, <3>3
      <4> QED BY <2>2, <2>4, <2>6, <3>2, <3>3, <4>1 DEF SavesSound
    <3>4. CASE rest # << >>
      <4>1. Len(rest) # 0
        BY <2>2, <3>4
      <4>2. /\ rest[1] = old[2] /\ old[1] <= old[2] /\ rest[Len(rest)] = old[Len(old)]
        BY <2>2, <2>4, <4>1
      <4>3. /\ managed'[t] = d /\ rest[Len(rest)] = dealers[d].seq
            /\ files'.tables[t] <= rest[1] /\ files'.tables[t] <= dealers[d].seq
        BY <2>3, <2>4, <2>5, <2>6, <3>2, <4>2
      <4> QED BY <2>6, <3>1, <3>4, <4>3 DEF SavesSound
    <3> QED BY <3>3, <3>4
  <2>11. ASSUME NEW e \in DOMAIN dealers', dealers'[e].table \in {t} PROVE SavesSound(e)'
    <3>1. CASE e = d
      BY <2>10, <3>1
    <3>2. CASE e # d
      <4>1. /\ dealers'[e] = dealers[e] /\ dealers[e].table = t /\ SavesSound(e)
            /\ ~dealers[e].up
        BY <1>1, <1>7, <2>3, <2>6, <2>11, <3>2 DEF ManagedInv
      <4> QED BY <2>3, <2>5, <3>2, <4>1 DEF SavesSound
    <3> QED BY <3>1, <3>2
  <2>12. ASSUME NEW s \in Slots, Of(requests[s]) \cap {t} # {} PROVE CallSound(requests[s])'
    <3>1. /\ CallSound(requests[s]) /\ requests'[s] = requests[s]
      BY <1>1, <1>7, <2>5
    <3>2. t \notin requests[s].todo /\ requests[s].table = t
      BY <2>3, <2>12, <3>1 DEF CallSound, Of
    <3>3. managed[t] = d /\ d # 0
      BY <1>0, <2>3
    <3>4. /\ Unhosted(t) => Unhosted(t)'
          /\ ToStart(t, d) => ToStart(t, d)'
      BY <2>6 DEF Unhosted, ToStart, t
    <3> QED BY <2>3, <2>5, <2>6, <3>1, <3>2, <3>3, <3>4 DEF CallSound, MakerOps, t
  <2>13. WritersSound'
    BY <1>1, <1>7, <2>5 DEF WritersSound
  <2> QED BY <1>7, <2>5, <2>7, <2>8, <2>9, <2>11, <2>12, <2>13, StillStep
<1>8. ASSUME NEW e \in DealerRec, NEW kept,
             kept = Persisted(e)
      PROVE  /\ kept.table = e.table /\ kept.seq = e.seq /\ kept.up = e.up
             /\ kept.saves = Append(e.saves, e.seq) /\ Len(kept.saves) = Len(e.saves) + 1
             /\ kept.saves # << >> /\ DOMAIN kept.saves = 1 .. Len(kept.saves)
             /\ Len(e.saves) \in Nat /\ DOMAIN e.saves = 1 .. Len(e.saves)
             /\ kept.saves[Len(kept.saves)] = e.seq
             /\ \A k \in DOMAIN e.saves : kept.saves[k] = e.saves[k]
             /\ \A k \in DOMAIN e.saves : e.saves[k] \in Int
  <2> DEFINE old == e.saves
             new == Append(old, e.seq)
  <2>1. e.saves \in Seq(Saved) /\ e.seq \in Saved
    BY DEF DealerRec
  <2>2. kept.table = e.table /\ kept.seq = e.seq /\ kept.up = e.up /\ kept.saves = new
    BY <1>8 DEF Persisted, DealerRec
  <2> HIDE DEF new
  <2>3. /\ new \in Seq(Saved) /\ Len(new) = Len(old) + 1 /\ Len(old) \in Nat
        /\ DOMAIN old = 1 .. Len(old) /\ DOMAIN new = 1 .. Len(old) + 1
        /\ \A k \in DOMAIN old : new[k] = old[k]
        /\ new[Len(old) + 1] = e.seq
    BY <2>1, AppendFacts DEF new
  <2>4. \A k \in DOMAIN old : old[k] \in Int
    BY <1>0, <2>1, SeqEntries
  <2>5. new # << >>
    BY <2>3
  <2> QED BY <2>2, <2>3, <2>4, <2>5 DEF new
(* A dealer that is saved once more, not behind what was saved before.       *)
<1>9. ASSUME NEW d \in DOMAIN dealers, SavesSound(d), managed[dealers[d].table] = d,
             managed' = managed, files'.tables = files.tables, d \in DOMAIN dealers',
             NEW e \in DealerRec, e.table = dealers[d].table, e.saves = dealers[d].saves,
             dealers[d].seq <= e.seq, dealers'[d].saves = Persisted(e).saves,
             dealers'[d].table = e.table, dealers'[d].seq = e.seq
      PROVE  SavesSound(d)'
  <2> DEFINE kept == Persisted(e)
             t    == dealers[d].table
  <2>1. /\ kept.saves # << >> /\ DOMAIN kept.saves = 1 .. Len(kept.saves)
        /\ Len(kept.saves) = Len(e.saves) + 1 /\ Len(e.saves) \in Nat
        /\ DOMAIN e.saves = 1 .. Len(e.saves)
        /\ kept.saves[Len(kept.saves)] = e.seq
        /\ \A k \in DOMAIN e.saves : kept.saves[k] = e.saves[k]
        /\ \A k \in DOMAIN e.saves : e.saves[k] \in Int
    BY <1>8
  <2>2. /\ e.seq \in Int /\ dealers[d].seq \in Int /\ files.tables[t] \in Int
        /\ files.tables[t] <= dealers[d].seq
    BY <1>0, <1>9 DEF SavesSound, DealerRec
  <2> HIDE DEF kept, t
  <2>3. \A k \in DOMAIN e.saves : e.saves[k] <= dealers[d].seq
    <3> SUFFICES ASSUME NEW k \in DOMAIN e.saves PROVE e.saves[k] <= dealers[d].seq
      OBVIOUS
    <3>1. e.saves # << >> /\ Len(e.saves) \in DOMAIN e.saves /\ k <= Len(e.saves)
      BY <2>1
    <3> QED BY <1>9, <3>1 DEF SavesSound
  <2>4. \A i, j \in DOMAIN kept.saves : i <= j => kept.saves[i] <= kept.saves[j]
    <3> SUFFICES ASSUME NEW i \in DOMAIN kept.saves, NEW j \in DOMAIN kept.saves, i <= j
                 PROVE  kept.saves[i] <= kept.saves[j]
      OBVIOUS
    <3>1. CASE j \in DOMAIN e.saves
      <4>1. e.saves # << >> /\ i \in DOMAIN e.saves
        BY <2>1, <3>1
      <4> QED BY <1>9, <2>1, <3>1, <4>1 DEF SavesSound
    <3>2. CASE j \notin DOMAIN e.saves
      <4>1. kept.saves[j] = e.seq
        BY <2>1, <3>2
      <4>2. CASE i \in DOMAIN e.saves
        BY <1>9, <2>1, <2>2, <2>3, <4>1, <4>2
      <4>3. CASE i \notin DOMAIN e.saves
        <5>1. kept.saves[i] = e.seq
          BY <2>1, <4>3
        <5> QED BY <2>2, <4>1, <5>1
      <4> QED BY <4>2, <4>3
    <3> QED BY <3>1, <3>2
  <2>5. files.tables[t] <= kept.saves[1]
    <3>1. CASE e.saves = << >>
      <4>1. Len(kept.saves) = 1
        BY <2>1, <3>1
      <4> QED BY <1>9, <2>1, <2>2, <4>1
    <3>2. CASE e.saves # << >>
      <4>1. Len(e.saves) # 0 /\ 1 \in DOMAIN e.saves
        BY <2>1, <3>2
      <4> QED BY <1>9, <2>1, <3>2, <4>1 DEF SavesSound, t
    <3> QED BY <3>1, <3>2
  <2>6. files.tables[t] <= e.seq
    BY <1>9, <2>2
  <2> QED BY <1>9, <2>1, <2>4, <2>5, <2>6 DEF SavesSound, kept, t
<1>10. ASSUME alive, NEW s \in Slots, NEW pc,
              requests' = [requests EXCEPT ![s].pc = pc]
       PROVE  /\ OthersWait(s) /\ CallsApart'
              /\ requests'[s].op = requests[s].op /\ requests'[s].table = requests[s].table
              /\ requests'[s].pc = pc /\ requests'[s].todo = requests[s].todo
              /\ requests'[s].dealer = requests[s].dealer
  <2>1. requests[s] \in Request
    BY <1>0
  <2>2. /\ OthersWait(s)
        /\ requests'[s].op = requests[s].op /\ requests'[s].table = requests[s].table
        /\ requests'[s].pc = pc /\ requests'[s].todo = requests[s].todo
        /\ requests'[s].dealer = requests[s].dealer
    BY <1>10, <2>1 DEF OthersWait, DealerTypes, Request
  <2>3. Of(requests'[s]) = Of(requests[s])
    BY <2>2 DEF Of
  <2> QED BY <1>1, <1>10, <2>2, <2>3, ApartKept
<1>24. ASSUME alive, NEW s \in Slots, NEW pc, NEW d \in Nat,
              requests' = [requests EXCEPT ![s].pc = pc, ![s].dealer = d]
       PROVE  /\ OthersWait(s) /\ CallsApart'
              /\ requests'[s].op = requests[s].op /\ requests'[s].table = requests[s].table
              /\ requests'[s].pc = pc /\ requests'[s].todo = requests[s].todo
              /\ requests'[s].dealer = d
  <2>1. requests[s] \in Request
    BY <1>0
  <2>2. /\ OthersWait(s)
        /\ requests'[s].op = requests[s].op /\ requests'[s].table = requests[s].table
        /\ requests'[s].pc = pc /\ requests'[s].todo = requests[s].todo
        /\ requests'[s].dealer = d
    BY <1>24, <2>1 DEF OthersWait, DealerTypes, Request
  <2>3. Of(requests'[s]) = Of(requests[s])
    BY <2>2 DEF Of
  <2> QED BY <1>1, <1>24, <2>2, <2>3, ApartKept
<1>11. ASSUME alive, NEW s \in Slots, OthersWait(s), requests[s].pc # "writing"
       PROVE  /\ UNCHANGED writes => WritersSound'
              /\ Begin(s) /\ requests'[s].pc = "writing" => WritersSound'
              /\ Begin(NoSlot) => WritersSound'
  BY <1>0, <1>1, <1>11, WritersKept DEF OthersWait
<1>12. ASSUME alive, NEW d \in DOMAIN dealers, DealerActs(d)
       PROVE  ManagedInv' /\ SavingInv' /\ Forward
  <2> DEFINE t == dealers[d].table
             e == [dealers[d] EXCEPT !.seq = @ + 1]
  <2>1. /\ dealers[d] \in DealerRec /\ managed[t] = d /\ dealers' = [dealers EXCEPT ![d] = Acted(@)]
        /\ (UNCHANGED writes \/ Begin(NoSlot)) /\ UNCHANGED <<alive, managed, requests, files>>
    BY <1>12, SeqEntries DEF DealerActs, DealerTypes
  <2>2. /\ e \in DealerRec /\ e.table = t /\ e.saves = dealers[d].saves /\ e.up = dealers[d].up
        /\ e.seq = dealers[d].seq + 1 /\ dealers[d].seq \in Int
    <3>1. dealers[d].seq \in Int /\ dealers[d].seq + 1 \in Saved
      BY <1>0 DEF Saved, Absent
    <3> QED BY <2>1, <3>1 DEF DealerRec
  <2>3. Acted(dealers[d]) = Persisted(e)
    BY DEF Acted
  <2> HIDE DEF e
  <2>4. /\ DOMAIN dealers' = DOMAIN dealers /\ dealers'[d] = Persisted(e)
        /\ \A c \in DOMAIN dealers : c # d => dealers'[c] = dealers[c]
    BY <2>1, <2>3
  <2>5. dealers'[d].table = t /\ dealers'[d].up = dealers[d].up /\ dealers'[d].seq = e.seq
    BY <1>8, <2>2, <2>4
  <2>6. managed[t] = d /\ SavesSound(d) /\ d # 0
    BY <1>0, <1>1, <1>12, <2>1
  <2>7. OnlyAt({t}) /\ ManagedInv'
    BY <2>1, <2>4, <2>5, <2>6 DEF OnlyAt, ManagedInv
  <2>8. Forward
    BY <1>0, <2>1 DEF Forward
  <2>9. SavesSound(d)'
    BY <1>9, <2>1, <2>2, <2>4, <2>5, <2>6
  <2>10. ASSUME NEW c \in DOMAIN dealers', dealers'[c].table \in {t} PROVE SavesSound(c)'
    <3>1. CASE c = d
      BY <2>9, <3>1
    <3>2. CASE c # d
      BY <1>1, <1>12, <2>1, <2>4, <2>10, <3>2 DEF SavesSound
    <3> QED BY <3>1, <3>2
  <2>11. ASSUME NEW s \in Slots, Of(requests[s]) \cap {t} # {} PROVE CallSound(requests[s])'
    <3>1. /\ CallSound(requests[s]) /\ requests'[s] = requests[s]
      BY <1>1, <1>12, <2>1
    <3>2. t \notin requests[s].todo /\ requests[s].table = t
      BY <2>6, <2>11, <3>1 DEF CallSound, Of
    <3>3. /\ Unhosted(t) => Unhosted(t)'
          /\ ToStart(t, d) => ToStart(t, d)'
      BY <2>4, <2>5 DEF Unhosted, ToStart
    <3> QED BY <2>1, <2>4, <2>5, <2>6, <3>1, <3>2, <3>3 DEF CallSound, MakerOps
  <2>12. WritersSound'
    BY <1>0, <1>1, <1>12, <2>1, WritersKept
  <2> QED BY <1>12, <2>1, <2>7, <2>8, <2>10, <2>11, <2>12, StillStep
<1>13. ASSUME alive, NEW s \in Slots, NEW op \in {"create", "resume", "stop", "remove"},
              NEW t \in TableIds, Calls(s, op, t)
       PROVE  ManagedInv' /\ SavingInv' /\ Forward
  <2>1. PICK purge \in BOOLEAN :
          requests' = [requests EXCEPT ![s] = [Idle EXCEPT !.op = op, !.table = t, !.pc = "called",
                                                         !.purge = purge]]
    BY <1>13 DEF Calls
  <2>2. /\ requests[s].op = "idle" /\ About(t) = {} /\ Quiet /\ UNCHANGED writes
        /\ op = "create" => files.tables[t] = Absent /\ \A d \in DOMAIN dealers : dealers[d].table # t
    BY <1>13 DEF Calls, Quiet
  <2>3. /\ OthersWait(s) /\ requests'[s].op = op /\ requests'[s].table = t
        /\ requests'[s].pc = "called" /\ requests'[s].todo = {}
    BY <2>1 DEF OthersWait, DealerTypes, Idle
  <2>4. CallsApart'
    <3>1. Of(requests'[s]) = {t} /\ \A r \in Slots : t \notin Of(requests[r])
      BY <2>2, <2>3 DEF Of, About
    <3> QED BY <1>1, <1>13, <2>3, <3>1, ApartKept
  <2>5. CallSound(requests[s])'
    BY <2>2, <2>3 DEF CallSound, MakerOps, Quiet
  <2>6. CallSound(requests[s]) /\ requests[s].pc # "writing"
    BY <1>1, <1>13, <2>2 DEF CallSound
  <2> QED BY <1>11, <1>13, <2>2, <2>3, <2>4, <2>5, <2>6, QuietCall
<1>14. ASSUME alive, NEW s \in Slots, Loads(s) PROVE ManagedInv' /\ SavingInv' /\ Forward
  <2> DEFINE j == requests[s]
             t == j.table
  <2>1. /\ j.op \in {"resume", "resumeAll"} /\ j.pc = "called" /\ Quiet /\ UNCHANGED writes
        /\ Goes(s, IF files.tables[t] = Absent THEN "failed"
                   ELSE IF managed[t] # 0 THEN "done" ELSE "make")
    BY <1>14 DEF Loads, Quiet
  <2>2. CallSound(j) /\ (j.op = "resumeAll" => Unhosted(t))
    BY <1>0, <1>1, <1>2, <1>14, <2>1 DEF CallSound
  <2>3. PICK pc \in {"failed", "done", "make"} :
          /\ requests' = [requests EXCEPT ![s].pc = pc]
          /\ pc = "make" => managed[t] = 0
    BY <2>1 DEF Goes
  <2>4. /\ OthersWait(s) /\ CallsApart' /\ j'.op = j.op /\ j'.table = t
        /\ j'.pc = pc /\ j'.todo = j.todo
    BY <1>10, <1>14, <2>3
  <2>5. CallSound(requests[s])'
    <3>1. CASE pc = "make"
      BY <2>1, <2>2, <2>3, <2>4, <3>1 DEF CallSound, Quiet, MakerOps
    <3>2. CASE pc # "make"
      <4>1. requests'[s] = [requests[s] EXCEPT !.pc = pc]
        BY <1>0, <2>3 DEF DealerTypes
      <4> QED BY <1>0, <2>1, <2>2, <3>2, <4>1, CallOver
    <3> QED BY <3>1, <3>2
  <2> QED BY <1>11, <1>14, <2>1, <2>4, <2>5, QuietCall
<1>15. ASSUME alive, NEW s \in Slots, Makes(s) PROVE ManagedInv' /\ SavingInv' /\ Forward
  <2> DEFINE j   == requests[s]
             t   == j.table
             new == Dealer(t, IF j.op = "create" THEN 0 ELSE files.tables[t])
             n   == Len(dealers) + 1
  <2>1. /\ j.op \in MakerOps /\ j.pc = IF j.op = "create" THEN "called" ELSE "make"
        /\ dealers' = Append(dealers, new)
        /\ requests' = [requests EXCEPT ![s].pc = "writing", ![s].dealer = Len(dealers')]
        /\ Begin(s) /\ UNCHANGED <<alive, managed, files>>
    BY <1>15 DEF Makes, Makers, Registers, MakerOps
  <2>2. /\ t \in TableIds /\ CallSound(j) /\ managed[t] = 0 /\ t \in Of(j)
    <3>1. CallSound(j)
      BY <1>1, <1>15
    <3>2. managed[t] = 0
      BY <1>0, <2>1, <3>1 DEF CallSound, ManagedInv
    <3> QED BY <1>0, <2>1, <3>1, <3>2 DEF Of, MakerOps
  <2>3. /\ new \in DealerRec /\ new.table = t /\ ~new.up /\ new.saves = << >>
        /\ files.tables[t] <= new.seq
    <3>1. files.tables[t] \in Saved /\ 0 \in Saved
      BY <1>0, <2>2 DEF Saved
    <3>2. j.op = "create" => files.tables[t] = Absent
      BY <2>1, <2>2 DEF CallSound
    <3> QED BY <1>0, <2>2, <3>1, <3>2 DEF Dealer, DealerRec, Absent
  <2> HIDE DEF new
  <2>4. /\ Len(dealers') = n /\ n \in DOMAIN dealers' /\ dealers'[n] = new /\ n \in Nat \ {0}
        /\ \A d \in DOMAIN dealers : d \in DOMAIN dealers' /\ dealers'[d] = dealers[d] /\ d # n
        /\ \A d \in DOMAIN dealers' : d \in DOMAIN dealers \/ d = n
    BY <1>0, <2>1, <2>3, AppendFacts
  <2>5. OnlyAt({t}) /\ ManagedInv' /\ Forward
    <3>1. OnlyAt({t})
      BY <2>1, <2>3, <2>4 DEF OnlyAt
    <3>2. ManagedInv'
      BY <2>1, <2>3, <2>4 DEF ManagedInv
    <3> QED BY <1>0, <2>1, <3>1, <3>2 DEF Forward
  <2>6. /\ OthersWait(s) /\ CallsApart' /\ j'.op = j.op /\ j'.table = t
        /\ j'.pc = "writing" /\ j'.todo = j.todo /\ j'.dealer = n
    <3>1. requests' = [requests EXCEPT ![s].pc = "writing", ![s].dealer = n] /\ n \in Nat
      BY <2>1, <2>4
    <3> HIDE DEF n
    <3> QED BY <1>24, <1>15, <3>1
  <2>7. CallSound(requests[s])'
    <3>1. Fresh(j.table, j.dealer)'
      BY <2>1, <2>3, <2>4, <2>6 DEF Fresh, ToStart
    <3> QED BY <2>1, <2>2, <2>6, <3>1 DEF CallSound, MakerOps
  <2>8. ASSUME NEW d \in DOMAIN dealers' PROVE SavesSound(d)'
    <3>1. CASE d = n
      BY <2>1, <2>2, <2>3, <2>4, <3>1 DEF SavesSound
    <3>2. CASE d # n
      BY <1>1, <1>15, <2>1, <2>4, <3>2 DEF SavesSound
    <3> QED BY <3>1, <3>2
  <2>9. WritersSound'
    BY <1>11, <1>15, <2>1, <2>6
  <2> QED BY <1>15, <2>2, <2>5, <2>6, <2>7, <2>8, <2>9, CallStep
<1>16. ASSUME alive, NEW s \in Slots, Attaches(s) PROVE ManagedInv' /\ SavingInv' /\ Forward
  <2> DEFINE j == requests[s]
             t == j.table
             d == j.dealer
  <2>1. /\ j.op \in MakerOps /\ j.pc = "wrote" /\ managed' = [managed EXCEPT ![t] = d]
        /\ requests' = [requests EXCEPT ![s].pc = "start"]
        /\ UNCHANGED <<alive, dealers, writes, files>>
    BY <1>16 DEF Attaches, Makers, Goes, MakerOps
  <2>2. /\ t \in TableIds /\ CallSound(j) /\ managed[t] = 0 /\ t \in Of(j) /\ Fresh(t, d)
    BY <1>0, <1>1, <1>16, <2>1 DEF CallSound, Of, MakerOps
  <2>3. managed'[t] = d /\ \A u \in TableIds : u # t => managed'[u] = managed[u]
    BY <2>1, <2>2 DEF DealerTypes
  <2>4. OnlyAt({t}) /\ ManagedInv' /\ Forward
    <3>1. OnlyAt({t})
      BY <2>1, <2>3 DEF OnlyAt
    <3>2. ManagedInv'
      BY <1>0, <1>2, <2>1, <2>2, <2>3 DEF ManagedInv, Fresh, ToStart, Unhosted
    <3> QED BY <1>0, <2>1, <3>1, <3>2 DEF Forward
  <2>5. /\ OthersWait(s) /\ CallsApart' /\ j'.op = j.op /\ j'.table = t
        /\ j'.pc = "start" /\ j'.todo = j.todo /\ j'.dealer = d
    BY <1>10, <1>16, <2>1, Zenon
  <2>6. CallSound(requests[s])'
    <3>1. ToStart(j.table, j.dealer)'
      BY <2>1, <2>2, <2>5 DEF Fresh, ToStart
    <3>2. t \notin j.todo
      BY <2>1, <2>2 DEF CallSound
    <3> QED BY <1>0, <2>1, <2>2, <2>3, <2>5, <3>1, <3>2 DEF CallSound, MakerOps
  <2>7. ASSUME NEW e \in DOMAIN dealers', dealers'[e].table \in {t} PROVE SavesSound(e)'
    BY <1>0, <1>1, <1>2, <1>16, <2>1, <2>2, <2>3, <2>7 DEF SavesSound, Fresh, ToStart, Unhosted
  <2>8. WritersSound'
    BY <1>11, <1>16, <2>1, <2>5
  <2> QED BY <1>16, <2>2, <2>4, <2>5, <2>6, <2>7, <2>8, CallStep
<1>17. ASSUME alive, NEW s \in Slots, Starts(s) PROVE ManagedInv' /\ SavingInv' /\ Forward
  <2> DEFINE j == requests[s]
             t == j.table
  <2>0. PICK d \in Nat : d = j.dealer
    BY <1>0
  <2>1. /\ j.pc = "start" /\ UNCHANGED <<alive, managed, writes, files>>
        /\ \/ /\ dealers' = [dealers EXCEPT ![d] = Persisted([@ EXCEPT !.up = TRUE])]
              /\ requests' = [requests EXCEPT ![s].pc = "done"]
           \/ requests' = [requests EXCEPT ![s].pc = "failed"] /\ UNCHANGED dealers
    BY <1>17, <2>0 DEF Starts, Goes
  <2>2. /\ t \in TableIds /\ CallSound(j) /\ j.op \in MakerOps /\ managed[t] = d /\ t \in Of(j)
        /\ ToStart(t, d) /\ d # 0
    BY <1>0, <1>1, <1>17, <2>0, <2>1 DEF CallSound, Of, MakerOps, ToStart
  <2>3. CASE /\ dealers' = [dealers EXCEPT ![d] = Persisted([@ EXCEPT !.up = TRUE])]
             /\ requests' = [requests EXCEPT ![s].pc = "done"]
    <3> DEFINE e == [dealers[d] EXCEPT !.up = TRUE]
    <3>1. /\ e \in DealerRec /\ e.table = t /\ e.saves = dealers[d].saves /\ e.up
          /\ e.seq = dealers[d].seq /\ d \in DOMAIN dealers /\ dealers[d].seq \in Int
      <4>1. dealers[d] \in DealerRec /\ dealers[d].table = t
            /\ d \in DOMAIN dealers /\ dealers[d].seq \in Int
        BY <1>0, <2>2, SeqEntries DEF ToStart
      <4> QED BY <4>1 DEF DealerRec
    <3>2. /\ DOMAIN dealers' = DOMAIN dealers /\ dealers'[d] = Persisted(e)
          /\ \A c \in DOMAIN dealers : c # d => dealers'[c] = dealers[c]
      BY <2>3, <3>1
    <3> HIDE DEF e
    <3>3. dealers'[d].table = t /\ dealers'[d].up /\ dealers'[d].seq = e.seq
      BY <1>8, <3>1, <3>2
    <3>4. OnlyAt({t}) /\ ManagedInv' /\ Forward
      <4>1. OnlyAt({t})
        BY <2>1, <2>2, <3>1, <3>2, <3>3 DEF OnlyAt, ToStart
      <4>2. ManagedInv'
        BY <2>1, <2>2, <3>1, <3>2, <3>3 DEF ManagedInv, ToStart
      <4> QED BY <1>0, <2>1, <4>1, <4>2 DEF Forward
    <3>5. SavesSound(d)'
      <4>1. SavesSound(d) /\ dealers[d].table = t
        BY <1>1, <1>17, <2>2 DEF ToStart
      <4>2. dealers[d].seq <= e.seq
        BY <3>1
      <4> QED BY <1>9, <2>1, <2>2, <3>1, <3>2, <3>3, <4>1, <4>2
    <3>6. ASSUME NEW c \in DOMAIN dealers', dealers'[c].table \in {t} PROVE SavesSound(c)'
      <4>1. CASE c = d
        BY <3>5, <4>1
      <4>2. CASE c # d
        BY <1>1, <1>17, <2>1, <3>2, <4>2 DEF SavesSound
      <4> QED BY <4>1, <4>2
    <3>7. /\ OthersWait(s) /\ CallsApart' /\ j'.op = j.op /\ j'.table = t
          /\ j'.pc = "done" /\ j'.todo = j.todo
      BY <1>10, <1>17, <2>3, Zenon
    <3>8. CallSound(requests[s])'
      BY <2>1, <2>2, <3>7 DEF CallSound, MakerOps
    <3>9. WritersSound'
      BY <1>11, <1>17, <2>1, <3>7
    <3> QED BY <1>17, <2>2, <3>4, <3>6, <3>7, <3>8, <3>9, CallStep
  <2>4. CASE requests' = [requests EXCEPT ![s].pc = "failed"] /\ UNCHANGED dealers
    <3>1. Quiet /\ Unhosted(t)
      BY <1>0, <2>1, <2>2, <2>4 DEF Quiet, Unhosted, ManagedInv, ToStart
    <3>2. OthersWait(s) /\ CallsApart'
      BY <1>10, <1>17, <2>4, Zenon
    <3>3. requests'[s] = [requests[s] EXCEPT !.pc = "failed"]
      BY <1>0, <2>4 DEF DealerTypes
    <3>4. CallSound(requests[s])'
      BY <1>0, <2>1, <2>2, <3>1, <3>3, CallOver DEF MakerOps
    <3> QED BY <1>11, <1>17, <2>1, <3>1, <3>2, <3>4, QuietCall
  <2> QED BY <2>1, <2>3, <2>4
<1>18. ASSUME alive, NEW s \in Slots, Stops(s) PROVE ManagedInv' /\ SavingInv' /\ Forward
  <2> DEFINE j == requests[s]
             t == j.table
  <2>0. PICK d \in Nat : d = managed[t]
    BY <1>0
  <2>1. /\ j.op = "stop" /\ j.pc = "called" /\ UNCHANGED <<alive, managed, writes, files>>
        /\ IF d = 0 THEN requests' = [requests EXCEPT ![s].pc = "failed"] /\ UNCHANGED dealers
           ELSE /\ dealers' = [dealers EXCEPT ![d] = Shut(d)]
                /\ requests' = [requests EXCEPT ![s].pc = "saving", ![s].dealer = d]
    BY <1>18, <2>0 DEF Stops, Goes
  <2>2. /\ t \in TableIds /\ CallSound(j) /\ t \in Of(j) /\ d \in Nat /\ managed[t] = d
    BY <1>0, <1>1, <1>18, <2>0, <2>1 DEF Of
  <2>3. CASE d = 0
    <3>1. Quiet /\ requests' = [requests EXCEPT ![s].pc = "failed"]
      BY <2>1, <2>3 DEF Quiet
    <3>2. OthersWait(s) /\ CallsApart'
      BY <1>10, <1>18, <3>1, Zenon
    <3>3. requests'[s] = [requests[s] EXCEPT !.pc = "failed"]
      BY <1>0, <3>1 DEF DealerTypes
    <3>4. CallSound(requests[s])'
      BY <1>0, <2>1, <2>2, <3>1, <3>3, CallOver
    <3> QED BY <1>11, <1>18, <2>1, <3>1, <3>2, <3>4, QuietCall
  <2>4. CASE d # 0
    <3>1. d \in DOMAIN dealers /\ dealers[d].table = t /\ dealers[d] \in DealerRec
      BY <2>2, <2>4, SeqEntries DEF ManagedInv, DealerTypes
    <3>2. /\ DOMAIN dealers' = DOMAIN dealers /\ dealers'[d] = Shut(d)
          /\ \A c \in DOMAIN dealers : c # d => dealers'[c] = dealers[c]
      BY <2>1, <2>4, <3>1
    <3>3. /\ dealers'[d].table = t /\ ~dealers'[d].up /\ dealers'[d].seq = dealers[d].seq
          /\ dealers'[d].saves = Persisted(dealers[d]).saves
      <4>1. Persisted(dealers[d]).table = t /\ Persisted(dealers[d]).seq = dealers[d].seq
        BY <1>8, <3>1
      <4>2. Shut(d).table = t /\ Shut(d).seq = dealers[d].seq /\ Shut(d).up = FALSE
            /\ Shut(d).saves = Persisted(dealers[d]).saves
        BY <3>1, <4>1 DEF Shut, Persisted, DealerRec
      <4> QED BY <3>2, <4>2
    <3>4. OnlyAt({t}) /\ ManagedInv' /\ Forward
      <4>1. OnlyAt({t})
        BY <2>1, <3>1, <3>2, <3>3 DEF OnlyAt
      <4>2. ManagedInv'
        BY <2>1, <3>1, <3>2, <3>3 DEF ManagedInv
      <4> QED BY <1>0, <2>1, <4>1, <4>2 DEF Forward
    <3>5. SavesSound(d)'
      <4>1. SavesSound(d) /\ dealers[d].seq <= dealers[d].seq
        BY <1>0, <1>1, <1>18, <3>1
      <4> QED BY <1>9, <2>1, <2>2, <3>1, <3>2, <3>3, <4>1
    <3>6. ASSUME NEW c \in DOMAIN dealers', dealers'[c].table \in {t} PROVE SavesSound(c)'
      <4>1. CASE c = d
        BY <3>5, <4>1
      <4>2. CASE c # d
        BY <1>1, <1>18, <2>1, <3>2, <4>2 DEF SavesSound
      <4> QED BY <4>1, <4>2
    <3>7. /\ OthersWait(s) /\ CallsApart' /\ j'.op = j.op /\ j'.table = t
          /\ j'.pc = "saving" /\ j'.todo = j.todo /\ j'.dealer = d
      <4>1. requests' = [requests EXCEPT ![s].pc = "saving", ![s].dealer = d]
        BY <2>1, <2>4
      <4>2. d \in Nat
        OBVIOUS
      <4> QED BY <1>24, <1>18, <4>1, <4>2
    <3>8. CallSound(requests[s])'
      BY <2>1, <2>2, <3>1, <3>2, <3>3, <3>7 DEF CallSound, MakerOps
    <3>9. WritersSound'
      BY <1>11, <1>18, <2>1, <3>7
    <3> QED BY <1>18, <2>2, <3>4, <3>6, <3>7, <3>8, <3>9, CallStep
  <2> QED BY <2>3, <2>4
<1>19. ASSUME alive, NEW s \in Slots, Stopped(s) PROVE ManagedInv' /\ SavingInv' /\ Forward
  <2> DEFINE j == requests[s]
             t == j.table
  <2>0. PICK d \in Nat : d = j.dealer
    BY <1>0
  <2>1. /\ j.op = "stop" /\ j.pc = "saving" /\ dealers[d].saves = << >>
        /\ managed' = [managed EXCEPT ![t] = 0] /\ requests' = [requests EXCEPT ![s].pc = "writing"]
        /\ Begin(s) /\ UNCHANGED <<alive, dealers, files>>
    BY <1>19, <2>0 DEF Stopped, Goes, IsSaved
  <2>2. /\ t \in TableIds /\ CallSound(j) /\ managed[t] = d /\ t \in Of(j)
        /\ d \in DOMAIN dealers /\ ~dealers[d].up
    BY <1>0, <1>1, <1>19, <2>0, <2>1 DEF CallSound, Of
  <2>3. managed'[t] = 0 /\ \A u \in TableIds : u # t => managed'[u] = managed[u]
    BY <2>1, <2>2 DEF DealerTypes
  <2>4. \A e \in DOMAIN dealers : dealers[e].table = t => ~dealers[e].up
    BY <2>2 DEF ManagedInv
  <2>5. OnlyAt({t}) /\ ManagedInv' /\ Forward
    <3>1. OnlyAt({t})
      BY <2>1, <2>3 DEF OnlyAt
    <3>2. ManagedInv'
      BY <1>0, <2>1, <2>3, <2>4 DEF ManagedInv
    <3> QED BY <1>0, <2>1, <3>1, <3>2 DEF Forward
  <2>6. ASSUME NEW e \in DOMAIN dealers', dealers'[e].table \in {t} PROVE SavesSound(e)'
    <3>1. /\ SavesSound(e) /\ dealers[e].table = t /\ e # 0 /\ ~dealers[e].up
      BY <1>0, <1>1, <1>19, <2>1, <2>4, <2>6
    <3>2. dealers[e].saves = << >>
      BY <2>1, <2>2, <3>1 DEF SavesSound
    <3> QED BY <2>1, <2>3, <3>1, <3>2 DEF SavesSound
  <2>7. /\ OthersWait(s) /\ CallsApart' /\ j'.op = j.op /\ j'.table = t
        /\ j'.pc = "writing" /\ j'.todo = j.todo
    BY <1>10, <1>19, <2>1, Zenon
  <2>8. CallSound(requests[s])'
    BY <2>1, <2>2, <2>7 DEF CallSound, MakerOps
  <2>9. WritersSound'
    BY <1>11, <1>19, <2>1, <2>7
  <2> QED BY <1>19, <2>2, <2>5, <2>6, <2>7, <2>8, <2>9, CallStep
<1>20. ASSUME alive, NEW s \in Slots, Removes(s) PROVE ManagedInv' /\ SavingInv' /\ Forward
  <2> DEFINE j == requests[s]
             t == j.table
  <2>1. /\ j.op = "remove" /\ j.pc = "called" /\ Quiet
        /\ \/ requests' = [requests EXCEPT ![s].pc = "failed"] /\ UNCHANGED writes
           \/ managed[t] = 0 /\ requests' = [requests EXCEPT ![s].pc = "writing"] /\ Begin(s)
    BY <1>20 DEF Removes, Goes, Quiet
  <2>2. CallSound(j)
    BY <1>1, <1>20
  <2>3. CASE requests' = [requests EXCEPT ![s].pc = "failed"] /\ UNCHANGED writes
    <3>1. OthersWait(s) /\ CallsApart'
      BY <1>10, <1>20, <2>3, Zenon
    <3>2. requests'[s] = [requests[s] EXCEPT !.pc = "failed"]
      BY <1>0, <2>3 DEF DealerTypes
    <3>3. CallSound(requests[s])'
      BY <1>0, <2>1, <2>2, <3>2, CallOver
    <3> QED BY <1>11, <1>20, <2>1, <2>3, <3>1, <3>3, QuietCall
  <2>4. CASE managed[t] = 0 /\ requests' = [requests EXCEPT ![s].pc = "writing"] /\ Begin(s)
    <3>1. /\ OthersWait(s) /\ CallsApart' /\ j'.op = j.op /\ j'.table = t
          /\ j'.pc = "writing" /\ j'.todo = j.todo
      BY <1>10, <1>20, <2>4, Zenon
    <3>2. CallSound(requests[s])'
      BY <2>1, <2>2, <2>4, <3>1 DEF CallSound, MakerOps, Quiet
    <3> QED BY <1>11, <1>20, <2>1, <2>4, <3>1, <3>2, QuietCall
  <2> QED BY <2>1, <2>3, <2>4
<1>21. ASSUME alive, NEW s \in Slots, Purges(s) PROVE ManagedInv' /\ SavingInv' /\ Forward
  <2> DEFINE j == requests[s]
             t == j.table
  <2>1. /\ j.op = "remove" /\ j.pc = "wrote" /\ requests' = [requests EXCEPT ![s].pc = "done"]
        /\ UNCHANGED <<alive, dealers, managed, writes>>
        /\ \/ files' = [files EXCEPT !.tables[t] = Absent]
           \/ UNCHANGED files
    BY <1>21 DEF Purges, Goes
  <2>2. /\ t \in TableIds /\ CallSound(j) /\ managed[t] = 0 /\ t \in Of(j) /\ Unhosted(t)
    BY <1>0, <1>1, <1>2, <1>21, <2>1 DEF CallSound, Of
  <2>3. /\ \A u \in TableIds : u # t => files'.tables[u] = files.tables[u]
        /\ files'.tables[t] \in {Absent, files.tables[t]}
    BY <2>1, <2>2 DEF DealerTypes, Files
  <2>4. OnlyAt({t}) /\ ManagedInv' /\ Forward
    <3>1. OnlyAt({t})
      BY <2>1, <2>3 DEF OnlyAt
    <3>2. ManagedInv'
      BY <2>1 DEF ManagedInv
    <3> QED BY <1>0, <2>3, <3>1, <3>2 DEF Forward
  <2>5. ASSUME NEW e \in DOMAIN dealers', dealers'[e].table \in {t} PROVE SavesSound(e)'
    <3>1. /\ SavesSound(e) /\ dealers[e].table = t /\ e # 0 /\ ~dealers[e].up /\ managed[t] # e
      BY <1>0, <1>1, <1>21, <2>1, <2>2, <2>5 DEF Unhosted
    <3> QED BY <2>1, <2>2, <3>1 DEF SavesSound
  <2>6. /\ OthersWait(s) /\ CallsApart' /\ j'.op = j.op /\ j'.table = t
        /\ j'.pc = "done" /\ j'.todo = j.todo
    BY <1>10, <1>21, <2>1, Zenon
  <2>7. CallSound(requests[s])'
    BY <2>1, <2>2, <2>6 DEF CallSound, MakerOps
  <2>8. WritersSound'
    BY <1>11, <1>21, <2>1, <2>6
  <2> QED BY <1>21, <2>2, <2>4, <2>5, <2>6, <2>7, <2>8, CallStep
<1>22. ASSUME alive, NEW s \in Slots, Returns(s) PROVE ManagedInv' /\ SavingInv' /\ Forward
  <2>1. /\ requests[s].pc \in {"done", "failed", "wrote"} /\ Quiet /\ UNCHANGED writes
        /\ requests' = [requests EXCEPT ![s] = Idle]
    BY <1>22 DEF Returns, Quiet
  <2>2. OthersWait(s) /\ requests'[s] = Idle
    BY <2>1 DEF OthersWait, DealerTypes
  <2>3. CallsApart'
    BY <1>1, <1>22, <2>2, ApartKept DEF Of, Idle
  <2>4. CallSound(requests[s])'
    BY <2>2 DEF CallSound, Idle, MakerOps
  <2> QED BY <1>11, <1>22, <2>1, <2>2, <2>3, <2>4, QuietCall
<1>23. ASSUME alive, NEW s \in Slots, ResumesNext(s) PROVE ManagedInv' /\ SavingInv' /\ Forward
  <2> DEFINE j == requests[s]
  <2>1. /\ j.op = "resumeAll" /\ j.pc \in {"done", "failed"} /\ Quiet
        /\ \/ \E t \in j.todo : requests' = [requests EXCEPT ![s] = OnTo(@, t)] /\ UNCHANGED writes
           \/ requests' = [requests EXCEPT ![s] = Idle] /\ Begin(NoSlot)
    BY <1>23 DEF ResumesNext, Quiet
  <2>2. j \in Request /\ CallSound(j)
    BY <1>0, <1>1, <1>23
  <2>3. CASE \E t \in j.todo : requests' = [requests EXCEPT ![s] = OnTo(@, t)] /\ UNCHANGED writes
    <3>1. PICK t \in j.todo : requests' = [requests EXCEPT ![s] = OnTo(@, t)]
      BY <2>3
    <3>2. OthersWait(s) /\ requests'[s] = OnTo(j, t)
      BY <3>1 DEF OthersWait, DealerTypes
    <3>3. /\ j'.op = j.op /\ j'.table = t /\ j'.pc = "called" /\ j'.todo = j.todo \ {t}
      BY <2>2, <3>2 DEF OnTo, Request
    <3>4. CallsApart'
      <4>1. Of(j') \subseteq Of(j)
        BY <2>1, <3>1, <3>3 DEF Of
      <4> QED BY <1>1, <1>23, <3>2, <4>1, ApartKept
    <3>5. CallSound(requests[s])'
      BY <2>1, <2>2, <3>1, <3>3 DEF CallSound, MakerOps, Quiet
    <3> QED BY <1>11, <1>23, <2>1, <2>3, <3>2, <3>4, <3>5, QuietCall
  <2>4. CASE requests' = [requests EXCEPT ![s] = Idle] /\ Begin(NoSlot)
    <3>1. OthersWait(s) /\ requests'[s] = Idle
      BY <2>4 DEF OthersWait, DealerTypes
    <3>2. CallsApart'
      BY <1>1, <1>23, <3>1, ApartKept DEF Of, Idle
    <3>3. CallSound(requests[s])'
      BY <3>1 DEF CallSound, Idle, MakerOps
    <3> QED BY <1>11, <1>23, <2>1, <2>4, <3>1, <3>2, <3>3, QuietCall
  <2> QED BY <2>1, <2>3, <2>4
<1>25. CASE Dies
  <2>1. ~alive' /\ UNCHANGED <<dealers, managed, files>>
    BY <1>25 DEF Dies
  <2> QED BY <1>0, <2>1 DEF ManagedInv, SavingInv, Forward
<1>26. CASE Closes
  <2>1. alive /\ ~alive' /\ UNCHANGED <<dealers, managed>>
    BY <1>26 DEF Closes
  <2>2. \A t \in TableIds :
           files'.tables[t] = IF managed[t] = 0 THEN files.tables[t] ELSE dealers[managed[t]].seq
    BY <1>26 DEF Closes, DealerTypes, Files
  <2>3. \A t \in TableIds : managed[t] # 0 => files.tables[t] <= dealers[managed[t]].seq
    BY <1>1, <2>1 DEF ManagedInv, SavesSound
  <2>4. \A t \in TableIds : ~(files'.tables[t] < files.tables[t])
    <3> SUFFICES ASSUME NEW t \in TableIds PROVE ~(files'.tables[t] < files.tables[t])
      OBVIOUS
    <3>1. files.tables[t] \in Int /\ (managed[t] # 0 => dealers[managed[t]].seq \in Int)
      BY <1>0 DEF ManagedInv
    <3> QED BY <2>2, <2>3, <3>1
  <2> QED BY <2>1, <2>4 DEF ManagedInv, SavingInv, Forward
<1>27. ASSUME NEW s \in Slots, Opens(s) PROVE ManagedInv' /\ SavingInv' /\ Forward
  <2> DEFINE all == {t \in TableIds : Found(t) = "running"}
  <2>1. /\ dealers' = << >> /\ writes' = << >> /\ managed' = [t \in TableIds |-> 0]
        /\ requests' = [r \in Slots |-> IF r # s \/ all = {} THEN Idle
                                     ELSE [Idle EXCEPT !.op = "resumeAll", !.todo = all]]
        /\ UNCHANGED files
    BY <1>27 DEF Opens
  <2>2. all \subseteq TableIds
    OBVIOUS
  <2> HIDE DEF all
  <2>3. ManagedInv' /\ Forward
    BY <1>0, <2>1 DEF ManagedInv, Forward
  <2>4. \A r \in Slots : r # s => requests'[r] = Idle
    BY <2>1
  <2>5. /\ requests'[s].op \in {"idle", "resumeAll"} /\ requests'[s].pc = "done"
        /\ requests'[s].todo \subseteq TableIds
        /\ requests'[s].op = "idle" => requests'[s].todo = {}
    BY <2>1, <2>2 DEF Idle
  <2>6. /\ Idle.op = "idle" /\ Idle.pc = "done" /\ Idle.todo = {}
    BY DEF Idle
  <2>7. CallsApart'
    <3>1. Of(Idle) = {}
      BY <2>6 DEF Of
    <3> QED BY <2>4, <3>1 DEF CallsApart
  <2>8. ASSUME NEW r \in Slots PROVE CallSound(requests[r])'
    BY <2>1, <2>4, <2>5, <2>6 DEF CallSound, MakerOps
  <2>9. WritersSound' /\ \A d \in DOMAIN dealers' : SavesSound(d)'
    BY <2>1 DEF WritersSound
  <2> QED BY <2>3, <2>7, <2>8, <2>9 DEF SavingInv
<1> QED BY <1>3, <1>5, <1>6, <1>7, <1>12, <1>13, <1>14, <1>15, <1>16, <1>17, <1>18, <1>19, <1>20,
           <1>21, <1>22, <1>23, <1>25, <1>26, <1>27
        DEF DealerNext
-----------------------------------------------------------------------------
(* tables.json. *)

LEMMA RegistryStill ==
    ASSUME RegistryInv, alive, serve'.overlap = serve.overlap, UNCHANGED writes,
           files'.json = files.json, files'.tmp = files.tmp,
           \A t \in TableIds : Runs(t)' => Runs(t) /\ entries'[t] = entries[t],
           \A s \in Slots : requests'[s].pc = "writing" =>
              /\ requests[s].pc = "writing" /\ requests'[s].op = requests[s].op
              /\ requests'[s].table = requests[s].table
              /\ requests[s].op \in MakerOps =>
                    entries'[requests[s].table] = entries[requests[s].table]
    PROVE  RegistryInv'
<1>1. \A t : Writes(t)' = Writes(t) /\ Listed(t)' = Listed(t)
  BY DEF Writes, Listed
<1>2. \A s \in Slots : requests'[s].op \in MakerOps /\ requests'[s].pc = "writing" =>
          /\ entries'[requests'[s].table] = "running"
          /\ \A i \in DOMAIN writes' : writes'[i].pc # "open" =>
                writes'[i].content[requests'[s].table] = "running"
  BY DEF RegistryInv, Writes
<1>3. \A t \in TableIds : Runs(t)' => entries'[t] = "running" /\ Writes(t)' /\ Listed(t)'
  BY <1>1 DEF RegistryInv
<1>4. /\ ~serve'.overlap
      /\ \A i, j \in DOMAIN writes' : i = j
      /\ \A i \in DOMAIN writes' :
            /\ writes'[i].to = "tmp"
            /\ writes'[i].pc # "open" => writes'[i].content \in Registry
            /\ writes'[i].pc = "rename" => files'.tmp = writes'[i].content
      /\ \A s \in Slots : requests'[s].pc = "writing" => \E i \in DOMAIN writes' : writes'[i].by = s
  BY DEF RegistryInv
<1> QED BY <1>2, <1>3, <1>4 DEF RegistryInv, Writes

LEMMA RegistryBegins ==
    ASSUME RegistryInv, DealerTypes, alive, serve'.overlap = serve.overlap, MayWrite,
           NEW s \in Slots \cup {NoSlot}, Begin(s), files'.json = files.json,
           \A t \in TableIds : Runs(t)' => Runs(t) /\ entries'[t] = entries[t],
           \A r \in Slots : requests'[r].pc = "writing" =>
              r = s /\ (requests'[r].op \in MakerOps => entries'[requests'[r].table] = "running")
    PROVE  RegistryInv'
<1>1. writes = << >> /\ ~serve'.overlap
  BY DEF RegistryInv, MayWrite
<1> DEFINE w == Writer(s)
<1>2. /\ w \in Write /\ w.by = s /\ w.pc = "open" /\ w.to = "tmp"
  BY DEF Writer, Write
<1>3. writes' = Append(writes, w)
  BY DEF Begin
<1> HIDE DEF w
<1>4. DOMAIN writes' = {1} /\ writes'[1] = w
  BY <1>1, <1>2, <1>3
<1>5. \A t \in TableIds : Runs(t)' => entries'[t] = "running" /\ Listed(t)'
  BY DEF RegistryInv, Listed
<1> QED BY <1>1, <1>2, <1>4, <1>5 DEF RegistryInv, Writes

(* A step of one call that starts nothing.                                  *)
LEMMA RunsNoMore ==
    ASSUME NEW s \in Slots, OthersWait(s),
           requests'[s].op \in MakerOps /\ requests'[s].pc \in {"wrote", "start"} =>
              Runs(requests'[s].table),
           \A d \in DOMAIN dealers' : dealers'[d].up => Runs(dealers'[d].table)
    PROVE  \A t \in TableIds : Runs(t)' => Runs(t)
<1> SUFFICES ASSUME NEW t \in TableIds, Runs(t)' PROVE Runs(t)
  OBVIOUS
<1>1. CASE \E d \in DOMAIN dealers' : dealers'[d].table = t /\ dealers'[d].up
  BY <1>1
<1>2. CASE \E r \in Slots : /\ requests'[r].table = t /\ requests'[r].op \in MakerOps
                           /\ requests'[r].pc \in {"wrote", "start"}
  <2>1. PICK r \in Slots : /\ requests'[r].table = t /\ requests'[r].op \in MakerOps
                           /\ requests'[r].pc \in {"wrote", "start"}
    BY <1>2
  <2>2. CASE r = s
    BY <2>1, <2>2
  <2>3. CASE r # s
    BY <2>1, <2>3 DEF OthersWait, Runs
  <2> QED BY <2>2, <2>3
<1> QED BY <1>1, <1>2 DEF Runs

(* What no call and nobody else runs.                                       *)
LEMMA NotRunning ==
    ASSUME CallsApart, NEW s \in Slots, requests[s].op # "idle", Unhosted(requests[s].table),
           requests[s].op \in MakerOps => requests[s].pc \notin {"wrote", "start"}
    PROVE  /\ ~Runs(requests[s].table)
           /\ \A r \in Slots : r # s /\ requests[r].op \in MakerOps =>
                 requests[r].table # requests[s].table
<1>1. \A r \in Slots : r # s /\ requests[r].op \in MakerOps =>
         requests[r].table # requests[s].table
  BY DEF CallsApart, Of, MakerOps
<1> QED BY <1>1 DEF Runs, Unhosted
(* The steps of one call, one that begins no write and one that does: the entries
   that change are of tables that do not run.                               *)
Settled(s, t) == ~Runs(t) /\ \A r \in Slots : r # s /\ requests[r].op \in MakerOps => requests[r].table # t

LEMMA OneCall ==
    ASSUME RegistryInv, DealerTypes, alive, serve'.overlap = serve.overlap, UNCHANGED writes,
           files'.json = files.json, files'.tmp = files.tmp, NEW s \in Slots, OthersWait(s),
           requests'[s].pc # "writing",
           requests'[s].op \in MakerOps /\ requests'[s].pc \in {"wrote", "start"} =>
              Runs(requests'[s].table),
           \A d \in DOMAIN dealers' : dealers'[d].up => Runs(dealers'[d].table),
           \A t \in TableIds : entries'[t] = entries[t] \/ Settled(s, t)
    PROVE  RegistryInv'
<1>1. \A t \in TableIds : Runs(t)' => Runs(t)
  BY RunsNoMore
<1>2. \A t \in TableIds : Runs(t)' => Runs(t) /\ entries'[t] = entries[t]
  BY <1>1 DEF Settled
<1>3. \A r \in Slots : requests[r].table \in TableIds
  BY DEF DealerTypes, Request
<1>4. ASSUME NEW r \in Slots, requests'[r].pc = "writing"
      PROVE  /\ requests[r].pc = "writing" /\ requests'[r].op = requests[r].op
             /\ requests'[r].table = requests[r].table
             /\ requests[r].op \in MakerOps =>
                   entries'[requests[r].table] = entries[requests[r].table]
  <2>1. r # s /\ requests'[r] = requests[r]
    BY <1>4 DEF OthersWait
  <2> QED BY <1>3, <1>4, <2>1 DEF Settled
<1> QED BY <1>2, <1>4, RegistryStill

LEMMA OneCallBegins ==
    ASSUME RegistryInv, DealerTypes, alive, serve'.overlap = serve.overlap, MayWrite,
           NEW by \in Slots \cup {NoSlot}, Begin(by), files'.json = files.json,
           NEW s \in Slots, OthersWait(s),
           requests'[s].pc = "writing" =>
              by = s /\ (requests'[s].op \in MakerOps => entries'[requests'[s].table] = "running"),
           requests'[s].op \in MakerOps => requests'[s].pc \notin {"wrote", "start"},
           \A d \in DOMAIN dealers' : dealers'[d].up => Runs(dealers'[d].table),
           \A t \in TableIds : entries'[t] = entries[t] \/ Settled(s, t)
    PROVE  RegistryInv'
<1>1. \A t \in TableIds : Runs(t)' => Runs(t)
  BY RunsNoMore
<1>2. \A t \in TableIds : Runs(t)' => Runs(t) /\ entries'[t] = entries[t]
  BY <1>1 DEF Settled
<1>3. writes = << >>
  BY DEF RegistryInv, MayWrite
<1>4. \A r \in Slots : requests[r].pc # "writing"
  BY <1>3 DEF RegistryInv
<1>5. \A r \in Slots : requests'[r].pc = "writing" =>
         r = by /\ (requests'[r].op \in MakerOps => entries'[requests'[r].table] = "running")
  BY <1>4 DEF OthersWait
<1> QED BY <1>2, <1>5, RegistryBegins

(* A call that goes on: what it is about stays.                             *)
LEMMA GoesOn ==
    ASSUME DealerTypes, NEW s \in Slots, NEW pc,
           \/ requests' = [requests EXCEPT ![s].pc = pc]
           \/ \E d : requests' = [requests EXCEPT ![s].pc = pc, ![s].dealer = d]
    PROVE  /\ OthersWait(s) /\ requests'[s].op = requests[s].op
           /\ requests'[s].table = requests[s].table /\ requests'[s].pc = pc
<1>1. requests \in [Slots -> Request] /\ requests[s] \in Request
  BY DEF DealerTypes
<1> QED BY <1>1 DEF OthersWait, Request

LEMMA RegistryKept ==
    ASSUME DealerTypes, DealerTypes', ManagedInv, SavingInv, SavingInv', RegistryInv,
           [DealerNext]_dealerVars
    PROVE  RegistryInv'
<1>0. /\ dealers \in Seq(DealerRec) /\ Len(dealers) \in Nat /\ DOMAIN dealers = 1 .. Len(dealers)
      /\ 0 \notin DOMAIN dealers /\ TableIds # {} /\ NoSlot \notin Slots /\ writes \in Seq(Write)
      /\ \A d \in DOMAIN dealers : dealers[d] \in DealerRec /\ dealers[d].table \in TableIds
      /\ \A s \in Slots : /\ requests[s] \in Request /\ requests[s].table \in TableIds
                          /\ requests[s].todo \subseteq TableIds
      /\ entries \in Registry
  BY DealerEntries, DealerAssumption, SeqEntries DEF DealerTypes, Request
<1>1. alive => /\ CallsApart /\ \A s \in Slots : CallSound(requests[s])
               /\ WritersSound
  BY DEF SavingInv
<1>2. \A u \in TableIds : managed[u] = 0 => Unhosted(u)
  BY <1>0 DEF ManagedInv, Unhosted
<1>3. \A d \in DOMAIN dealers : dealers[d].up => Runs(dealers[d].table)
  BY DEF Runs
<1>4. ~serve.overlap
  BY DEF RegistryInv
<1>5. /\ Spends("calls") \/ Spends("actions") \/ Spends("refusals") \/ Spends("deaths")
         => serve'.overlap = serve.overlap
  BY Spent DEF DealerTypes
<1>6. CASE UNCHANGED dealerVars
  BY <1>6 DEF dealerVars, RegistryInv, Runs, Writes, Listed
(* A write, while the calls and the tables stay where they are.             *)
<1>7. ASSUME alive, NEW i \in DOMAIN writes, NEW w, writes' = [writes EXCEPT ![i] = w],
             UNCHANGED <<serve, alive, entries, dealers, requests>>, files'.json = files.json,
             w.by = writes[i].by, w.to = "tmp", w.pc = "write" \/ w.pc = "rename",
             w.content \in Registry, w.pc = "rename" => files'.tmp = w.content,
             w.content = entries \/ (writes[i].pc # "open" /\ w.content = writes[i].content)
      PROVE  RegistryInv'
  <2>1. DOMAIN writes = {i} /\ DOMAIN writes' = {i} /\ writes'[i] = w
    BY <1>7 DEF RegistryInv
  <2>2. \A t \in TableIds : entries[t] = "running" /\ Writes(t) => w.content[t] = "running"
    BY <1>7 DEF Writes
  <2>3. \A t : Runs(t)' => Runs(t)
    BY <1>7 DEF Runs
  <2>4. \A t \in TableIds : Runs(t)' => entries'[t] = "running" /\ Writes(t)' /\ Listed(t)'
    <3> SUFFICES ASSUME NEW t \in TableIds, Runs(t)'
                 PROVE  entries'[t] = "running" /\ Writes(t)' /\ Listed(t)'
      OBVIOUS
    <3>1. entries[t] = "running" /\ Writes(t) /\ Listed(t)
      BY <1>7, <2>3 DEF RegistryInv
    <3> QED BY <1>7, <2>1, <2>2, <3>1 DEF Writes, Listed
  <2>5. \A s \in Slots : requests'[s].op \in MakerOps /\ requests'[s].pc = "writing" =>
           entries'[requests'[s].table] = "running" /\ w.content[requests'[s].table] = "running"
    BY <1>0, <1>7, <2>2 DEF RegistryInv
  <2>6. \A s \in Slots : requests'[s].pc = "writing" => w.by = s
    BY <1>7, <2>1 DEF RegistryInv
  <2> QED BY <1>4, <1>7, <2>1, <2>4, <2>5, <2>6 DEF RegistryInv, Writes
<1>8. ASSUME alive, NEW i \in DOMAIN writes, WriteOpens(i) PROVE RegistryInv'
  <2> DEFINE w == [writes[i] EXCEPT !.pc = "write", !.content = entries]
  <2>1. writes[i] \in Write
    BY <1>0, SeqEntries
  <2>2. /\ w.by = writes[i].by /\ w.to = writes[i].to /\ w.pc = "write" /\ w.content = entries
    BY <2>1 DEF Write
  <2>3. /\ writes[i].to = "tmp" /\ writes' = [writes EXCEPT ![i] = w]
        /\ UNCHANGED <<serve, alive, entries, dealers, requests>>
    BY <1>8 DEF WriteOpens, RegistryInv
  <2>4. files'.json = files.json
    BY <1>8 DEF WriteOpens, Put, DealerTypes, Files
  <2> HIDE DEF w
  <2>5. PICK x : x = w
    OBVIOUS
  <2> QED BY <1>0, <1>7, <1>8, <2>2, <2>3, <2>4
<1>9. ASSUME alive, NEW i \in DOMAIN writes, Written(i) PROVE RegistryInv'
  <2> DEFINE w == [writes[i] EXCEPT !.pc = "rename"]
  <2>1. writes[i] \in Write
    BY <1>0, SeqEntries
  <2>2. /\ w.by = writes[i].by /\ w.to = writes[i].to /\ w.pc = "rename"
        /\ w.content = writes[i].content
    BY <2>1 DEF Write
  <2>3. /\ writes[i].to = "tmp" /\ writes[i].pc = "write" /\ writes[i].content \in Registry
        /\ writes' = [writes EXCEPT ![i] = w]
        /\ UNCHANGED <<serve, alive, entries, dealers, requests>>
    BY <1>9 DEF Written, RegistryInv
  <2>4. files'.json = files.json /\ files'.tmp = writes[i].content
    BY <1>9, <2>3 DEF Written, Put, DealerTypes, Files
  <2> HIDE DEF w
  <2> QED BY <1>7, <1>9, <2>2, <2>3, <2>4
<1>10. ASSUME alive, NEW i \in DOMAIN writes, Renames(i) PROVE RegistryInv'
  <2> DEFINE w == writes[i]
  <2>1. /\ DOMAIN writes = {i} /\ w \in Write /\ w.pc = "rename" /\ w.content \in Registry
        /\ files.tmp = w.content
    <3>1. w \in Write
      BY <1>0, SeqEntries
    <3>2. w.pc = "rename" /\ \A k \in DOMAIN writes : k = i
      BY <1>10 DEF Renames, RegistryInv
    <3> QED BY <1>10, <3>1, <3>2 DEF RegistryInv
  <2>2. files.tmp # NoFile
    <3>1. PICK t \in TableIds : TRUE
      BY <1>0
    <3>2. w.content[t] \in Statuses /\ NoFile[t] = "absent"
      BY <2>1 DEF Registry, NoFile
    <3> QED BY <2>1, <3>2 DEF Statuses
  <2>3. /\ files'.json = w.content /\ UNCHANGED <<serve, alive, entries, dealers>>
        /\ DOMAIN writes' = DOMAIN RemoveAt(writes, i)
        /\ IF w.by = NoSlot THEN UNCHANGED requests
           ELSE requests' = [requests EXCEPT ![w.by].pc = "wrote"]
    <3>1. files'.json = files.tmp
      BY <1>10, <2>2 DEF Renames, DealerTypes, Files
    <3>2. /\ UNCHANGED <<serve, alive, entries, dealers>>
          /\ IF w.by = NoSlot THEN UNCHANGED requests
             ELSE requests' = [requests EXCEPT ![w.by].pc = "wrote"]
          /\ writes' = [j \in DOMAIN RemoveAt(writes, i) |-> [RemoveAt(writes, i)[j] EXCEPT !.to = RenamedTo(@)]]
      BY <1>10, <2>2 DEF Renames
    <3> QED BY <2>1, <3>1, <3>2
  <2>4. DOMAIN writes' = {}
    <3>1. Len(writes) \in Nat /\ DOMAIN writes = 1 .. Len(writes) /\ RemoveAt(writes, i) \in Seq(Write)
          /\ Len(RemoveAt(writes, i)) = Len(writes) - 1
      BY <1>0, LenProperties, RemoveAtFacts
    <3>2. Len(writes) = 1
      <4>1. i \in 1 .. Len(writes) /\ 1 \in 1 .. Len(writes) /\ Len(writes) \in 1 .. Len(writes)
        BY <3>1
      <4> QED BY <2>1, <3>1, <4>1
    <3> QED BY <2>3, <3>1, <3>2, LenProperties
  <2>5. \A s \in Slots : requests[s].pc = "writing" => s = w.by
    BY <1>10, <2>1 DEF RegistryInv
  <2>6. w.by \in Slots \cup {NoSlot}
    BY <2>1 DEF Write
  <2> HIDE DEF w
  <2>7. \A s \in Slots : /\ requests'[s].pc # "writing"
                         /\ requests'[s].op = requests[s].op /\ requests'[s].table = requests[s].table
                         /\ requests'[s].pc = requests[s].pc \/
                               (s = w.by /\ requests[s].pc = "writing" /\ requests'[s].pc = "wrote")
    <3>1. CASE w.by = NoSlot
      <4>1. \A s \in Slots : requests[s].pc # "writing"
        BY <1>0, <2>5, <3>1
      <4> QED BY <2>3, <3>1, <4>1
    <3>2. CASE w.by # NoSlot
      <4>1. PICK r \in Slots : r = w.by
        BY <2>6, <3>2
      <4>2. requests[r].pc = "writing"
        BY <1>1, <1>10, <3>2, <4>1 DEF WritersSound, w
      <4>3. OthersWait(r) /\ requests'[r].op = requests[r].op
            /\ requests'[r].table = requests[r].table /\ requests'[r].pc = "wrote"
        BY <2>3, <3>2, <4>1, GoesOn
      <4> QED BY <2>5, <4>1, <4>2, <4>3 DEF OthersWait
    <3> QED BY <3>1, <3>2
  <2>8. \A t \in TableIds : Writes(t) => w.content[t] = "running"
    BY <2>1 DEF Writes, w
  <2>9. ASSUME NEW t \in TableIds, Runs(t)' PROVE entries'[t] = "running" /\ Listed(t)'
    <3>1. entries[t] = "running" /\ Writes(t)
      <4>1. CASE Runs(t)
        BY <1>10, <4>1 DEF RegistryInv
      <4>2. CASE ~Runs(t)
        <5>1. PICK s \in Slots : /\ requests'[s].table = t /\ requests'[s].op \in MakerOps
                                 /\ requests'[s].pc \in {"wrote", "start"}
          BY <2>3, <2>9, <4>2 DEF Runs
        <5>2. requests[s].table = t /\ requests[s].op \in MakerOps /\ requests[s].pc = "writing"
          BY <2>7, <4>2, <5>1 DEF Runs
        <5> QED BY <1>10, <5>2 DEF RegistryInv
      <4> QED BY <4>1, <4>2
    <3>2. t \in DOMAIN w.content
      BY <2>1 DEF Registry
    <3> QED BY <2>3, <2>8, <3>1, <3>2 DEF Listed
  <2> QED BY <1>4, <2>3, <2>4, <2>7, <2>9 DEF RegistryInv, Writes
(* Steps at a table.                                                        *)
<1>11. ASSUME alive, NEW d \in DOMAIN dealers, Saves(d) \/ DealerActs(d) PROVE RegistryInv'
  <2>1. /\ files'.json = files.json /\ files'.tmp = files.tmp /\ serve'.overlap = serve.overlap
        /\ UNCHANGED <<alive, entries, requests>>
        /\ \/ UNCHANGED writes
           \/ MayWrite /\ Begin(NoSlot)
    <3>1. CASE Saves(d)
      BY <3>1 DEF Saves, DealerTypes, Files
    <3>2. CASE DealerActs(d)
      BY <1>5, <3>2 DEF DealerActs
    <3> QED BY <1>11, <3>1, <3>2
  <2>2. DOMAIN dealers' = DOMAIN dealers
        /\ \A c \in DOMAIN dealers : dealers'[c].up = dealers[c].up /\ dealers'[c].table = dealers[c].table
    <3>1. dealers[d] \in DealerRec
      BY <1>0
    <3>2. CASE Saves(d)
      BY <3>1, <3>2 DEF Saves, DealerRec
    <3>3. CASE DealerActs(d)
      <4>1. Acted(dealers[d]).up = dealers[d].up /\ Acted(dealers[d]).table = dealers[d].table
        BY <3>1 DEF Acted, Persisted, DealerRec
      <4> QED BY <3>3, <4>1 DEF DealerActs
    <3> QED BY <1>11, <3>2, <3>3
  <2>3. \A t \in TableIds : Runs(t)' => Runs(t) /\ entries'[t] = entries[t]
    BY <2>1, <2>2 DEF Runs
  <2>4. CASE UNCHANGED writes
    BY <1>11, <2>1, <2>3, <2>4, RegistryStill
  <2>5. CASE MayWrite /\ Begin(NoSlot)
    <3>1. \A r \in Slots : requests'[r].pc # "writing"
      BY <1>11, <2>1, <2>5 DEF RegistryInv, MayWrite
    <3> QED BY <1>11, <2>1, <2>3, <2>5, <3>1, RegistryBegins
  <2> QED BY <2>1, <2>4, <2>5
(* Steps of a call.                                                         *)
<1>12. ASSUME alive, NEW s \in Slots, NEW op \in {"create", "resume", "stop", "remove"},
              NEW t \in TableIds, Calls(s, op, t)
       PROVE  RegistryInv'
  <2>1. PICK purge \in BOOLEAN :
          requests' = [requests EXCEPT ![s] = [Idle EXCEPT !.op = op, !.table = t, !.pc = "called",
                                                         !.purge = purge]]
    BY <1>12 DEF Calls
  <2>2. OthersWait(s) /\ requests'[s].pc = "called"
    BY <2>1 DEF OthersWait, DealerTypes, Idle
  <2>3. UNCHANGED <<alive, entries, dealers, writes, files>> /\ serve'.overlap = serve.overlap
    BY <1>5, <1>12 DEF Calls
  <2> QED BY <1>3, <1>12, <2>2, <2>3, OneCall
<1>13. ASSUME alive, NEW s \in Slots, Loads(s) PROVE RegistryInv'
  <2>1. PICK pc \in {"failed", "done", "make"} : requests' = [requests EXCEPT ![s].pc = pc]
    BY <1>13 DEF Loads, Goes
  <2>2. OthersWait(s) /\ requests'[s].pc = pc
    BY <2>1, GoesOn
  <2>3. UNCHANGED <<serve, alive, entries, dealers, writes, files>>
    BY <1>13 DEF Loads
  <2> QED BY <1>3, <1>13, <2>2, <2>3, OneCall
<1>14. ASSUME alive, NEW s \in Slots, Makes(s) PROVE RegistryInv'
  <2> DEFINE j   == requests[s]
             t   == j.table
             new == Dealer(t, IF j.op = "create" THEN 0 ELSE files.tables[t])
  <2>1. /\ j.op \in MakerOps /\ j.pc = IF j.op = "create" THEN "called" ELSE "make"
        /\ dealers' = Append(dealers, new) /\ entries' = [entries EXCEPT ![t] = "running"]
        /\ requests' = [requests EXCEPT ![s].pc = "writing", ![s].dealer = Len(dealers')]
        /\ Begin(s) /\ MayWrite /\ UNCHANGED <<serve, alive, files>>
    BY <1>14 DEF Makes, Makers, Registers, MakerOps
  <2>2. /\ OthersWait(s) /\ requests'[s].op = j.op /\ requests'[s].table = t
        /\ requests'[s].pc = "writing"
    BY <2>1, GoesOn
  <2>3. Settled(s, t) /\ entries'[t] = "running" /\ \A u \in TableIds : u # t => entries'[u] = entries[u]
    <3>1. Unhosted(t)
      <4>1. CallSound(j)
        BY <1>1, <1>14
      <4>2. managed[t] = 0
        BY <1>0, <2>1, <4>1 DEF CallSound, ManagedInv
      <4> QED BY <1>0, <1>2, <4>2
    <3>2. j.op # "idle" /\ j.pc \notin {"wrote", "start"}
      BY <2>1 DEF MakerOps
    <3>3. Settled(s, t)
      BY <1>1, <1>14, <3>1, <3>2, NotRunning DEF Settled
    <3> QED BY <1>0, <2>1, <3>3 DEF Registry
  <2>4. \A d \in DOMAIN dealers' : dealers'[d].up => Runs(dealers'[d].table)
    <3>1. new \in DealerRec /\ ~new.up
      <4>1. files.tables[t] \in Saved
        BY <1>0 DEF DealerTypes, Files
      <4>2. (IF j.op = "create" THEN 0 ELSE files.tables[t]) \in Saved
        BY <4>1 DEF Saved
      <4> QED BY <1>0, <4>2 DEF Dealer, DealerRec
    <3> HIDE DEF new
    <3>2. \A d \in DOMAIN dealers' : (d \in DOMAIN dealers /\ dealers'[d] = dealers[d]) \/ dealers'[d] = new
      BY <1>0, <2>1, <3>1, AppendFacts
    <3> QED BY <1>3, <3>1, <3>2
  <2>5. files'.json = files.json /\ serve'.overlap = serve.overlap
    BY <2>1
  <2> QED BY <1>14, <2>1, <2>2, <2>3, <2>4, <2>5, OneCallBegins
<1>15. ASSUME alive, NEW s \in Slots, Attaches(s) PROVE RegistryInv'
  <2>1. /\ requests[s].op \in MakerOps /\ requests[s].pc = "wrote"
        /\ requests' = [requests EXCEPT ![s].pc = "start"]
        /\ UNCHANGED <<serve, alive, entries, dealers, writes, files>>
    BY <1>15 DEF Attaches, Makers, Goes, MakerOps
  <2>2. OthersWait(s) /\ requests'[s].pc = "start" /\ requests'[s].table = requests[s].table
    BY <2>1, GoesOn
  <2>3. Runs(requests[s].table)
    BY <2>1 DEF Runs
  <2> QED BY <1>3, <1>15, <2>1, <2>2, <2>3, OneCall
<1>16. ASSUME alive, NEW s \in Slots, Starts(s) PROVE RegistryInv'
  <2> DEFINE d == requests[s].dealer
             t == requests[s].table
  <2>1. /\ requests[s].pc = "start" /\ UNCHANGED <<alive, entries, writes, files>>
        /\ serve'.overlap = serve.overlap
        /\ \/ UNCHANGED dealers
           \/ dealers' = [dealers EXCEPT ![d] = Persisted([@ EXCEPT !.up = TRUE])]
        /\ \E pc \in {"done", "failed"} : requests' = [requests EXCEPT ![s].pc = pc]
    BY <1>5, <1>16 DEF Starts, Goes
  <2>2. OthersWait(s) /\ requests'[s].pc \in {"done", "failed"}
    BY <2>1, GoesOn
  <2>3. Runs(t) /\ d \in DOMAIN dealers /\ dealers[d].table = t
    <3>1. CallSound(requests[s])
      BY <1>1, <1>16
    <3>2. requests[s].op \in MakerOps /\ ToStart(t, d)
      BY <2>1, <3>1 DEF CallSound
    <3> QED BY <2>1, <3>2 DEF Runs, ToStart
  <2>4. \A c \in DOMAIN dealers' : dealers'[c].up => Runs(dealers'[c].table)
    <3>1. Persisted([dealers[d] EXCEPT !.up = TRUE]).table = t
      BY <1>0, <2>3 DEF Persisted, DealerRec
    <3>2. \A c \in DOMAIN dealers' : c \in DOMAIN dealers
            /\ (dealers'[c] = dealers[c] \/ dealers'[c].table = t)
      BY <2>1, <3>1
    <3> QED BY <1>3, <2>3, <3>2
  <2> QED BY <1>16, <2>1, <2>2, <2>4, OneCall
<1>17. ASSUME NEW d \in DOMAIN dealers
       PROVE  Shut(d).up = FALSE /\ Shut(d).table = dealers[d].table
  BY <1>0 DEF Shut, Persisted, DealerRec
<1>18. ASSUME alive, NEW s \in Slots, Stops(s) PROVE RegistryInv'
  <2> DEFINE t == requests[s].table
  <2>1. /\ UNCHANGED <<serve, alive, entries, writes, files>>
        /\ \/ UNCHANGED dealers
           \/ /\ managed[t] # 0
              /\ dealers' = [dealers EXCEPT ![managed[t]] = Shut(managed[t])]
        /\ \E pc \in {"failed", "saving"} :
              \/ requests' = [requests EXCEPT ![s].pc = pc]
              \/ \E d : requests' = [requests EXCEPT ![s].pc = pc, ![s].dealer = d]
    BY <1>18 DEF Stops, Goes
  <2>2. OthersWait(s) /\ requests'[s].pc \in {"failed", "saving"}
    BY <2>1, GoesOn
  <2>3. managed[t] # 0 => managed[t] \in DOMAIN dealers
    BY <1>0 DEF ManagedInv
  <2>4. \A c \in DOMAIN dealers' : dealers'[c].up => Runs(dealers'[c].table)
    <3>1. CASE UNCHANGED dealers
      BY <1>3, <3>1
    <3>2. CASE managed[t] # 0 /\ dealers' = [dealers EXCEPT ![managed[t]] = Shut(managed[t])]
      <4>1. \A c \in DOMAIN dealers' : /\ c \in DOMAIN dealers
                                       /\ dealers'[c] = dealers[c] \/ ~dealers'[c].up
        BY <1>17, <2>3, <3>2
      <4> QED BY <1>3, <4>1
    <3> QED BY <2>1, <3>1, <3>2
  <2> QED BY <1>18, <2>1, <2>2, <2>4, OneCall
<1>19. ASSUME alive, NEW s \in Slots, Stopped(s) PROVE RegistryInv'
  <2> DEFINE j == requests[s]
             t == j.table
  <2>1. /\ j.op = "stop" /\ j.pc = "saving" /\ requests' = [requests EXCEPT ![s].pc = "writing"]
        /\ Begin(s) /\ MayWrite /\ UNCHANGED <<serve, alive, dealers, files>>
        /\ \A u \in TableIds : u # t => entries'[u] = entries[u]
    BY <1>0, <1>19 DEF Stopped, Goes, Registry
  <2>2. OthersWait(s) /\ requests'[s].op = "stop" /\ requests'[s].pc = "writing"
    BY <2>1, GoesOn
  <2>3. Settled(s, t)
    <3>1. CallSound(j)
      BY <1>1, <1>19
    <3>2. Unhosted(t)
      BY <1>0, <2>1, <3>1 DEF CallSound, ManagedInv, Unhosted
    <3> QED BY <1>1, <1>19, <2>1, <3>2, NotRunning DEF Settled
  <2>4. requests'[s].op \notin MakerOps
    BY <2>2 DEF MakerOps
  <2> QED BY <1>3, <1>19, <2>1, <2>2, <2>3, <2>4, OneCallBegins
<1>20. ASSUME alive, NEW s \in Slots, Removes(s) PROVE RegistryInv'
  <2> DEFINE j == requests[s]
             t == j.table
  <2>1. /\ j.op = "remove" /\ j.pc = "called" /\ UNCHANGED <<serve, alive, dealers, files>>
        /\ \/ requests' = [requests EXCEPT ![s].pc = "failed"] /\ UNCHANGED <<entries, writes>>
           \/ /\ managed[t] = 0 /\ MayWrite /\ entries' = [entries EXCEPT ![t] = "none"]
              /\ requests' = [requests EXCEPT ![s].pc = "writing"] /\ Begin(s)
    BY <1>20 DEF Removes, Goes
  <2>2. /\ OthersWait(s) /\ requests'[s].op \notin MakerOps
        /\ requests' = [requests EXCEPT ![s].pc = "failed"] => requests'[s].pc = "failed"
    BY <2>1, GoesOn DEF MakerOps
  <2>3. CASE requests' = [requests EXCEPT ![s].pc = "failed"] /\ UNCHANGED <<entries, writes>>
    BY <1>3, <1>20, <2>1, <2>2, <2>3, OneCall
  <2>4. CASE /\ managed[t] = 0 /\ MayWrite /\ entries' = [entries EXCEPT ![t] = "none"]
             /\ requests' = [requests EXCEPT ![s].pc = "writing"] /\ Begin(s)
    <3>1. Settled(s, t)
      BY <1>0, <1>1, <1>2, <1>20, <2>1, <2>4, NotRunning DEF Settled
    <3>2. \A u \in TableIds : u # t => entries'[u] = entries[u]
      BY <1>0, <2>4 DEF Registry
    <3> QED BY <1>3, <1>20, <2>1, <2>2, <2>4, <3>1, <3>2, OneCallBegins
  <2> QED BY <2>1, <2>3, <2>4
<1>21. ASSUME alive, NEW s \in Slots, Purges(s) \/ Returns(s) PROVE RegistryInv'
  <2>1. /\ files'.json = files.json /\ files'.tmp = files.tmp
        /\ UNCHANGED <<serve, alive, entries, dealers, writes>>
        /\ \/ requests' = [requests EXCEPT ![s].pc = "done"]
           \/ requests' = [requests EXCEPT ![s] = Idle]
    <3>1. CASE Purges(s)
      BY <3>1 DEF Purges, Goes, DealerTypes, Files
    <3>2. CASE Returns(s)
      BY <3>2 DEF Returns
    <3> QED BY <1>21, <3>1, <3>2
  <2>2. OthersWait(s) /\ requests'[s].pc = "done"
    <3>1. CASE requests' = [requests EXCEPT ![s].pc = "done"]
      BY <3>1, GoesOn
    <3>2. CASE requests' = [requests EXCEPT ![s] = Idle]
      BY <3>2 DEF OthersWait, DealerTypes, Idle
    <3> QED BY <2>1, <3>1, <3>2
  <2> QED BY <1>3, <1>21, <2>1, <2>2, OneCall
<1>22. ASSUME alive, NEW s \in Slots, ResumesNext(s) PROVE RegistryInv'
  <2> DEFINE j == requests[s]
  <2>1. /\ j.op = "resumeAll" /\ j.pc \in {"done", "failed"}
        /\ entries' = IF j.pc = "failed" THEN [entries EXCEPT ![j.table] = "stopped"] ELSE entries
        /\ UNCHANGED <<serve, alive, dealers, files>>
        /\ \/ \E t \in j.todo : requests' = [requests EXCEPT ![s] = OnTo(@, t)] /\ UNCHANGED writes
           \/ MayWrite /\ requests' = [requests EXCEPT ![s] = Idle] /\ Begin(NoSlot)
    BY <1>22 DEF ResumesNext
  <2>2. \A u \in TableIds : entries'[u] = entries[u] \/ Settled(s, u)
    <3>1. CASE j.pc = "failed"
      <4>1. CallSound(j)
        BY <1>1, <1>22
      <4>2. Unhosted(j.table)
        BY <2>1, <3>1, <4>1 DEF CallSound
      <4>3. Settled(s, j.table)
        BY <1>1, <1>22, <2>1, <4>2, NotRunning DEF Settled
      <4>4. \A u \in TableIds : u # j.table => entries'[u] = entries[u]
        BY <1>0, <2>1, <3>1 DEF Registry
      <4> QED BY <4>3, <4>4
    <3>2. CASE j.pc # "failed"
      BY <2>1, <3>2
    <3> QED BY <3>1, <3>2
  <2>3. CASE \E t \in j.todo : requests' = [requests EXCEPT ![s] = OnTo(@, t)] /\ UNCHANGED writes
    <3>1. PICK t \in j.todo : requests' = [requests EXCEPT ![s] = OnTo(@, t)]
      BY <2>3
    <3>2. OthersWait(s) /\ requests'[s] = OnTo(j, t)
      BY <3>1 DEF OthersWait, DealerTypes
    <3>3. requests'[s].pc = "called"
      BY <1>0, <3>2 DEF OnTo, Request
    <3> QED BY <1>3, <1>22, <2>1, <2>2, <2>3, <3>2, <3>3, OneCall
  <2>4. CASE MayWrite /\ requests' = [requests EXCEPT ![s] = Idle] /\ Begin(NoSlot)
    <3>1. OthersWait(s) /\ requests'[s].pc = "done"
      BY <2>4 DEF OthersWait, DealerTypes, Idle
    <3> QED BY <1>3, <1>22, <2>1, <2>2, <2>4, <3>1, OneCallBegins
  <2> QED BY <2>1, <2>3, <2>4
(* The process ends, and begins.                                            *)
<1>23. CASE Dies \/ Closes
  <2>1. ~alive' /\ serve'.overlap = serve.overlap
    BY <1>5, <1>23 DEF Dies, Closes
  <2> QED BY <1>4, <2>1 DEF RegistryInv
<1>24. ASSUME NEW s \in Slots, Opens(s) PROVE RegistryInv'
  <2> DEFINE all == {t \in TableIds : Found(t) = "running"}
  <2>1. /\ dealers' = << >> /\ writes' = << >> /\ UNCHANGED serve
        /\ requests' = [r \in Slots |-> IF r # s \/ all = {} THEN Idle
                                     ELSE [Idle EXCEPT !.op = "resumeAll", !.todo = all]]
    BY <1>24 DEF Opens
  <2> HIDE DEF all
  <2>2. \A r \in Slots : requests'[r].pc = "done"
    BY <2>1 DEF Idle
  <2>3. \A t \in TableIds : ~Runs(t)'
    BY <2>1, <2>2 DEF Runs
  <2> QED BY <1>4, <2>1, <2>2, <2>3 DEF RegistryInv
<1> QED BY <1>6, <1>8, <1>9, <1>10, <1>11, <1>12, <1>13, <1>14, <1>15, <1>16, <1>18, <1>19, <1>20,
           <1>21, <1>22, <1>23, <1>24
        DEF DealerNext
-----------------------------------------------------------------------------
(* Theorems. *)

LEMMA InitHolds ==
    ASSUME DealerInit
    PROVE  /\ DealerTypes /\ ManagedInv /\ SavingInv
           /\ (\A c \in DealerConfs : ~c.overlap) => RegistryInv
<1>1. /\ serve \in DealerConf /\ serve \in DealerConfs /\ alive = TRUE /\ dealers = << >> /\ writes = << >>
      /\ entries = [t \in TableIds |-> "none"] /\ managed = [t \in TableIds |-> 0]
      /\ requests = [s \in Slots |-> Idle]
      /\ files = [json |-> [t \in TableIds |-> "none"], tmp |-> NoFile,
                  tables |-> [t \in TableIds |-> Absent]]
  BY DealerAssumption DEF DealerInit
<1>2. DealerTypes
  <2>1. entries \in Registry /\ files \in Files
    BY <1>1 DEF Registry, Statuses, Files, Saved
  <2>2. requests \in [Slots -> Request]
    BY <1>1, IdleTyped
  <2>3. managed \in [TableIds -> Nat] /\ dealers \in Seq(DealerRec) /\ writes \in Seq(Write)
    BY <1>1
  <2> QED BY <1>1, <2>1, <2>2, <2>3 DEF DealerTypes
<1>3. Idle.op = "idle" /\ Idle.pc = "done" /\ Idle.todo = {}
  BY DEF Idle
<1>4. ManagedInv
  BY <1>1 DEF ManagedInv
<1>5. \A s \in Slots : requests[s] = Idle
  BY <1>1
<1>6. CallsApart /\ WritersSound /\ \A d \in DOMAIN dealers : SavesSound(d)
  BY <1>1, <1>3, <1>5 DEF CallsApart, Of, WritersSound
<1>7. \A s \in Slots : CallSound(requests[s])
  BY <1>3, <1>5 DEF CallSound, MakerOps
<1>8. ASSUME \A c \in DealerConfs : ~c.overlap PROVE RegistryInv
  <2>1. \A t \in TableIds : ~Runs(t)
    BY <1>1, <1>3, <1>5 DEF Runs
  <2> QED BY <1>1, <1>3, <1>5, <1>8, <2>1 DEF RegistryInv
<1> QED BY <1>2, <1>4, <1>6, <1>7, <1>8 DEF SavingInv

(* The parts of the state that every situation keeps: the types, what the manager
   holds, and the saves.                                                    *)
THEOREM SavesSoundAlways == DealerSpec => [](DealerTypes /\ ManagedInv /\ SavingInv)
<1>1. DealerInit => DealerTypes /\ ManagedInv /\ SavingInv
  BY InitHolds
<1>2. DealerTypes /\ ManagedInv /\ SavingInv /\ [DealerNext]_dealerVars
        => (DealerTypes /\ ManagedInv /\ SavingInv)'
  <2>1. DealerTypes /\ ManagedInv /\ [DealerNext]_dealerVars => DealerTypes'
    BY TypesKept
  <2> QED BY <2>1, SavingKept
<1> QED BY <1>1, <1>2, PTL DEF DealerSpec

(* DealerManager.ts and dealer.ts: however a table is stopped, resumed and crashed,
   and however many writes of tables.json overlap, what was saved of it is never
   replaced by something older.                                             *)
THEOREM SavesGoForward == DealerSpec => SavedForward
<1>1. DealerTypes /\ DealerTypes' /\ ManagedInv /\ SavingInv /\ [DealerNext]_dealerVars
        => [\A t \in TableIds : files'.tables[t] < files.tables[t]
              => files'.tables[t] = Absent]_dealerVars
  BY SavingKept DEF Forward
<1>2. DealerSpec => [](DealerTypes /\ ManagedInv /\ SavingInv)
  BY SavesSoundAlways
<1> QED BY <1>1, <1>2, PTL DEF DealerSpec, SavedForward

(* tables.json is written by one at a time.                                 *)
OneWriteAtATime == \A c \in DealerConfs : ~c.overlap

(* DealerManager.ts: as long as no two writes of tables.json overlap, a process that
   dies at any moment leaves every table that was hosted, and that no call was about,
   on disk as running, with every save that was made.                       *)
THEOREM ComeBack == OneWriteAtATime => (DealerSpec => []TablesComeBack)
<1> SUFFICES ASSUME OneWriteAtATime PROVE DealerSpec => []TablesComeBack
  OBVIOUS
<1>1. DealerInit => DealerTypes /\ ManagedInv /\ SavingInv /\ RegistryInv
  BY InitHolds DEF OneWriteAtATime
<1>2. DealerTypes /\ ManagedInv /\ SavingInv /\ RegistryInv /\ [DealerNext]_dealerVars
        => (DealerTypes /\ ManagedInv /\ SavingInv /\ RegistryInv)'
  <2> SUFFICES ASSUME DealerTypes, ManagedInv, SavingInv, RegistryInv, [DealerNext]_dealerVars
               PROVE  (DealerTypes /\ ManagedInv /\ SavingInv /\ RegistryInv)'
    OBVIOUS
  <2>1. DealerTypes'
    BY TypesKept
  <2>2. ManagedInv' /\ SavingInv'
    BY <2>1, SavingKept
  <2>3. RegistryInv'
    BY <2>1, <2>2, RegistryKept
  <2> QED BY <2>1, <2>2, <2>3
<1>3. DealerTypes /\ SavingInv /\ RegistryInv => TablesComeBack
  <2> SUFFICES ASSUME SavingInv, RegistryInv, NEW t \in TableIds, NEW d \in Hosted(t), alive
               PROVE  /\ t \in DOMAIN files.json /\ files.json[t] = "running"
                      /\ dealers[d].saves = << >> => files.tables[t] = dealers[d].seq
    BY DEF TablesComeBack
  <2>1. d \in DOMAIN dealers /\ dealers[d].up /\ dealers[d].table = t
    BY DEF Hosted
  <2>2. Runs(t)
    BY <2>1 DEF Runs
  <2>3. Listed(t) /\ SavesSound(d)
    BY <2>1, <2>2 DEF RegistryInv, SavingInv
  <2> QED BY <2>1, <2>3 DEF Listed, SavesSound
<1> QED BY <1>1, <1>2, <1>3, PTL DEF DealerSpec

-----------------------------------------------------------------------------
(* Reopening a table. *)

(* Types: copies, what is under way, screens, channels.                     *)
Log   == Seq([by : Owners, next : Owners, id : Nat])
Offer == [kind : {"hello"}, log : Log] \cup [kind : {"command"}, next : Owners]
Screens == [stage : Stages, ask : Asks, tries : Nat, old : Asks,
            link : {"up", "cut", "down"}, timer : BOOLEAN]
Chan == [host : Owners \cup {Nowhere}, seated : BOOLEAN, up : Seq(Offer), down : Seq(Log)]

ReopenTypes ==
    /\ visit \in ReopenConf /\ screen \in [Owners -> Screens]
    /\ copies \in [Owners -> Log] /\ hosted \in [Owners -> Log]
    /\ chans \in [Owners -> Chan] /\ unheard \subseteq Owners
    /\ code \in {FreeCode} \cup {Held(d, by) : d \in Owners, by \in {"screen", "old", "gone"}}

(* A channel is that of a guest or of one who says hello, to somebody who hosts. *)
ChanInv ==
    \A d \in Owners :
        /\ chans[d].host # Nowhere <=> screen[d].stage \in {"greeting", "guest"}
        /\ chans[d].host = Nowhere => chans[d] = NoChan
        /\ chans[d].host \in Owners => screen[chans[d].host].stage = "host"

(* The code and those who want it: what is granted is held; a host whose socket is
   up holds it, and one whose socket is down will ask for it, or has asked.  *)
Fits(s, d, k) ==
    /\ k = Held(d, "screen") => s.stage = "host" \/ s.ask = "granted"
    /\ k = Held(d, "old") => s.old = "granted"
    /\ s.ask # "none" => s.stage \in {"asking", "host"}
    /\ s.ask = "granted" => k = Held(d, "screen")
    /\ s.stage = "host" =>
          /\ s.link # "down" => ~s.timer /\ s.ask = "none"
          /\ s.link = "up" => k = Held(d, "screen")
          /\ s.link = "down" => s.timer \/ s.ask # "none"
CodeInv == \A d \in Owners : Fits(screen[d], d, code)

ReopenInv == ReopenTypes /\ ChanInv /\ CodeInv

Keeps(d) == {FreeCode} \cup {Held(d, by) : by \in {"screen", "old", "gone"}}

(* A screen that moves by itself, and perhaps takes the code or gives it up.  *)
LEMMA ScreenMoves ==
    ASSUME ReopenInv, NEW d \in Owners, NEW s \in Screens, Set(d, s),
           code' = code \/ (code \in Keeps(d) /\ code' \in Keeps(d)),
           Fits(s, d, code')
    PROVE  CodeInv' /\ screen' \in [Owners -> Screens] /\ screen'[d] = s
           /\ \A e \in Owners : e # d => screen'[e] = screen[e]
<1>1. screen \in [Owners -> Screens] /\ screen' = [screen EXCEPT ![d] = s]
  BY DEF ReopenInv, ReopenTypes, Set
<1>2. screen' \in [Owners -> Screens] /\ screen'[d] = s /\ \A e \in Owners : e # d => screen'[e] = screen[e]
  BY <1>1
<1>3. ASSUME NEW e \in Owners, e # d PROVE Fits(screen[e], e, code')
  <2>1. Fits(screen[e], e, code)
    BY DEF ReopenInv, CodeInv
  <2>2. CASE code' = code
    BY <2>1, <2>2
  <2>3. CASE code \in Keeps(d) /\ code' \in Keeps(d)
    <3>1. \A by : code # Held(e, by) /\ code' # Held(e, by)
      BY <1>3, <2>3, ReopenAssumption DEF Keeps, FreeCode, Held
    <3> QED BY <2>1, <3>1 DEF Fits
  <2> QED BY <2>2, <2>3
<1>4. CodeInv'
  <2>1. \A e \in Owners : Fits(screen'[e], e, code')
    BY <1>2, <1>3
  <2> QED BY <2>1 DEF CodeInv
<1> QED BY <1>2, <1>4

(* Who hosts goes on hosting, and who has no channel gets none.             *)
LEMMA ScreenAlone ==
    ASSUME ReopenInv, NEW d \in Owners, NEW s \in Screens, Set(d, s),
           UNCHANGED <<copies, hosted, chans, unheard>>, visit' \in ReopenConf,
           code' = code \/ (code \in Keeps(d) /\ code' \in Keeps(d)), Fits(s, d, code'),
           screen[d].stage \notin {"greeting", "guest"}, s.stage \notin {"greeting", "guest"},
           screen[d].stage = "host" => s.stage = "host"
    PROVE  ReopenInv'
<1>1. /\ CodeInv' /\ screen' \in [Owners -> Screens] /\ screen'[d] = s
      /\ \A e \in Owners : e # d => screen'[e] = screen[e]
  BY ScreenMoves
<1>2. ReopenTypes'
  <2>1. code' \in {FreeCode} \cup {Held(e, by) : e \in Owners, by \in {"screen", "old", "gone"}}
    BY DEF ReopenInv, ReopenTypes, Keeps
  <2> QED BY <1>1, <2>1 DEF ReopenInv, ReopenTypes
<1>3. ChanInv'
  <2>1. ASSUME NEW e \in Owners
        PROVE  /\ chans[e].host # Nowhere <=> screen'[e].stage \in {"greeting", "guest"}
               /\ chans[e].host = Nowhere => chans[e] = NoChan
               /\ chans[e].host \in Owners => screen'[chans[e].host].stage = "host"
    BY <1>1 DEF ReopenInv, ChanInv
  <2> QED BY <2>1 DEF ChanInv
<1> QED BY <1>1, <1>2, <1>3 DEF ReopenInv

(* A screen that stays at its stage keeps its channel and those of its guests. *)
LEMMA ScreenStays ==
    ASSUME ReopenInv, NEW d \in Owners, NEW s \in Screens, Set(d, s),
           UNCHANGED <<visit, copies, hosted, chans, unheard>>,
           code' = code \/ (code \in Keeps(d) /\ code' \in Keeps(d)), Fits(s, d, code'),
           s.stage = screen[d].stage
    PROVE  ReopenInv'
<1>1. CodeInv' /\ screen' \in [Owners -> Screens] /\ screen'[d] = s
      /\ \A e \in Owners : e # d => screen'[e] = screen[e]
  BY ScreenMoves
<1>2. ReopenTypes'
  <2>1. code' \in {FreeCode} \cup {Held(e, by) : e \in Owners, by \in {"screen", "old", "gone"}}
    BY DEF ReopenInv, ReopenTypes, Keeps
  <2> QED BY <1>1, <2>1 DEF ReopenInv, ReopenTypes
<1>3. ChanInv'
  <2>1. \A e \in Owners : screen'[e].stage = screen[e].stage
    BY <1>1
  <2>2. ASSUME NEW e \in Owners
        PROVE  /\ chans[e].host # Nowhere <=> screen'[e].stage \in {"greeting", "guest"}
               /\ chans[e].host = Nowhere => chans[e] = NoChan
               /\ chans[e].host \in Owners => screen'[chans[e].host].stage = "host"
    BY <2>1 DEF ReopenInv, ChanInv
  <2> QED BY <2>2 DEF ChanInv
<1> QED BY <1>1, <1>2, <1>3 DEF ReopenInv

(* Parts of screens.                                                        *)
LEMMA ScreenParts ==
    /\ \A stage \in Stages : Screen(stage) \in Screens
    /\ \A s \in Screens, old \in Asks : [s EXCEPT !.old = old] \in Screens
    /\ \A s \in Screens, ask \in Asks : [s EXCEPT !.ask = ask] \in Screens
    /\ \A s \in Screens, stage \in Stages : [s EXCEPT !.stage = stage] \in Screens
BY DEF Screens, Screen, Stages, Asks

LEMMA VisitSpent ==
    ASSUME ReopenTypes, NEW bound \in {"actions", "opens", "leaves", "deaths", "cuts", "breaks"},
           Spend(bound)
    PROVE  visit' \in ReopenConf
BY DEF ReopenTypes, Spend, ReopenConf

LEMMA FlowFacts ==
    ASSUME NEW s, s.old \in Asks
    PROVE  /\ Flow(s) \in Screens /\ Flow(s).stage = "asking" /\ Flow(s).ask = "asked"
           /\ Flow(s).old = s.old
BY DEF Flow, Screens, Screen, Stages, Asks

(* Flows begin.                                                             *)
LEMMA FlowBegins ==
    ASSUME ReopenInv, NEW d \in Owners, Set(d, Flow(screen[d])),
           screen[d].stage \in {"away", "failed", "pausing", "down", "ousted"},
           visit' \in ReopenConf, UNCHANGED <<copies, hosted, chans, code, unheard>>
    PROVE  ReopenInv'
<1>1. screen[d] \in Screens /\ Fits(screen[d], d, code)
  BY DEF ReopenInv, ReopenTypes, CodeInv
<1>2. /\ Flow(screen[d]) \in Screens /\ Flow(screen[d]).stage = "asking"
      /\ Flow(screen[d]).ask = "asked" /\ Flow(screen[d]).old = screen[d].old
  BY <1>1, FlowFacts DEF Screens
<1>3. Fits(Flow(screen[d]), d, code)
  BY <1>1, <1>2 DEF Fits
<1> HIDE DEF Flow
<1> QED BY <1>1, <1>2, <1>3, ScreenAlone

LEMMA FlowsStep ==
    ASSUME ReopenInv, NEW d \in Owners, OpenScreen(d) \/ Reconnect(d) \/ Resumes(d)
    PROVE  ReopenInv'
<1>1. /\ Set(d, Flow(screen[d]))
      /\ screen[d].stage \in {"away", "failed", "pausing", "down", "ousted"}
      /\ visit' = visit \/ Spend("opens")
      /\ UNCHANGED <<copies, hosted, chans, code, unheard>>
  BY DEF OpenScreen, Reconnect, Resumes, At
<1>2. visit' \in ReopenConf
  BY <1>1, VisitSpent DEF ReopenInv, ReopenTypes
<1> QED BY <1>1, <1>2, FlowBegins

(* The signalling server answers.                                           *)
LEMMA RegisterStep ==
    ASSUME ReopenInv, NEW d \in Owners, Register(d) \/ RegisterOld(d) PROVE ReopenInv'
<1>1. screen[d] \in Screens /\ Fits(screen[d], d, code) /\ visit \in ReopenConf
  BY DEF ReopenInv, ReopenTypes, CodeInv
<1>2. \A by \in {"screen", "old"} : Held(d, by) # FreeCode /\ Held(d, "screen") # Held(d, "old")
  BY ReopenAssumption DEF Held, FreeCode
<1>3. CASE Register(d)
  <2> DEFINE s == [screen[d] EXCEPT !.ask = Verdict(d, "screen")]
  <2>1. /\ screen[d].ask = "asked" /\ Set(d, s) /\ UNCHANGED <<visit, copies, hosted, chans, unheard>>
        /\ IF code \in {FreeCode, Held(d, "screen")} THEN code' = Held(d, "screen") ELSE code' = code
    BY <1>3 DEF Register, Grant
  <2>2. Verdict(d, "screen") \in Asks
    BY DEF Verdict, Asks
  <2>3. s \in Screens
    BY <1>1, <2>2, ScreenParts
  <2>4. /\ s.stage = screen[d].stage /\ s.old = screen[d].old /\ s.link = screen[d].link
        /\ s.timer = screen[d].timer /\ s.ask = Verdict(d, "screen")
    BY <1>1 DEF Screens
  <2> HIDE DEF s
  <2>5. s.ask = IF code \in {FreeCode, Held(d, "screen")} THEN "granted" ELSE "taken"
    BY <2>4 DEF Verdict
  <2>6. screen[d].stage \in {"asking", "host"}
    BY <1>1, <2>1 DEF Fits
  <2>7. Fits(s, d, code')
    BY <1>1, <1>2, <2>1, <2>4, <2>5, <2>6 DEF Fits
  <2>8. code' = code \/ (code \in Keeps(d) /\ code' \in Keeps(d))
    BY <2>1 DEF Keeps
  <2> QED BY <1>1, <2>1, <2>3, <2>4, <2>6, <2>7, <2>8, ScreenAlone
<1>4. CASE RegisterOld(d)
  <2> DEFINE s == [screen[d] EXCEPT !.old = Verdict(d, "old")]
  <2>1. /\ screen[d].old = "asked" /\ Set(d, s) /\ UNCHANGED <<visit, copies, hosted, chans, unheard>>
        /\ IF code \in {FreeCode, Held(d, "old")} THEN code' = Held(d, "old") ELSE code' = code
    BY <1>4 DEF RegisterOld, Grant
  <2>2. Verdict(d, "old") \in Asks
    BY DEF Verdict, Asks
  <2>3. s \in Screens
    BY <1>1, <2>2, ScreenParts
  <2>4. /\ s.stage = screen[d].stage /\ s.ask = screen[d].ask /\ s.link = screen[d].link
        /\ s.timer = screen[d].timer /\ s.old = Verdict(d, "old")
    BY <1>1 DEF Screens
  <2> HIDE DEF s
  <2>5. s.old = IF code \in {FreeCode, Held(d, "old")} THEN "granted" ELSE "taken"
    BY <2>4 DEF Verdict
  <2>7. Fits(s, d, code')
    BY <1>1, <1>2, <2>1, <2>4, <2>5 DEF Fits
  <2>8. code' = code \/ (code \in Keeps(d) /\ code' \in Keeps(d))
    BY <2>1 DEF Keeps
  <2> QED BY <2>1, <2>3, <2>4, <2>7, <2>8, ScreenStays
<1> QED BY <1>3, <1>4

(* A host, and who becomes one.                                             *)
LEMMA HostStep ==
    ASSUME ReopenInv, NEW d \in Owners,
           \/ Hosts(d) \/ Taken(d) \/ HostFails(d) \/ JoinFails(d) \/ SocketDrops(d)
           \/ Disconnected(d) \/ Reregister(d) \/ Reregistered(d) \/ NotReregistered(d)
    PROVE  ReopenInv'
<1>1. screen[d] \in Screens /\ Fits(screen[d], d, code) /\ visit \in ReopenConf
  BY DEF ReopenInv, ReopenTypes, CodeInv
<1>2. \A s \in Screens : s = [stage |-> s.stage, ask |-> s.ask, tries |-> s.tries, old |-> s.old,
                               link |-> s.link, timer |-> s.timer]
  BY DEF Screens
<1>3. CASE Hosts(d)
  <2> DEFINE s == [Screen("host") EXCEPT !.old = screen[d].old]
  <2>1. /\ screen[d].stage = "asking" /\ screen[d].ask = "granted" /\ Set(d, s)
        /\ hosted' = [hosted EXCEPT ![d] = copies[d]]
        /\ UNCHANGED <<visit, copies, chans, code, unheard>>
    BY <1>3 DEF Hosts, At
  <2>2. s \in Screens
    BY <1>1, ScreenParts DEF Stages, Screens
  <2>3. /\ s.stage = "host" /\ s.ask = "none" /\ s.link = "up" /\ s.timer = FALSE
        /\ s.old = screen[d].old
    BY DEF Screen
  <2> HIDE DEF s
  <2>4. Fits(s, d, code')
    BY <1>1, <2>1, <2>3 DEF Fits
  <2>5. CodeInv' /\ screen' \in [Owners -> Screens] /\ screen'[d] = s
        /\ \A e \in Owners : e # d => screen'[e] = screen[e]
    BY <2>1, <2>2, <2>4, ScreenMoves
  <2>6. ReopenTypes'
    <3>1. hosted' \in [Owners -> Log]
      <4>1. hosted \in [Owners -> Log] /\ copies[d] \in Log
        BY DEF ReopenInv, ReopenTypes
      <4> QED BY <2>1, <4>1
    <3> QED BY <2>1, <2>5, <3>1 DEF ReopenInv, ReopenTypes
  <2>7. ChanInv'
    <3>2. ASSUME NEW e \in Owners
          PROVE  /\ chans[e].host # Nowhere <=> screen'[e].stage \in {"greeting", "guest"}
                 /\ chans[e].host = Nowhere => chans[e] = NoChan
                 /\ chans[e].host \in Owners => screen'[chans[e].host].stage = "host"
      BY <2>1, <2>3, <2>5 DEF ReopenInv, ChanInv
    <3> QED BY <2>1, <3>2 DEF ChanInv
  <2> QED BY <2>5, <2>6, <2>7 DEF ReopenInv
<1>4. ASSUME NEW s \in Screens, Set(d, s), UNCHANGED <<copies, hosted, chans, unheard>>,
             visit' = visit \/ Spend("cuts"), code' = code \/ code' = GivenBack(d, "screen"),
             screen[d].stage \notin {"greeting", "guest"}, s.stage \notin {"greeting", "guest"},
             screen[d].stage = "host" => s.stage = "host", Fits(s, d, code')
      PROVE  ReopenInv'
  <2>1. visit' \in ReopenConf
    BY <1>1, <1>4, VisitSpent DEF ReopenInv
  <2>2. code' = code \/ (code \in Keeps(d) /\ code' \in Keeps(d))
    BY <1>4 DEF Keeps, GivenBack
  <2> QED BY <1>4, <2>1, <2>2, ScreenAlone
<1>5. CASE Taken(d)
  <2>1. PICK s \in Screens :
          /\ Set(d, s) /\ UNCHANGED <<visit, copies, hosted, chans, code, unheard>>
          /\ screen[d].stage = "asking" /\ screen[d].ask = "taken" /\ s.old = screen[d].old
          /\ \/ s.ask = "asked" /\ s.stage = "asking"
             \/ s.ask = "none" /\ s.stage = "joining"
    <3> DEFINE u == [screen[d] EXCEPT !.ask = "asked", !.tries = @ + 1]
               v == [screen[d] EXCEPT !.ask = "none", !.stage = "joining"]
    <3>1. Taken(d) => /\ Set(d, u) \/ Set(d, v)
                      /\ UNCHANGED <<visit, copies, hosted, chans, code, unheard>>
                      /\ screen[d].stage = "asking" /\ screen[d].ask = "taken"
      BY DEF Taken, At
    <3>2. u \in Screens /\ u.old = screen[d].old /\ u.ask = "asked" /\ u.stage = screen[d].stage
      <4>1. screen[d].tries + 1 \in Nat
        BY <1>1 DEF Screens
      <4> QED BY <1>1, <4>1 DEF Screens, Asks, Stages
    <3>3. v \in Screens /\ v.old = screen[d].old /\ v.ask = "none" /\ v.stage = "joining"
      BY <1>1 DEF Screens, Asks, Stages
    <3> HIDE DEF u, v
    <3> QED BY <1>5, <3>1, <3>2, <3>3
  <2>2. Fits(s, d, code')
    BY <1>1, <2>1 DEF Fits
  <2> QED BY <1>4, <2>1, <2>2
<1>6. CASE HostFails(d) \/ JoinFails(d)
  <2>1. PICK s \in Screens :
          /\ Set(d, s) /\ UNCHANGED <<visit, copies, hosted, chans, unheard>>
          /\ screen[d].stage \in {"asking", "joining"} /\ s.old = screen[d].old
          /\ s.ask = "none" /\ s.stage \in {"pausing", "failed"}
          /\ \/ code' = GivenBack(d, "screen")
             \/ code' = code /\ screen[d].stage = "joining"
    <3>1. CASE HostFails(d)
      <4>1. PICK stage \in {"pausing", "failed"} :
               Set(d, [screen[d] EXCEPT !.stage = stage, !.ask = "none", !.tries = 0])
        BY <3>1 DEF HostFails
      <4> DEFINE u == [screen[d] EXCEPT !.stage = stage, !.ask = "none", !.tries = 0]
      <4>2. u \in Screens /\ u.old = screen[d].old /\ u.ask = "none" /\ u.stage = stage
        BY <1>1 DEF Screens, Asks, Stages
      <4> HIDE DEF u
      <4> QED BY <3>1, <4>1, <4>2 DEF HostFails, At, u
    <3>2. CASE JoinFails(d)
      <4>1. PICK stage \in {"pausing", "failed"} :
               Set(d, [screen[d] EXCEPT !.stage = stage, !.tries = 0])
        BY <3>2 DEF JoinFails
      <4> DEFINE u == [screen[d] EXCEPT !.stage = stage, !.tries = 0]
      <4>2. u \in Screens /\ u.old = screen[d].old /\ u.ask = screen[d].ask /\ u.stage = stage
        BY <1>1 DEF Screens, Asks, Stages
      <4>3. screen[d].stage = "joining" => screen[d].ask = "none"
        BY <1>1 DEF Fits
      <4> HIDE DEF u
      <4> QED BY <3>2, <4>1, <4>2, <4>3 DEF JoinFails, At, u
    <3> QED BY <1>6, <3>1, <3>2
  <2>2. Held(d, "screen") # FreeCode /\ Held(d, "old") # FreeCode /\ Held(d, "screen") # Held(d, "old")
    BY ReopenAssumption DEF Held, FreeCode
  <2>3. Fits(s, d, code')
    BY <1>1, <2>1, <2>2 DEF Fits, GivenBack
  <2> QED BY <1>4, <2>1, <2>3
<1>7. CASE SocketDrops(d) \/ Disconnected(d) \/ Reregister(d) \/ Reregistered(d) \/ NotReregistered(d)
  <2>1. PICK s \in Screens :
          /\ Set(d, s) /\ UNCHANGED <<copies, hosted, chans, code, unheard>>
          /\ visit' = visit \/ Spend("cuts")
          /\ screen[d].stage = "host" /\ s.old = screen[d].old /\ s.stage = "host"
          /\ \/ screen[d].link = "up" /\ s.link = "cut" /\ s.timer = screen[d].timer /\ s.ask = screen[d].ask
             \/ screen[d].link = "cut" /\ s.link = "down" /\ s.timer /\ s.ask = screen[d].ask
             \/ screen[d].timer /\ s.link = screen[d].link /\ s.timer /\ s.ask = "asked" /\ screen[d].ask = "none"
             \/ screen[d].timer /\ s.link = screen[d].link /\ s.ask = screen[d].ask /\ screen[d].ask # "none"
             \/ screen[d].ask = "granted" /\ s.link = "up" /\ ~s.timer /\ s.ask = "none"
             \/ screen[d].ask \in {"asked", "granted"} /\ s.link = screen[d].link /\ s.timer /\ s.ask = "none"
    <3>1. CASE SocketDrops(d)
      <4> DEFINE u == [screen[d] EXCEPT !.link = "cut"]
      <4>1. /\ u \in Screens /\ u.old = screen[d].old /\ u.stage = screen[d].stage /\ u.link = "cut"
            /\ u.timer = screen[d].timer /\ u.ask = screen[d].ask
        BY <1>1 DEF Screens
      <4> HIDE DEF u
      <4> QED BY <3>1, <4>1 DEF SocketDrops, At, u
    <3>2. CASE Disconnected(d)
      <4> DEFINE u == [screen[d] EXCEPT !.link = "down", !.timer = TRUE]
      <4>1. /\ u \in Screens /\ u.old = screen[d].old /\ u.stage = screen[d].stage /\ u.link = "down"
            /\ u.timer /\ u.ask = screen[d].ask
        BY <1>1 DEF Screens
      <4> HIDE DEF u
      <4> QED BY <3>2, <4>1 DEF Disconnected, At, u
    <3>3. CASE Reregister(d)
      <4> DEFINE u == [screen[d] EXCEPT !.ask = "asked"]
                 v == [screen[d] EXCEPT !.timer = FALSE]
      <4>1. /\ u \in Screens /\ u.old = screen[d].old /\ u.stage = screen[d].stage
            /\ u.link = screen[d].link /\ u.timer = screen[d].timer /\ u.ask = "asked"
        BY <1>1 DEF Screens, Asks
      <4>2. /\ v \in Screens /\ v.old = screen[d].old /\ v.stage = screen[d].stage
            /\ v.link = screen[d].link /\ v.ask = screen[d].ask
        BY <1>1 DEF Screens
      <4>3. /\ screen[d].stage = "host" /\ screen[d].timer
            /\ UNCHANGED <<visit, copies, hosted, chans, code, unheard>>
            /\ \/ screen[d].ask = "none" /\ Set(d, u)
               \/ screen[d].ask # "none" /\ Set(d, v)
        BY <3>3 DEF Reregister, At
      <4> HIDE DEF u, v
      <4> QED BY <4>1, <4>2, <4>3
    <3>4. CASE Reregistered(d)
      <4> DEFINE u == [screen[d] EXCEPT !.link = "up", !.ask = "none", !.timer = FALSE]
      <4>1. /\ u \in Screens /\ u.old = screen[d].old /\ u.stage = screen[d].stage /\ u.link = "up"
            /\ ~u.timer /\ u.ask = "none"
        BY <1>1 DEF Screens, Asks
      <4> HIDE DEF u
      <4> QED BY <3>4, <4>1 DEF Reregistered, At, u
    <3>5. CASE NotReregistered(d)
      <4> DEFINE u == [screen[d] EXCEPT !.ask = "none", !.timer = TRUE]
      <4>1. /\ u \in Screens /\ u.old = screen[d].old /\ u.stage = screen[d].stage
            /\ u.link = screen[d].link /\ u.timer /\ u.ask = "none"
        BY <1>1 DEF Screens, Asks
      <4> HIDE DEF u
      <4> QED BY <3>5, <4>1 DEF NotReregistered, At, u
    <3> QED BY <1>7, <3>1, <3>2, <3>3, <3>4, <3>5
  <2>2. s.link \in {"up", "cut", "down"} /\ screen[d].link \in {"up", "cut", "down"}
    BY <1>1 DEF Screens
  <2>3. Fits(s, d, code')
    BY <1>1, <2>1, <2>2 DEF Fits
  <2> QED BY <1>4, <2>1, <2>3
<1> QED BY <1>3, <1>5, <1>6, <1>7

LEMMA OldEndsStep ==
    ASSUME ReopenInv, NEW d \in Owners, OldEnds(d) PROVE ReopenInv'
<1> DEFINE s == [screen[d] EXCEPT !.old = "none"]
<1>1. screen[d] \in Screens /\ Fits(screen[d], d, code)
  BY DEF ReopenInv, ReopenTypes, CodeInv
<1>2. Set(d, s) /\ code' = GivenBack(d, "old") /\ UNCHANGED <<visit, copies, hosted, chans, unheard>>
  BY DEF OldEnds
<1>3. /\ s \in Screens /\ s.stage = screen[d].stage /\ s.ask = screen[d].ask /\ s.link = screen[d].link
      /\ s.timer = screen[d].timer /\ s.old = "none"
  BY <1>1 DEF Screens, Asks
<1> HIDE DEF s
<1>4. Held(d, "screen") # FreeCode /\ Held(d, "old") # FreeCode /\ Held(d, "screen") # Held(d, "old")
  BY ReopenAssumption DEF Held, FreeCode
<1>5. Fits(s, d, code')
  BY <1>1, <1>2, <1>3, <1>4 DEF Fits, GivenBack
<1>6. code' = code \/ (code \in Keeps(d) /\ code' \in Keeps(d))
  BY <1>2 DEF Keeps, GivenBack
<1> QED BY <1>2, <1>3, <1>5, <1>6, ScreenStays

(* Nobody who has lost the code thinks to have it.                          *)
LEMMA ExpireStep ==
    ASSUME ReopenInv, Expire PROVE ReopenInv'
<1>1. code' = FreeCode /\ UNCHANGED <<visit, screen, copies, hosted, chans, unheard>>
  BY DEF Expire
<1>2. ASSUME NEW e \in Owners PROVE Fits(screen[e], e, FreeCode)
  <2>1. Fits(screen[e], e, code)
    BY DEF ReopenInv, CodeInv
  <2>2. \A by \in {"screen", "old"} : FreeCode # Held(e, by)
    BY ReopenAssumption DEF FreeCode, Held
  <2>3. code = Held(e, "screen") => screen[e].ask # "granted" /\ screen[e].link # "up"
    BY DEF Expire, Held
  <2> QED BY <2>1, <2>2, <2>3 DEF Fits
<1>3. CodeInv'
  BY <1>1, <1>2 DEF CodeInv
<1>4. ReopenTypes' /\ ChanInv'
  BY <1>1 DEF ReopenInv, ReopenTypes, ChanInv
<1> QED BY <1>3, <1>4 DEF ReopenInv

(* Who is cut off had no request under way, and none begins.                *)
LEMMA CutoffFacts ==
    ASSUME NEW s \in Screens, NEW u \in Cutoff(s)
    PROVE  /\ u \in Screens /\ u.stage \in {"down", "pausing", "failed"} /\ u.ask = s.ask /\ u.old = s.old
           /\ [u EXCEPT !.tries = 0] \in Screens
           /\ [u EXCEPT !.tries = 0].stage = u.stage
           /\ [u EXCEPT !.tries = 0].ask = s.ask /\ [u EXCEPT !.tries = 0].old = s.old
<1>1. PICK stage \in {"down", "pausing", "failed"} : u = [s EXCEPT !.stage = stage]
  BY DEF Cutoff
<1> QED BY <1>1 DEF Screens, Stages

LEMMA CutoffFits ==
    ASSUME NEW e \in Owners, NEW k, NEW s \in Screens, NEW u, Fits(s, e, k),
           s.stage \in {"greeting", "guest"}, u.stage \in {"down", "pausing", "failed"},
           u.ask = s.ask, u.old = s.old
    PROVE  Fits(u, e, k)
BY DEF Fits

(* A host whose guests all lose their channels, and who hosts no more.      *)
LEMMA CutKeeps ==
    ASSUME ReopenInv, NEW d \in Owners, NEW s \in Screens, Cut(d, s), visit' \in ReopenConf,
           s.stage \notin {"greeting", "guest"}, Fits(s, d, code'),
           code' = code \/ (code \in Keeps(d) /\ code' \in Keeps(d))
    PROVE  ReopenInv'
<1> DEFINE others == GuestsOf(d)
<1>1. /\ chans' = [e \in Owners |-> IF e \in others \cup {d} THEN NoChan ELSE chans[e]]
      /\ unheard' = unheard \cup Deaf(others \cup {d})
      /\ hosted' = [hosted EXCEPT ![d] = << >>] /\ copies' = copies
  BY DEF Cut, Close
<1>2. PICK after :
         /\ \A g \in others : after[g] \in Cutoff(screen[g])
         /\ screen' = [e \in Owners |-> IF e = d THEN s
                                        ELSE IF e \in others THEN after[e] ELSE screen[e]]
  BY DEF Cut
<1>3. \A e \in Owners : screen[e] \in Screens /\ Fits(screen[e], e, code) /\ chans[e] \in Chan
  BY DEF ReopenInv, ReopenTypes, CodeInv
<1>4. others \subseteq Owners /\ \A e \in Owners : e \in others <=> chans[e].host = d
  BY DEF GuestsOf
<1>5. \A e \in others : screen[e].stage \in {"greeting", "guest"}
  BY <1>4, ReopenAssumption DEF ReopenInv, ChanInv
<1>6. d \notin others
  BY <1>4, <1>5 DEF ReopenInv, ChanInv
<1> HIDE DEF others
<1>7. \A e \in others : /\ screen'[e] \in Screens /\ screen'[e].stage \in {"down", "pausing", "failed"}
                        /\ screen'[e].ask = screen[e].ask /\ screen'[e].old = screen[e].old
  <2> SUFFICES ASSUME NEW e \in others
               PROVE  /\ screen'[e] \in Screens /\ screen'[e].stage \in {"down", "pausing", "failed"}
                      /\ screen'[e].ask = screen[e].ask /\ screen'[e].old = screen[e].old
    OBVIOUS
  <2>1. screen'[e] = after[e] /\ after[e] \in Cutoff(screen[e]) /\ screen[e] \in Screens
    BY <1>2, <1>3, <1>4, <1>6
  <2> QED BY <2>1, CutoffFacts
<1>8. screen'[d] = s /\ \A e \in Owners \ (others \cup {d}) : screen'[e] = screen[e]
  BY <1>2
<1>9. CodeInv'
  <2>1. ASSUME NEW e \in Owners, e # d PROVE Fits(screen[e], e, code')
    <3>1. CASE code' = code
      BY <1>3, <3>1
    <3>2. CASE code \in Keeps(d) /\ code' \in Keeps(d)
      <4>1. \A by : code # Held(e, by) /\ code' # Held(e, by)
        BY <2>1, <3>2, ReopenAssumption DEF Keeps, FreeCode, Held
      <4> QED BY <1>3, <4>1 DEF Fits
    <3> QED BY <3>1, <3>2
  <2>2. ASSUME NEW e \in Owners PROVE Fits(screen'[e], e, code')
    <3>1. CASE e = d
      BY <1>8, <3>1
    <3>2. CASE e \in others
      BY <1>3, <1>5, <1>6, <1>7, <2>1, <3>2, CutoffFits
    <3>3. CASE e \in Owners \ (others \cup {d})
      BY <1>8, <2>1, <3>3
    <3> QED BY <3>1, <3>2, <3>3
  <2> QED BY <2>2 DEF CodeInv
<1>10. ReopenTypes'
  <2>1. screen' \in [Owners -> Screens]
    <3>1. \A e \in Owners : screen'[e] \in Screens
      BY <1>3, <1>7, <1>8
    <3> QED BY <1>2, <3>1
  <2>2. chans' \in [Owners -> Chan]
    <3>1. NoChan \in Chan
      BY DEF NoChan, Chan
    <3> QED BY <1>1, <1>3, <3>1
  <2>3. hosted' \in [Owners -> Log]
    <3>1. hosted \in [Owners -> Log]
      BY DEF ReopenInv, ReopenTypes
    <3>2. << >> \in Log
      BY DEF Log
    <3> QED BY <1>1, <3>1, <3>2
  <2>4. unheard' \subseteq Owners
    BY <1>1, <1>4 DEF Deaf, ReopenInv, ReopenTypes
  <2>5. code' \in {FreeCode} \cup {Held(e, by) : e \in Owners, by \in {"screen", "old", "gone"}}
    BY DEF ReopenInv, ReopenTypes, Keeps
  <2>6. copies' \in [Owners -> Log]
    BY <1>1 DEF ReopenInv, ReopenTypes
  <2> QED BY <2>1, <2>2, <2>3, <2>4, <2>5, <2>6 DEF ReopenTypes
<1>11. ChanInv'
  <2>1. ASSUME NEW e \in Owners
        PROVE  /\ chans'[e].host # Nowhere <=> screen'[e].stage \in {"greeting", "guest"}
               /\ chans'[e].host = Nowhere => chans'[e] = NoChan
               /\ chans'[e].host \in Owners => screen'[chans'[e].host].stage = "host"
    <3>1. CASE e \in others \cup {d}
      <4>1. chans'[e] = NoChan /\ screen'[e].stage \notin {"greeting", "guest"}
        BY <1>1, <1>7, <1>8, <3>1
      <4> QED BY <4>1, ReopenAssumption DEF NoChan
    <3>2. CASE e \notin others \cup {d}
      <4>1. chans'[e] = chans[e] /\ screen'[e] = screen[e] /\ chans[e].host # d
        BY <1>1, <1>4, <1>8, <3>2
      <4>2. /\ chans[e].host # Nowhere <=> screen[e].stage \in {"greeting", "guest"}
            /\ chans[e].host = Nowhere => chans[e] = NoChan
            /\ chans[e].host \in Owners => screen[chans[e].host].stage = "host"
        BY DEF ReopenInv, ChanInv
      <4>3. chans[e].host \in Owners => screen'[chans[e].host] = screen[chans[e].host]
        BY <1>5, <1>8, <4>1, <4>2
      <4> QED BY <4>1, <4>2, <4>3
    <3> QED BY <3>1, <3>2
  <2> QED BY <2>1 DEF ChanInv
<1> QED BY <1>9, <1>10, <1>11 DEF ReopenInv

LEMMA LeavesStep ==
    ASSUME ReopenInv, NEW d \in Owners,
           Killed(d) \/ Ousted(d) \/ \E again \in BOOLEAN : Abort(d, again)
    PROVE  ReopenInv'
<1>1. screen[d] \in Screens /\ Fits(screen[d], d, code) /\ visit \in ReopenConf
  BY DEF ReopenInv, ReopenTypes, CodeInv
<1>2. /\ Held(d, "screen") # FreeCode /\ Held(d, "old") # FreeCode /\ Held(d, "gone") # FreeCode
      /\ Held(d, "screen") # Held(d, "old") /\ Held(d, "screen") # Held(d, "gone")
      /\ Held(d, "old") # Held(d, "gone")
  BY ReopenAssumption DEF Held, FreeCode
<1>3. ASSUME NEW s \in Screens, Dispose(d, s), visit' \in ReopenConf, s.old = screen[d].old,
             s.stage \in {"asking", "away", "ousted"}, s.ask \in {"none", "asked"},
             s.stage \in {"away", "ousted"} => s.ask = "none"
      PROVE  ReopenInv'
  <2>1. Cut(d, s) /\ code' = Released(d)
    BY <1>3 DEF Dispose
  <2>2. code' = code \/ (code \in Keeps(d) /\ code' \in Keeps(d))
    BY <2>1 DEF Released, Keeps
  <2>3. code' # Held(d, "screen") /\ (code' = Held(d, "old") => code = Held(d, "old"))
    BY <1>2, <2>1 DEF Released
  <2>4. Fits(s, d, code')
    BY <1>1, <1>3, <2>3 DEF Fits
  <2> QED BY <1>3, <2>1, <2>2, <2>4, CutKeeps
<1>4. CASE Killed(d)
  <2> DEFINE s == Screen("away")
  <2>1. visit' \in ReopenConf
    BY <1>4, VisitSpent DEF Killed, ReopenInv
  <2>2. Cut(d, s) /\ code' = IF code.of = d THEN Held(d, "gone") ELSE code
    BY <1>4 DEF Killed
  <2>3. s \in Screens /\ s.stage = "away" /\ s.ask = "none" /\ s.old = "none"
    BY DEF Screen, Screens, Stages, Asks
  <2>4. code.of = d => code \in Keeps(d)
    BY ReopenAssumption DEF ReopenInv, ReopenTypes, Keeps, Held, FreeCode
  <2>5. Held(d, "gone") \in Keeps(d)
    BY DEF Keeps
  <2>6. code' # Held(d, "screen") /\ code' # Held(d, "old")
    BY <1>2, <2>2 DEF Held
  <2> HIDE DEF s
  <2>7. Fits(s, d, code')
    BY <2>3, <2>6 DEF Fits
  <2> QED BY <2>1, <2>2, <2>3, <2>4, <2>5, <2>7, CutKeeps
<1>5. CASE Ousted(d)
  <2> DEFINE s == [Screen("ousted") EXCEPT !.old = screen[d].old]
  <2>1. Dispose(d, s) /\ visit' = visit
    BY <1>5 DEF Ousted
  <2>2. s \in Screens
    BY <1>1, ScreenParts DEF Stages, Screens
  <2>3. s.stage = "ousted" /\ s.ask = "none" /\ s.old = screen[d].old
    BY DEF Screen
  <2> HIDE DEF s
  <2> QED BY <1>1, <1>3, <2>1, <2>2, <2>3
<1>6. ASSUME NEW again \in BOOLEAN, Abort(d, again) PROVE ReopenInv'
  <2> DEFINE old == Aborted(screen[d])
             next == IF again THEN Flow([screen[d] EXCEPT !.old = old])
                     ELSE [Screen("away") EXCEPT !.old = old]
  <2>1. visit' \in ReopenConf
    BY <1>6, VisitSpent DEF Abort, ReopenInv
  <2>2. /\ screen[d].stage = "asking" => screen[d].old = "none"
        /\ IF screen[d].stage = "asking"
           THEN /\ Set(d, next) /\ UNCHANGED <<copies, hosted, chans, unheard>>
                /\ code' = IF code = Held(d, "screen") THEN Held(d, "old") ELSE code
           ELSE Dispose(d, next)
    BY <1>6 DEF Abort
  <2>3. old \in Asks
    BY <1>1 DEF Aborted, Screens
  <2>4. old = IF screen[d].stage = "asking" THEN screen[d].ask ELSE screen[d].old
    BY DEF Aborted
  <2> HIDE DEF old
  <2>5. /\ next \in Screens /\ next.old = old /\ next.ask \in {"none", "asked"}
        /\ next.stage \in {"asking", "away"} /\ (next.stage = "away" => next.ask = "none")
    <3>1. CASE again
      <4> DEFINE u == [screen[d] EXCEPT !.old = old]
      <4>1. u.old = old
        BY <1>1 DEF Screens
      <4> HIDE DEF u
      <4>2. Flow(u) \in Screens /\ Flow(u).stage = "asking" /\ Flow(u).ask = "asked" /\ Flow(u).old = old
        BY <2>3, <4>1, FlowFacts
      <4>3. next = Flow(u)
        BY <3>1 DEF u
      <4> QED BY <4>2, <4>3
    <3>2. CASE ~again
      <4>1. next = [Screen("away") EXCEPT !.old = old]
        BY <3>2
      <4>2. Screen("away") \in Screens /\ Screen("away").stage = "away" /\ Screen("away").ask = "none"
        BY ScreenParts DEF Screen, Stages
      <4>3. [Screen("away") EXCEPT !.old = old] \in Screens
        BY <2>3, <4>2, ScreenParts
      <4> QED BY <4>1, <4>2, <4>3 DEF Screens
    <3> QED BY <3>1, <3>2
  <2> HIDE DEF next
  <2>6. CASE screen[d].stage = "asking"
    <3>1. code' = code \/ (code \in Keeps(d) /\ code' \in Keeps(d))
      BY <2>2, <2>6 DEF Keeps
    <3>2. Fits(next, d, code')
      BY <1>1, <1>2, <2>2, <2>4, <2>5, <2>6 DEF Fits
    <3> QED BY <2>1, <2>2, <2>5, <2>6, <3>1, <3>2, ScreenAlone
  <2>7. CASE screen[d].stage # "asking"
    BY <1>3, <2>1, <2>2, <2>4, <2>5, <2>7
  <2> QED BY <2>6, <2>7
<1> QED BY <1>4, <1>5, <1>6

(* Channels come and go.                                                    *)
LEMMA ConnectsStep ==
    ASSUME ReopenInv, NEW d \in Owners, Connects(d) PROVE ReopenInv'
<1> DEFINE h == code.of
           s == [screen[d] EXCEPT !.stage = "greeting"]
           c == [NoChan EXCEPT !.host = h, !.up = <<[kind |-> "hello", log |-> copies[d]]>>]
<1>1. /\ screen[d].stage = "joining" /\ code.by = "screen" /\ h # d /\ screen[h].stage = "host"
      /\ chans' = [chans EXCEPT ![d] = c] /\ Set(d, s)
      /\ UNCHANGED <<visit, copies, hosted, code, unheard>>
  BY DEF Connects, At
<1>2. /\ screen[d] \in Screens /\ Fits(screen[d], d, code) /\ chans \in [Owners -> Chan]
      /\ copies[d] \in Log
  BY DEF ReopenInv, ReopenTypes, CodeInv
<1>3. h \in Owners
  BY <1>1 DEF ReopenInv, ReopenTypes, FreeCode, Held
<1>4. c \in Chan /\ c.host = h
  <2>1. [kind |-> "hello", log |-> copies[d]] \in Offer
    BY <1>2 DEF Offer
  <2>2. <<[kind |-> "hello", log |-> copies[d]]>> \in Seq(Offer)
    BY <2>1
  <2>3. << >> \in Seq(Log)
    OBVIOUS
  <2> HIDE DEF h
  <2> QED BY <1>3, <2>2, <2>3 DEF NoChan, Chan
<1>5. /\ s \in Screens /\ s.stage = "greeting" /\ s.ask = screen[d].ask /\ s.old = screen[d].old
  BY <1>2 DEF Screens, Stages
<1> HIDE DEF h, s, c
<1>6. Fits(s, d, code')
  BY <1>1, <1>2, <1>5 DEF Fits
<1>7. CodeInv' /\ screen' \in [Owners -> Screens] /\ screen'[d] = s
      /\ \A e \in Owners : e # d => screen'[e] = screen[e]
  BY <1>1, <1>5, <1>6, ScreenMoves
<1>8. ReopenTypes'
  <2>1. chans' \in [Owners -> Chan]
    BY <1>1, <1>2, <1>4
  <2> QED BY <1>1, <1>7, <2>1 DEF ReopenInv, ReopenTypes
<1>9. ChanInv'
  <2>1. chans'[d] = c /\ \A e \in Owners : e # d => chans'[e] = chans[e]
    BY <1>1, <1>2
  <2>2. ASSUME NEW e \in Owners
        PROVE  /\ chans'[e].host # Nowhere <=> screen'[e].stage \in {"greeting", "guest"}
               /\ chans'[e].host = Nowhere => chans'[e] = NoChan
               /\ chans'[e].host \in Owners => screen'[chans'[e].host].stage = "host"
    <3>1. CASE e = d
      BY <1>1, <1>3, <1>4, <1>5, <1>7, <2>1, <3>1, ReopenAssumption
    <3>2. CASE e # d
      BY <1>1, <1>7, <2>1, <3>2 DEF ReopenInv, ChanInv
    <3> QED BY <3>1, <3>2
  <2> QED BY <2>2 DEF ChanInv
<1> QED BY <1>7, <1>8, <1>9 DEF ReopenInv

LEMMA BreaksStep ==
    ASSUME ReopenInv, NEW d \in Owners, Breaks(d) PROVE ReopenInv'
<1>1. /\ chans[d].host # Nowhere /\ visit' \in ReopenConf /\ UNCHANGED <<copies, hosted, code>>
      /\ chans' = [e \in Owners |-> IF e \in {d} THEN NoChan ELSE chans[e]]
      /\ unheard' = unheard \cup Deaf({d})
  BY VisitSpent DEF Breaks, Close, ReopenInv
<1>2. /\ screen[d] \in Screens /\ Fits(screen[d], d, code) /\ chans \in [Owners -> Chan]
      /\ screen[d].stage \in {"greeting", "guest"}
  BY <1>1 DEF ReopenInv, ReopenTypes, CodeInv, ChanInv
<1>3. PICK u \in Cutoff(screen[d]) : Set(d, [u EXCEPT !.tries = 0])
  BY DEF Breaks
<1> DEFINE s == [u EXCEPT !.tries = 0]
<1>4. /\ s \in Screens /\ s.stage \in {"down", "pausing", "failed"} /\ s.ask = screen[d].ask
      /\ s.old = screen[d].old
  BY <1>2, CutoffFacts
<1>5. Set(d, s)
  BY <1>3
<1> HIDE DEF s
<1>6. Fits(s, d, code')
  BY <1>1, <1>2, <1>4, CutoffFits
<1>7. CodeInv' /\ screen' \in [Owners -> Screens] /\ screen'[d] = s
      /\ \A e \in Owners : e # d => screen'[e] = screen[e]
  BY <1>1, <1>4, <1>5, <1>6, ScreenMoves
<1>8. ReopenTypes'
  <2>1. chans' \in [Owners -> Chan]
    <3>1. NoChan \in Chan
      BY DEF NoChan, Chan
    <3> QED BY <1>1, <1>2, <3>1
  <2>2. unheard' \subseteq Owners
    BY <1>1 DEF Deaf, ReopenInv, ReopenTypes
  <2> QED BY <1>1, <1>7, <2>1, <2>2 DEF ReopenInv, ReopenTypes
<1>9. ChanInv'
  <2>1. chans'[d] = NoChan /\ \A e \in Owners : e # d => chans'[e] = chans[e]
    BY <1>1
  <2>2. ASSUME NEW e \in Owners
        PROVE  /\ chans'[e].host # Nowhere <=> screen'[e].stage \in {"greeting", "guest"}
               /\ chans'[e].host = Nowhere => chans'[e] = NoChan
               /\ chans'[e].host \in Owners => screen'[chans'[e].host].stage = "host"
    <3>1. CASE e = d
      BY <1>4, <1>7, <2>1, <3>1, ReopenAssumption DEF NoChan
    <3>2. CASE e # d
      BY <1>2, <1>7, <2>1, <3>2 DEF ReopenInv, ChanInv
    <3> QED BY <3>1, <3>2
  <2> QED BY <2>2 DEF ChanInv
<1> QED BY <1>7, <1>8, <1>9 DEF ReopenInv

LEMMA HearsStep ==
    ASSUME ReopenInv, NEW d \in Owners, Hears(d) PROVE ReopenInv'
<1> DEFINE s == [screen[d] EXCEPT !.stage = "guest", !.tries = 0]
           c == [chans[d] EXCEPT !.down = Tail(@)]
<1>1. /\ chans[d].down # << >> /\ copies' = [copies EXCEPT ![d] = Head(chans[d].down)]
      /\ chans' = [chans EXCEPT ![d].down = Tail(@)]
      /\ Set(d, s) /\ UNCHANGED <<visit, hosted, code, unheard>>
  BY DEF Hears
<1>2. /\ screen[d] \in Screens /\ Fits(screen[d], d, code) /\ chans \in [Owners -> Chan]
      /\ copies \in [Owners -> Log]
  BY DEF ReopenInv, ReopenTypes, CodeInv
<1>3. chans[d].host # Nowhere /\ screen[d].stage \in {"greeting", "guest"}
  BY <1>1 DEF ReopenInv, ChanInv, NoChan
<1>4. /\ s \in Screens /\ s.stage = "guest" /\ s.ask = screen[d].ask /\ s.old = screen[d].old
  BY <1>2 DEF Screens, Stages
<1>5. chans[d].down \in Seq(Log) /\ Tail(chans[d].down) \in Seq(Log) /\ Head(chans[d].down) \in Log
  BY <1>1, <1>2 DEF Chan
<1>6. c \in Chan /\ c.host = chans[d].host
  BY <1>2, <1>5 DEF Chan
<1>7. chans' = [chans EXCEPT ![d] = c]
  BY <1>1
<1> HIDE DEF s, c
<1>8. Fits(s, d, code')
  BY <1>1, <1>2, <1>3, <1>4 DEF Fits
<1>9. CodeInv' /\ screen' \in [Owners -> Screens] /\ screen'[d] = s
      /\ \A e \in Owners : e # d => screen'[e] = screen[e]
  BY <1>1, <1>4, <1>8, ScreenMoves
<1>10. chans'[d] = c /\ \A e \in Owners : e # d => chans'[e] = chans[e]
  BY <1>2, <1>7
<1>11. ReopenTypes'
  <2>1. chans' \in [Owners -> Chan]
    BY <1>2, <1>6, <1>7
  <2>2. copies' \in [Owners -> Log]
    BY <1>1, <1>2, <1>5
  <2> QED BY <1>1, <1>9, <2>1, <2>2 DEF ReopenInv, ReopenTypes
<1>12. ChanInv'
  <2>1. ASSUME NEW e \in Owners
        PROVE  /\ chans'[e].host # Nowhere <=> screen'[e].stage \in {"greeting", "guest"}
               /\ chans'[e].host = Nowhere => chans'[e] = NoChan
               /\ chans'[e].host \in Owners => screen'[chans'[e].host].stage = "host"
    <3>1. chans'[e].host = chans[e].host /\ (chans[e].host = Nowhere => chans'[e] = chans[e])
      BY <1>3, <1>6, <1>10
    <3>2. screen'[e].stage \in {"greeting", "guest"} <=> screen[e].stage \in {"greeting", "guest"}
      BY <1>3, <1>4, <1>9
    <3>3. chans[e].host \in Owners => screen'[chans[e].host].stage = "host"
      BY <1>3, <1>9 DEF ReopenInv, ChanInv
    <3> QED BY <3>1, <3>2, <3>3 DEF ReopenInv, ChanInv
  <2> QED BY <2>1 DEF ChanInv
<1> QED BY <1>9, <1>11, <1>12 DEF ReopenInv

(* At the table screens, the code and who is whose guest stay as they are.  *)
LEMMA TableOnly ==
    ASSUME ReopenInv, UNCHANGED <<screen, code, unheard>>, visit' \in ReopenConf,
           copies' \in [Owners -> Log], hosted' \in [Owners -> Log], chans' \in [Owners -> Chan],
           \A e \in Owners : /\ chans'[e].host = chans[e].host
                             /\ chans[e].host = Nowhere => chans'[e] = chans[e]
    PROVE  ReopenInv'
<1>1. ReopenTypes' /\ CodeInv'
  BY DEF ReopenInv, ReopenTypes, CodeInv
<1>2. ChanInv'
  <2>1. ASSUME NEW e \in Owners
        PROVE  /\ chans'[e].host # Nowhere <=> screen[e].stage \in {"greeting", "guest"}
               /\ chans'[e].host = Nowhere => chans'[e] = NoChan
               /\ chans'[e].host \in Owners => screen[chans'[e].host].stage = "host"
    BY DEF ReopenInv, ChanInv
  <2> QED BY <2>1 DEF ChanInv
<1> QED BY <1>1, <1>2 DEF ReopenInv

LEMMA Grown ==
    ASSUME NEW log \in Log, NEW p \in Owners, NEW next \in Owners, visit.actions \in Nat
    PROVE  Append(log, NewAction(p, next)) \in Log
<1>1. NewAction(p, next) \in [by : Owners, next : Owners, id : Nat]
  BY DEF NewAction
<1> QED BY <1>1 DEF Log

(* A channel that is told of a table.                                       *)
LEMMA Told ==
    ASSUME NEW c \in Chan, NEW log \in Log
    PROVE  /\ [c EXCEPT !.down = Append(@, log)] \in Chan
           /\ [c EXCEPT !.down = Append(@, log)].host = c.host
<1>1. c.down \in Seq(Log) /\ Append(c.down, log) \in Seq(Log)
  BY DEF Chan
<1> QED BY <1>1 DEF Chan

LEMMA ActsStep ==
    ASSUME ReopenInv, NEW d \in Owners, HostActs(d) \/ GuestActs(d) PROVE ReopenInv'
<1>1. /\ visit \in ReopenConf /\ copies \in [Owners -> Log] /\ hosted \in [Owners -> Log]
      /\ chans \in [Owners -> Chan]
  BY DEF ReopenInv, ReopenTypes
<1>2. CASE HostActs(d)
  <2>1. PICK next \in Owners : Announce(d, Append(hosted[d], NewAction(d, next)), d)
    BY <1>2 DEF HostActs
  <2> DEFINE log == Append(hosted[d], NewAction(d, next))
             guests == {e \in GuestsOf(d) \ {d} : chans[e].seated}
  <2>2. log \in Log
    BY <1>1, Grown DEF ReopenConf
  <2>3. Announce(d, log, d)
    BY <2>1
  <2> HIDE DEF log
  <2>4. /\ hosted' = [hosted EXCEPT ![d] = log] /\ copies' = [copies EXCEPT ![d] = log]
        /\ chans' = [e \in Owners |-> IF e \in guests THEN [chans[e] EXCEPT !.down = Append(@, log)]
                                      ELSE chans[e]]
    BY <2>3 DEF Announce
  <2>5. visit' \in ReopenConf /\ UNCHANGED <<screen, code, unheard>>
    BY <1>2, VisitSpent DEF HostActs, ReopenInv
  <2>6. \A e \in guests : chans[e].host = d
    BY DEF GuestsOf
  <2> HIDE DEF guests
  <2>7. ASSUME NEW e \in Owners
        PROVE  /\ chans'[e] \in Chan /\ chans'[e].host = chans[e].host
               /\ chans[e].host = Nowhere => chans'[e] = chans[e]
    <3>1. CASE e \in guests
      <4>1. chans'[e] = [chans[e] EXCEPT !.down = Append(@, log)] /\ chans[e] \in Chan
        BY <1>1, <2>4, <3>1
      <4> QED BY <2>2, <2>6, <3>1, <4>1, Told, ReopenAssumption
    <3>2. CASE e \notin guests
      BY <1>1, <2>4, <3>2
    <3> QED BY <3>1, <3>2
  <2>8. copies' \in [Owners -> Log] /\ hosted' \in [Owners -> Log] /\ chans' \in [Owners -> Chan]
    BY <1>1, <2>2, <2>4, <2>7
  <2> QED BY <2>5, <2>7, <2>8, TableOnly
<1>3. CASE GuestActs(d)
  <2>1. PICK next \in Owners :
           chans' = [chans EXCEPT ![d].up = <<[kind |-> "command", next |-> next]>>]
    BY <1>3 DEF GuestActs
  <2>2. screen[d].stage = "guest" /\ UNCHANGED <<visit, screen, copies, hosted, code, unheard>>
    BY <1>3 DEF GuestActs, At
  <2> DEFINE c == [chans[d] EXCEPT !.up = <<[kind |-> "command", next |-> next]>>]
  <2>3. c \in Chan /\ c.host = chans[d].host
    <3>1. [kind |-> "command", next |-> next] \in Offer
      BY DEF Offer
    <3>2. <<[kind |-> "command", next |-> next]>> \in Seq(Offer)
      BY <3>1
    <3> QED BY <1>1, <3>2 DEF Chan
  <2>4. chans' = [chans EXCEPT ![d] = c]
    BY <2>1
  <2> HIDE DEF c
  <2>5. chans[d].host # Nowhere
    BY <2>2 DEF ReopenInv, ChanInv
  <2>6. chans' \in [Owners -> Chan]
    BY <1>1, <2>3, <2>4
  <2>7. visit' \in ReopenConf /\ copies' \in [Owners -> Log] /\ hosted' \in [Owners -> Log]
    BY <1>1, <2>2
  <2>8. ASSUME NEW e \in Owners
        PROVE  /\ chans'[e].host = chans[e].host
               /\ chans[e].host = Nowhere => chans'[e] = chans[e]
    BY <1>1, <2>3, <2>4, <2>5
  <2>9. UNCHANGED <<screen, code, unheard>>
    BY <2>2
  <2> QED BY <2>6, <2>7, <2>8, <2>9, TableOnly
<1> QED BY <1>2, <1>3

LEMMA GreetsStep ==
    ASSUME ReopenInv, NEW h \in Owners, NEW d \in Owners, Greets(h, d) PROVE ReopenInv'
<1>1. /\ visit \in ReopenConf /\ copies \in [Owners -> Log] /\ hosted \in [Owners -> Log]
      /\ chans \in [Owners -> Chan]
  BY DEF ReopenInv, ReopenTypes
<1> DEFINE hello == Head(chans[d].up)
           log == IF Adopts(hosted[h], hello.log) THEN hello.log ELSE hosted[h]
           c == [chans[d] EXCEPT !.seated = TRUE, !.up = Tail(@), !.down = <<log>>]
           told == {e \in GuestsOf(h) : chans[e].seated /\ log # hosted[h]}
<1>2. /\ chans[d].host = h /\ chans[d].up # << >> /\ hello.kind = "hello"
      /\ hosted' = [hosted EXCEPT ![h] = log] /\ copies' = [copies EXCEPT ![h] = log]
      /\ chans' = [e \in Owners |->
            IF e = d THEN [chans[e] EXCEPT !.seated = TRUE, !.up = Tail(@), !.down = <<log>>]
            ELSE IF e \in told THEN [chans[e] EXCEPT !.down = Append(@, log)] ELSE chans[e]]
      /\ UNCHANGED <<visit, screen, code, unheard>>
  BY DEF Greets, GuestsOf
<1>3. chans[d].up \in Seq(Offer) /\ hello \in Offer /\ Tail(chans[d].up) \in Seq(Offer)
  <2>1. chans[d].up \in Seq(Offer)
    BY <1>1 DEF Chan
  <2>2. chans[d].up # << >>
    BY <1>2
  <2> QED BY <2>1, <2>2
<1> HIDE DEF hello
<1>4. log \in Log
  BY <1>1, <1>2, <1>3 DEF Offer
<1> HIDE DEF log
<1>5. c \in Chan /\ c.host = chans[d].host
  <2>1. <<log>> \in Seq(Log)
    BY <1>4
  <2> QED BY <1>1, <1>3, <2>1 DEF Chan
<1>6. chans'[d] = c
  BY <1>2
<1> HIDE DEF c
<1>7. \A e \in told : chans[e].host = h
  BY DEF GuestsOf
<1> HIDE DEF told
<1>8. ASSUME NEW e \in Owners
      PROVE  /\ chans'[e] \in Chan /\ chans'[e].host = chans[e].host
             /\ chans[e].host = Nowhere => chans'[e] = chans[e]
  <2>1. CASE e = d
    BY <1>2, <1>5, <1>6, <2>1, ReopenAssumption
  <2>2. CASE e # d /\ e \in told
    <3>1. chans'[e] = [chans[e] EXCEPT !.down = Append(@, log)] /\ chans[e] \in Chan
      BY <1>1, <1>2, <2>2
    <3> QED BY <1>4, <1>7, <2>2, <3>1, Told, ReopenAssumption
  <2>3. CASE e # d /\ e \notin told
    BY <1>1, <1>2, <2>3
  <2> QED BY <2>1, <2>2, <2>3
<1>9. copies' \in [Owners -> Log] /\ hosted' \in [Owners -> Log] /\ chans' \in [Owners -> Chan]
  BY <1>1, <1>2, <1>4, <1>8
<1> QED BY <1>1, <1>2, <1>8, <1>9, TableOnly

LEMMA ExecutesStep ==
    ASSUME ReopenInv, NEW h \in Owners, NEW d \in Owners, Executes(h, d) PROVE ReopenInv'
<1>1. /\ visit \in ReopenConf /\ copies \in [Owners -> Log] /\ hosted \in [Owners -> Log]
      /\ chans \in [Owners -> Chan]
  BY DEF ReopenInv, ReopenTypes
<1> DEFINE cmd == Head(chans[d].up)
           log == Append(hosted[h], NewAction(d, cmd.next))
<1>2. /\ chans[d].host = h /\ chans[d].up # << >> /\ cmd.kind = "command"
      /\ UNCHANGED <<screen, code, unheard>>
  BY DEF Executes, GuestsOf
<1>3. chans[d].up \in Seq(Offer) /\ cmd \in Offer /\ Tail(chans[d].up) \in Seq(Offer)
  BY <1>1, <1>2 DEF Chan
<1>4. cmd.next \in Owners
  BY <1>2, <1>3 DEF Offer
<1>5. log \in Log
  <2> HIDE DEF cmd
  <2> QED BY <1>1, <1>4, Grown DEF ReopenConf
<1>6. CASE ToAct(hosted[h]) = d
  <2> DEFINE guests == {e \in GuestsOf(h) : chans[e].seated}
  <2>1. /\ Spend("actions")
        /\ hosted' = [hosted EXCEPT ![h] = log] /\ copies' = [copies EXCEPT ![h] = log]
        /\ chans' = [e \in Owners |->
              IF e \notin GuestsOf(h) \/ ~chans[e].seated THEN chans[e]
              ELSE [chans[e] EXCEPT !.up = IF e = d THEN Tail(@) ELSE @, !.down = Append(@, log)]]
    BY <1>6 DEF Executes
  <2> HIDE DEF cmd, log
  <2>2. visit' \in ReopenConf
    BY <2>1, VisitSpent DEF ReopenInv
  <2>3. ASSUME NEW e \in Owners
        PROVE  /\ chans'[e] \in Chan /\ chans'[e].host = chans[e].host
               /\ chans[e].host = Nowhere => chans'[e] = chans[e]
    <3>1. CASE e \notin GuestsOf(h) \/ ~chans[e].seated
      BY <1>1, <2>1, <3>1
    <3>2. CASE e \in GuestsOf(h) /\ chans[e].seated
      <4>1. chans'[e] = [chans[e] EXCEPT !.up = IF e = d THEN Tail(@) ELSE @, !.down = Append(@, log)]
        BY <2>1, <3>2
      <4>2. chans[e] \in Chan /\ chans[e].down \in Seq(Log) /\ Append(chans[e].down, log) \in Seq(Log)
        BY <1>1, <1>5 DEF Chan
      <4> DEFINE up == IF e = d THEN Tail(chans[e].up) ELSE chans[e].up
      <4>3. up \in Seq(Offer)
        BY <1>3, <4>2 DEF Chan
      <4>4. chans'[e] = [chans[e] EXCEPT !.up = up, !.down = Append(@, log)]
        BY <4>1
      <4>5. chans[e].host = h
        BY <3>2 DEF GuestsOf
      <4> HIDE DEF up
      <4>6. chans'[e] \in Chan /\ chans'[e].host = chans[e].host
        BY <4>2, <4>3, <4>4 DEF Chan
      <4> QED BY <4>5, <4>6, ReopenAssumption
    <3> QED BY <3>1, <3>2
  <2>4. copies' \in [Owners -> Log] /\ hosted' \in [Owners -> Log] /\ chans' \in [Owners -> Chan]
    BY <1>1, <1>5, <2>1, <2>3
  <2> QED BY <1>2, <2>2, <2>3, <2>4, TableOnly
<1>7. CASE ToAct(hosted[h]) # d
  <2> DEFINE c == [chans[d] EXCEPT !.up = Tail(@)]
  <2>1. chans' = [chans EXCEPT ![d] = c] /\ UNCHANGED <<visit, hosted, copies>>
    BY <1>7 DEF Executes
  <2>2. c \in Chan /\ c.host = chans[d].host
    BY <1>1, <1>3 DEF Chan
  <2> HIDE DEF c, cmd
  <2>3. chans' \in [Owners -> Chan]
    BY <1>1, <2>1, <2>2
  <2>4. visit' \in ReopenConf /\ copies' \in [Owners -> Log] /\ hosted' \in [Owners -> Log]
    BY <1>1, <2>1
  <2>5. ASSUME NEW e \in Owners
        PROVE  /\ chans'[e].host = chans[e].host
               /\ chans[e].host = Nowhere => chans'[e] = chans[e]
    BY <1>1, <1>2, <2>1, <2>2, ReopenAssumption
  <2>6. UNCHANGED <<screen, code, unheard>>
    BY <1>2
  <2> QED BY <2>3, <2>4, <2>5, <2>6, TableOnly
<1> QED BY <1>6, <1>7

LEMMA ReopenStarts == ReopenInit => ReopenInv
<1> SUFFICES ASSUME ReopenInit PROVE ReopenInv
  OBVIOUS
<1>1. Screen("away") \in Screens
  BY ScreenParts DEF Stages
<1>2. NoChan \in Chan /\ << >> \in Log
  BY DEF NoChan, Chan, Log
<1>3. ReopenTypes
  BY <1>1, <1>2, ReopenAssumption DEF ReopenInit, ReopenTypes
<1>4. ChanInv
  BY ReopenAssumption DEF ReopenInit, ChanInv, NoChan, Screen
<1>5. CodeInv
  BY ReopenAssumption DEF ReopenInit, CodeInv, Fits, Screen, FreeCode, Held
<1> QED BY <1>3, <1>4, <1>5 DEF ReopenInv

LEMMA ReopenSteps == ReopenInv /\ [ReopenNext]_reopenVars => ReopenInv'
<1> SUFFICES ASSUME ReopenInv, [ReopenNext]_reopenVars PROVE ReopenInv'
  OBVIOUS
<1>1. CASE Expire
  BY <1>1, ExpireStep
<1>2. ASSUME NEW d \in Owners, OpenScreen(d) \/ Reconnect(d) \/ Resumes(d) PROVE ReopenInv'
  BY <1>2, FlowsStep
<1>3. ASSUME NEW d \in Owners, Killed(d) \/ Ousted(d) \/ \E again \in BOOLEAN : Abort(d, again)
      PROVE  ReopenInv'
  BY <1>3, LeavesStep
<1>4. ASSUME NEW d \in Owners, Register(d) \/ RegisterOld(d) PROVE ReopenInv'
  BY <1>4, RegisterStep
<1>5. ASSUME NEW d \in Owners, OldEnds(d) PROVE ReopenInv'
  BY <1>5, OldEndsStep
<1>6. ASSUME NEW d \in Owners,
             \/ Hosts(d) \/ Taken(d) \/ HostFails(d) \/ JoinFails(d) \/ SocketDrops(d)
             \/ Disconnected(d) \/ Reregister(d) \/ Reregistered(d) \/ NotReregistered(d)
      PROVE  ReopenInv'
  BY <1>6, HostStep
<1>7. ASSUME NEW d \in Owners, Connects(d) PROVE ReopenInv'
  BY <1>7, ConnectsStep
<1>8. ASSUME NEW d \in Owners, Breaks(d) PROVE ReopenInv'
  BY <1>8, BreaksStep
<1>9. ASSUME NEW d \in Owners, HostActs(d) \/ GuestActs(d) PROVE ReopenInv'
  BY <1>9, ActsStep
<1>10. ASSUME NEW d \in Owners, Hears(d) PROVE ReopenInv'
  BY <1>10, HearsStep
<1>11. ASSUME NEW d \in Owners, NEW h \in Owners, Greets(h, d) \/ Executes(h, d) PROVE ReopenInv'
  BY <1>11, GreetsStep, ExecutesStep
<1>12. CASE UNCHANGED reopenVars
  BY <1>12 DEF reopenVars, ReopenInv, ReopenTypes, ChanInv, CodeInv
<1> QED BY <1>1, <1>2, <1>3, <1>4, <1>5, <1>6, <1>7, <1>8, <1>9, <1>10, <1>11, <1>12 DEF ReopenNext

LEMMA HostFoundHolds == ReopenInv => HostFound
<1> SUFFICES ASSUME ReopenInv PROVE HostFound
  OBVIOUS
<1>1. \A d \in Owners : Fits(screen[d], d, code) /\ screen[d] \in Screens
  BY DEF ReopenInv, CodeInv, ReopenTypes
<1>2. code \in {FreeCode} \cup {Held(d, by) : d \in Owners, by \in {"screen", "old", "gone"}}
  BY DEF ReopenInv, ReopenTypes
<1>3. code.by \in {"screen", "old"} => code.of \in Owners /\ code = Held(code.of, code.by)
  BY <1>2 DEF FreeCode, Held
<1>4. code.by = "screen" => At(code.of, {"host"}) \/ screen[code.of].ask = "granted"
  BY <1>1, <1>3 DEF Fits, At
<1>5. code.by = "old" => screen[code.of].old = "granted"
  BY <1>1, <1>3 DEF Fits
<1>6. \A d \in Owners : At(d, {"host"}) /\ code # Held(d, "screen") =>
         screen[d].link = "cut" \/ (screen[d].link = "down" /\ (screen[d].timer \/ screen[d].ask # "none"))
  BY <1>1 DEF Fits, At, Screens
<1> QED BY <1>4, <1>5, <1>6 DEF HostFound

LEMMA ReopenTypesHold == ReopenInv => ReopenTypeOK
<1> SUFFICES ASSUME ReopenInv PROVE ReopenTypeOK
  OBVIOUS
<1>1. \A d \in Owners : /\ screen[d].stage \in Stages /\ {screen[d].ask, screen[d].old} \subseteq Asks
                        /\ chans[d].host # Nowhere <=> At(d, {"greeting", "guest"})
                        /\ chans[d].host \in Owners => At(chans[d].host, {"host"})
  BY DEF ReopenInv, ReopenTypes, ChanInv, Screens, At
<1>2. code.of \in Owners \cup {Nowhere} /\ unheard \subseteq Owners
  BY DEF ReopenInv, ReopenTypes, FreeCode, Held
<1> QED BY <1>1, <1>2 DEF ReopenTypeOK

-----------------------------------------------------------------------------
(* apps/web/src/session and PeerJsListener: whatever players, pages, sockets and
   the signalling server do, copies, screens and channels are of their types, and a
   channel leads to a device that hosts.                                     *)
THEOREM ReopeningTyped == ReopenSpec => []ReopenTypeOK
<1>1. ReopenSpec => []ReopenInv
  BY ReopenStarts, ReopenSteps, PTL DEF ReopenSpec
<1> QED BY <1>1, ReopenTypesHold, PTL

(* retry.ts and PeerJsListener.ts: the room code is held by a device that hosts or is
   about to, by an aborted flow that is still to end, or by a page that is gone; and
   a host without it has not heard that its socket dropped, or asks for it again. *)
THEOREM CodeInHand == ReopenSpec => []HostFound
<1>1. ReopenSpec => []ReopenInv
  BY ReopenStarts, ReopenSteps, PTL DEF ReopenSpec
<1> QED BY <1>1, HostFoundHolds, PTL

-----------------------------------------------------------------------------
(* What was played, and what is known of it. *)

(* Every copy there is: saved, hosted, or on its way to a guest.             *)
Around == {copies[d] : d \in Owners} \cup {hosted[d] : d \in Owners}
            \cup UNION {ToSet(chans[d].down) : d \in Owners}

(* An action is that of whose turn it was, and its number was used for it.   *)
InTurn(log) ==
    \A i \in DOMAIN log :
        /\ log[i].by = IF i = 1 THEN First ELSE log[i - 1].next
        /\ visit.actions < log[i].id

(* What a guest is told only grows, from what it has to what is hosted.      *)
Growing(d) ==
    LET c == chans[d]
    IN  /\ \A i \in DOMAIN c.down : Len(copies[d]) <= Len(c.down[i])
        /\ \A i, j \in DOMAIN c.down : i <= j => Len(c.down[i]) <= Len(c.down[j])
        /\ c.seated => Len(copies[d]) <= Len(hosted[c.host])
        /\ c.seated => \A i \in DOMAIN c.down : Len(c.down[i]) <= Len(hosted[c.host])

(* Who says hello offers what it has saved; commands come from who is seated. *)
Offered(d) ==
    LET c == chans[d]
    IN  /\ c.seated => c.host # Nowhere /\ \A i \in DOMAIN c.up : c.up[i].kind = "command"
        /\ ~c.seated /\ c.host # Nowhere => c.up = <<[kind |-> "hello", log |-> copies[d]]>>
        /\ ~c.seated => c.down = << >>

HostSaves(d) == At(d, {"host"}) => copies[d] = hosted[d]

(* The i-th action of the player is known to it, or hosted where it is seated. *)
Standing(p, i, a) ==
    \/ i \in DOMAIN copies[p]
    \/ chans[p].seated /\ i \in DOMAIN hosted[chans[p].host] /\ hosted[chans[p].host][i] = a

(* One action has one place; and a player who heard of all its actions has one
   action at a place.                                                        *)
OneAction ==
    \A s, t \in Around : \A i \in DOMAIN s, j \in DOMAIN t :
        /\ s[i] = t[j] => i = j
        /\ i = j /\ s[i].by = t[j].by /\ s[i].by \notin unheard => s[i] = t[j]
OwnActions ==
    \A s \in Around : \A i \in DOMAIN s : s[i].by \notin unheard => Standing(s[i].by, i, s[i])

PlayedInv ==
    /\ \A s \in Around : InTurn(s)
    /\ \A d \in Owners : Growing(d) /\ Offered(d) /\ HostSaves(d)
    /\ OneAction /\ OwnActions

AroundNow(s) ==
    \/ \E d \in Owners : s = copies[d] \/ s = hosted[d]
    \/ \E d \in Owners : \E i \in DOMAIN chans[d].down : s = chans[d].down[i]
LEMMA AroundIs ==
    /\ \A s : s \in Around <=> AroundNow(s)
    /\ \A s : s \in Around' <=> AroundNow(s)'
<1>1. \A s : s \in Around <=> AroundNow(s)
  BY DEF Around, AroundNow, ToSet
<1>2. \A s : s \in Around' <=> AroundNow(s)'
  BY DEF Around, AroundNow, ToSet
<1> QED BY <1>1, <1>2

LEMMA AroundTyped ==
    ASSUME ReopenTypes
    PROVE  /\ \A s \in Around : s \in Log
           /\ \A d \in Owners : copies[d] \in Around /\ hosted[d] \in Around
           /\ \A d \in Owners : \A i \in DOMAIN chans[d].down : chans[d].down[i] \in Around
<1>1. \A d \in Owners : copies[d] \in Log /\ hosted[d] \in Log /\ chans[d].down \in Seq(Log)
  BY DEF ReopenTypes, Chan
<1>2. \A d \in Owners : \A i \in DOMAIN chans[d].down : chans[d].down[i] \in Log
  BY <1>1
<1>3. \A s : AroundNow(s) => s \in Log
  BY <1>1, <1>2 DEF AroundNow
<1>4. \A d \in Owners : AroundNow(copies[d]) /\ AroundNow(hosted[d])
  BY DEF AroundNow
<1>5. \A d \in Owners : \A i \in DOMAIN chans[d].down : AroundNow(chans[d].down[i])
  BY DEF AroundNow
<1> HIDE DEF AroundNow
<1> QED BY <1>3, <1>4, <1>5, AroundIs

LEMMA ActionTyped ==
    ASSUME ReopenTypes, NEW s \in Around, NEW i \in DOMAIN s
    PROVE  s[i] \in [by : Owners, next : Owners, id : Nat] /\ s[i].by \in Owners /\ i \in 1 .. Len(s)
<1> DEFINE A == [by : Owners, next : Owners, id : Nat]
<1>1. s \in Seq(A)
  BY AroundTyped DEF Log
<1> HIDE DEF A
<1>2. s[i] \in A /\ i \in 1 .. Len(s)
  BY <1>1
<1>3. s[i].by \in Owners
  BY <1>2 DEF A
<1> QED BY <1>2, <1>3 DEF A

(* Steps after which there is no new action.                                *)
LEMMA NothingNew ==
    ASSUME PlayedInv, Around' \subseteq Around \cup {<< >>}, unheard \subseteq unheard',
           visit'.actions = visit.actions,
           \A d \in Owners : Growing(d)' /\ Offered(d)' /\ HostSaves(d)',
           \A s \in Around : \A i \in DOMAIN s :
              s[i].by \notin unheard' /\ Standing(s[i].by, i, s[i]) => Standing(s[i].by, i, s[i])'
    PROVE  PlayedInv'
<1>1. \A s \in Around' : InTurn(s)'
  <2> SUFFICES ASSUME NEW s \in Around' PROVE InTurn(s)'
    OBVIOUS
  <2>1. CASE s \in Around
    <3>1. InTurn(s)
      BY <2>1 DEF PlayedInv
    <3> QED BY <3>1 DEF InTurn
  <2>2. CASE s = << >>
    BY <2>2 DEF InTurn
  <2> QED BY <2>1, <2>2
<1>2. OneAction'
  <2> SUFFICES ASSUME NEW s \in Around', NEW t \in Around', NEW i \in DOMAIN s, NEW j \in DOMAIN t
               PROVE  /\ s[i] = t[j] => i = j
                      /\ i = j /\ s[i].by = t[j].by /\ s[i].by \notin unheard' => s[i] = t[j]
    BY DEF OneAction
  <2>1. s \in Around /\ t \in Around
    OBVIOUS
  <2> QED BY <2>1 DEF PlayedInv, OneAction
<1>3. OwnActions'
  <2> SUFFICES ASSUME NEW s \in Around', NEW i \in DOMAIN s, s[i].by \notin unheard'
               PROVE  Standing(s[i].by, i, s[i])'
    BY DEF OwnActions
  <2>1. s \in Around /\ s[i].by \notin unheard
    OBVIOUS
  <2>2. Standing(s[i].by, i, s[i])
    BY <2>1 DEF PlayedInv, OwnActions
  <2> QED BY <2>1, <2>2
<1> QED BY <1>1, <1>2, <1>3 DEF PlayedInv

(* Steps that leave the copies, the channels and who heard of what alone.   *)
LEMMA ScreensOnly ==
    ASSUME PlayedInv, UNCHANGED <<copies, hosted, chans, unheard>>, visit'.actions = visit.actions,
           \A d \in Owners : screen'[d].stage = "host" => screen[d].stage = "host"
    PROVE  PlayedInv'
<1>1. Around' \subseteq Around
  BY DEF Around
<1>2. \A d \in Owners : Growing(d)' /\ Offered(d)' /\ HostSaves(d)'
  <2> SUFFICES ASSUME NEW d \in Owners PROVE Growing(d)' /\ Offered(d)' /\ HostSaves(d)'
    OBVIOUS
  <2>1. Growing(d) /\ Offered(d) /\ HostSaves(d)
    BY DEF PlayedInv
  <2>2. Growing(d)' /\ Offered(d)'
    BY <2>1 DEF Growing, Offered
  <2>3. HostSaves(d)'
    BY <2>1 DEF HostSaves, At
  <2> QED BY <2>2, <2>3
<1>3. \A s \in Around : \A i \in DOMAIN s :
         s[i].by \notin unheard' /\ Standing(s[i].by, i, s[i]) => Standing(s[i].by, i, s[i])'
  BY DEF Standing
<1> QED BY <1>1, <1>2, <1>3, NothingNew

(* A player hosts what it has saved.                                        *)
LEMMA HostsPlayed ==
    ASSUME ReopenTypes, ChanInv, PlayedInv, NEW d \in Owners, Hosts(d)
    PROVE  PlayedInv'
<1>1. /\ screen[d].stage = "asking" /\ hosted' = [hosted EXCEPT ![d] = copies[d]]
      /\ screen' = [screen EXCEPT ![d] = [Screen("host") EXCEPT !.old = screen[d].old]]
      /\ UNCHANGED <<visit, copies, chans, unheard>>
  BY DEF Hosts, At, Set
<1>2. /\ screen \in [Owners -> Screens] /\ copies \in [Owners -> Log] /\ hosted \in [Owners -> Log]
      /\ hosted'[d] = copies[d] /\ \A e \in Owners : e # d => hosted'[e] = hosted[e]
  BY <1>1 DEF ReopenTypes
<1>3. \A e \in Owners : chans[e].host # d
  BY <1>1 DEF ChanInv
<1>4. Around' \subseteq Around
  <2> SUFFICES ASSUME NEW s, AroundNow(s)' PROVE AroundNow(s)
    BY AroundIs
  <2> QED BY <1>1, <1>2 DEF AroundNow
<1>5. \A e \in Owners : Growing(e)' /\ Offered(e)' /\ HostSaves(e)'
  <2> SUFFICES ASSUME NEW e \in Owners PROVE Growing(e)' /\ Offered(e)' /\ HostSaves(e)'
    OBVIOUS
  <2>1. Growing(e) /\ Offered(e) /\ HostSaves(e) /\ chans[e].host \in Owners \cup {Nowhere}
    BY DEF PlayedInv, ReopenTypes, Chan
  <2>2. chans[e].seated => hosted'[chans[e].host] = hosted[chans[e].host]
    BY <1>2, <1>3, <2>1 DEF Offered
  <2>3. Growing(e)' /\ Offered(e)'
    BY <1>1, <2>1, <2>2 DEF Growing, Offered
  <2>4. HostSaves(e)'
    BY <1>1, <1>2, <2>1 DEF HostSaves, At
  <2> QED BY <2>3, <2>4
<1>6. \A s \in Around : \A i \in DOMAIN s :
         s[i].by \notin unheard' /\ Standing(s[i].by, i, s[i]) => Standing(s[i].by, i, s[i])'
  <2> SUFFICES ASSUME NEW s \in Around, NEW i \in DOMAIN s, Standing(s[i].by, i, s[i])
               PROVE  Standing(s[i].by, i, s[i])'
    OBVIOUS
  <2>2. s[i].by \in Owners
    BY ActionTyped
  <2>3. chans[s[i].by].seated => chans[s[i].by].host # Nowhere /\ chans[s[i].by].host \in Owners \cup {Nowhere}
    <3>1. \A p \in Owners : Offered(p) /\ chans[p].host \in Owners \cup {Nowhere}
      BY DEF PlayedInv, ReopenTypes, Chan
    <3> QED BY <2>2, <3>1 DEF Offered
  <2>4. chans[s[i].by].seated => hosted'[chans[s[i].by].host] = hosted[chans[s[i].by].host]
    BY <1>2, <1>3, <2>2, <2>3
  <2> QED BY <1>1, <2>4 DEF Standing
<1> QED BY <1>1, <1>4, <1>5, <1>6, NothingNew

(* One who had no channel says hello.                                       *)
LEMMA ConnectsPlayed ==
    ASSUME ReopenTypes, ChanInv, PlayedInv, NEW d \in Owners, Connects(d)
    PROVE  PlayedInv'
<1> DEFINE c == [NoChan EXCEPT !.host = code.of, !.up = <<[kind |-> "hello", log |-> copies[d]]>>]
<1>1. /\ screen[d].stage = "joining" /\ chans' = [chans EXCEPT ![d] = c]
      /\ screen' = [screen EXCEPT ![d] = [screen[d] EXCEPT !.stage = "greeting"]]
      /\ UNCHANGED <<visit, copies, hosted, unheard>>
  BY DEF Connects, At, Set
<1>2. c.seated = FALSE /\ c.down = << >> /\ c.up = <<[kind |-> "hello", log |-> copies[d]]>>
  BY DEF NoChan
<1> HIDE DEF c
<1>3. chans \in [Owners -> Chan] /\ screen \in [Owners -> Screens]
  BY DEF ReopenTypes
<1>4. chans[d] = NoChan
  BY <1>1, <1>3 DEF ChanInv
<1>5. /\ chans'[d] = c /\ \A e \in Owners : e # d => chans'[e] = chans[e]
      /\ \A e \in Owners : screen'[e].stage = "host" => screen[e].stage = "host"
  BY <1>1, <1>3 DEF Screens
<1>6. Around' \subseteq Around
  <2> SUFFICES ASSUME NEW s, AroundNow(s)' PROVE AroundNow(s)
    BY AroundIs
  <2> QED BY <1>1, <1>2, <1>5 DEF AroundNow
<1>7. \A e \in Owners : Growing(e)' /\ Offered(e)' /\ HostSaves(e)'
  <2> SUFFICES ASSUME NEW e \in Owners PROVE Growing(e)' /\ Offered(e)' /\ HostSaves(e)'
    OBVIOUS
  <2>1. Growing(e) /\ Offered(e) /\ HostSaves(e)
    BY DEF PlayedInv
  <2>2. Growing(e)' /\ Offered(e)'
    <3>1. CASE e = d
      BY <1>1, <1>2, <1>5, <3>1 DEF Growing, Offered
    <3>2. CASE e # d
      BY <1>1, <1>5, <2>1, <3>2 DEF Growing, Offered
    <3> QED BY <3>1, <3>2
  <2>3. HostSaves(e)'
    BY <1>1, <1>5, <2>1 DEF HostSaves, At
  <2> QED BY <2>2, <2>3
<1>8. ~chans[d].seated
  BY <1>4 DEF NoChan
<1>9. \A s \in Around : \A i \in DOMAIN s :
         s[i].by \notin unheard' /\ Standing(s[i].by, i, s[i]) => Standing(s[i].by, i, s[i])'
  <2> SUFFICES ASSUME NEW s \in Around, NEW i \in DOMAIN s, Standing(s[i].by, i, s[i])
               PROVE  Standing(s[i].by, i, s[i])'
    OBVIOUS
  <2>2. s[i].by \in Owners
    BY ActionTyped
  <2>3. CASE s[i].by = d
    BY <1>1, <1>8, <2>3 DEF Standing
  <2>4. CASE s[i].by # d
    BY <1>1, <1>5, <2>2, <2>4 DEF Standing
  <2> QED BY <2>3, <2>4
<1> QED BY <1>1, <1>6, <1>7, <1>9, NothingNew

(* Commands come and go.                                                    *)
LEMMA CommandsOnly ==
    ASSUME ReopenTypes, PlayedInv, NEW d \in Owners, NEW u, chans[d].seated,
           \A i \in DOMAIN u : u[i].kind = "command", chans' = [chans EXCEPT ![d].up = u],
           UNCHANGED <<visit, screen, copies, hosted, unheard>>
    PROVE  PlayedInv'
<1>1. chans \in [Owners -> Chan]
  BY DEF ReopenTypes
<1>2. /\ \A e \in Owners : /\ chans'[e].host = chans[e].host /\ chans'[e].seated = chans[e].seated
                           /\ chans'[e].down = chans[e].down
      /\ chans'[d].up = u /\ \A e \in Owners : e # d => chans'[e].up = chans[e].up
  BY <1>1 DEF Chan
<1>3. Around' \subseteq Around
  <2> SUFFICES ASSUME NEW s, AroundNow(s)' PROVE AroundNow(s)
    BY AroundIs
  <2> QED BY <1>2 DEF AroundNow
<1>4. \A e \in Owners : Growing(e)' /\ Offered(e)' /\ HostSaves(e)'
  <2> SUFFICES ASSUME NEW e \in Owners PROVE Growing(e)' /\ Offered(e)' /\ HostSaves(e)'
    OBVIOUS
  <2>1. Growing(e) /\ Offered(e) /\ HostSaves(e)
    BY DEF PlayedInv
  <2>2. Growing(e)'
    BY <1>2, <2>1 DEF Growing
  <2>3. Offered(e)'
    <3>1. CASE e = d
      BY <1>2, <2>1, <3>1 DEF Offered
    <3>2. CASE e # d
      BY <1>2, <2>1, <3>2 DEF Offered
    <3> QED BY <3>1, <3>2
  <2>4. HostSaves(e)'
    BY <2>1 DEF HostSaves, At
  <2> QED BY <2>2, <2>3, <2>4
<1>5. \A s \in Around : \A i \in DOMAIN s :
         s[i].by \notin unheard' /\ Standing(s[i].by, i, s[i]) => Standing(s[i].by, i, s[i])'
  <2> SUFFICES ASSUME NEW s \in Around, NEW i \in DOMAIN s, Standing(s[i].by, i, s[i])
               PROVE  Standing(s[i].by, i, s[i])'
    OBVIOUS
  <2>2. s[i].by \in Owners
    BY ActionTyped
  <2> QED BY <1>2, <2>2 DEF Standing
<1> QED BY <1>3, <1>4, <1>5, NothingNew

LEMMA GuestActsPlayed ==
    ASSUME ReopenTypes, ChanInv, PlayedInv, NEW d \in Owners, GuestActs(d)
    PROVE  PlayedInv'
<1>1. PICK next \in Owners :
         chans' = [chans EXCEPT ![d].up = <<[kind |-> "command", next |-> next]>>]
  BY DEF GuestActs
<1>2. /\ screen[d].stage = "guest" /\ chans[d].up = << >>
      /\ UNCHANGED <<visit, screen, copies, hosted, unheard>>
  BY DEF GuestActs, At
<1>3. chans[d].host # Nowhere
  BY <1>2 DEF ChanInv
<1>4. chans[d].seated
  <2>1. ~chans[d].seated => chans[d].up = <<[kind |-> "hello", log |-> copies[d]]>>
    BY <1>3 DEF PlayedInv, Offered
  <2> QED BY <1>2, <2>1
<1>5. PICK u : u = <<[kind |-> "command", next |-> next]>>
  OBVIOUS
<1>6. \A i \in DOMAIN u : u[i].kind = "command"
  BY <1>5
<1> QED BY <1>1, <1>2, <1>4, <1>5, <1>6, CommandsOnly

(* A guest hears of a copy that is on its way.                              *)
LEMMA HearsPlayed ==
    ASSUME ReopenTypes, ChanInv, PlayedInv, NEW d \in Owners, Hears(d)
    PROVE  PlayedInv' /\ Len(copies'[d]) >= Len(copies[d]) /\ copies'[d] \in Around
<1> DEFINE down == chans[d].down
<1>1. /\ down # << >> /\ copies' = [copies EXCEPT ![d] = Head(down)]
      /\ chans' = [chans EXCEPT ![d].down = Tail(@)]
      /\ screen' = [screen EXCEPT ![d] = [screen[d] EXCEPT !.stage = "guest", !.tries = 0]]
      /\ UNCHANGED <<visit, hosted, unheard>>
  BY DEF Hears, Set
<1>2. /\ chans \in [Owners -> Chan] /\ copies \in [Owners -> Log] /\ hosted \in [Owners -> Log]
      /\ screen \in [Owners -> Screens] /\ down \in Seq(Log)
  BY DEF ReopenTypes, Chan
<1> HIDE DEF down
<1>3. /\ \A e \in Owners : /\ chans'[e].host = chans[e].host /\ chans'[e].seated = chans[e].seated
                           /\ chans'[e].up = chans[e].up
      /\ chans'[d].down = Tail(down) /\ \A e \in Owners : e # d => chans'[e].down = chans[e].down
      /\ copies'[d] = Head(down) /\ \A e \in Owners : e # d => copies'[e] = copies[e]
      /\ \A e \in Owners : screen'[e].stage = "host" => e # d /\ screen[e].stage = "host"
  BY <1>1, <1>2 DEF Chan, Screens, down
<1>4. /\ 1 \in DOMAIN down /\ Head(down) = down[1] /\ DOMAIN Tail(down) = 1 .. Len(down) - 1
      /\ \A i \in DOMAIN Tail(down) : i + 1 \in DOMAIN down /\ Tail(down)[i] = down[i + 1]
      /\ \A i \in DOMAIN down : down[i] \in Log
  BY <1>1, <1>2
<1>5. Growing(d) /\ chans[d].seated
  BY <1>1 DEF PlayedInv, Offered, down
<1>6. Len(copies[d]) <= Len(down[1]) /\ Len(copies[d]) \in Nat /\ Len(down[1]) \in Nat
  BY <1>2, <1>4, <1>5 DEF Growing, down, Log
<1>7. down[1] \in Around
  BY <1>4, AroundTyped DEF down
<1>8. Around' \subseteq Around
  <2> SUFFICES ASSUME NEW s, AroundNow(s)' PROVE s \in Around
    BY AroundIs
  <2>1. CASE \E e \in Owners : s = copies'[e] \/ s = hosted'[e]
    BY <1>1, <1>3, <1>4, <1>7, <2>1, AroundTyped
  <2>2. CASE \E e \in Owners : \E i \in DOMAIN chans'[e].down : s = chans'[e].down[i]
    <3>1. PICK e \in Owners : \E i \in DOMAIN chans'[e].down : s = chans'[e].down[i]
      BY <2>2
    <3>2. CASE e = d
      <4>1. PICK i \in DOMAIN Tail(down) : s = Tail(down)[i]
        BY <1>3, <3>1, <3>2
      <4>2. i + 1 \in DOMAIN down /\ s = down[i + 1]
        BY <1>4, <4>1
      <4> QED BY <4>2, AroundTyped DEF down
    <3>3. CASE e # d
      BY <1>3, <3>1, <3>3, AroundTyped
    <3> QED BY <3>2, <3>3
  <2> QED BY <2>1, <2>2 DEF AroundNow
<1>9. \A e \in Owners : Growing(e)' /\ Offered(e)' /\ HostSaves(e)'
  <2> SUFFICES ASSUME NEW e \in Owners PROVE Growing(e)' /\ Offered(e)' /\ HostSaves(e)'
    OBVIOUS
  <2>1. Growing(e) /\ Offered(e) /\ HostSaves(e)
    BY DEF PlayedInv
  <2>2. Growing(e)'
    <3>1. CASE e = d
      <4>1. /\ \A i \in DOMAIN down : Len(down[1]) <= Len(down[i])
            /\ \A i, j \in DOMAIN down : i <= j => Len(down[i]) <= Len(down[j])
            /\ \A i \in DOMAIN down : Len(down[i]) <= Len(hosted[chans[d].host])
        <5>1. /\ \A i, j \in DOMAIN down : i <= j => Len(down[i]) <= Len(down[j])
              /\ \A i \in DOMAIN down : Len(down[i]) <= Len(hosted[chans[d].host])
          BY <1>5 DEF Growing, down
        <5>2. \A i \in DOMAIN down : 1 <= i
          BY <1>2
        <5> QED BY <1>4, <5>1, <5>2
      <4> DEFINE rest == Tail(down)
      <4>2. DOMAIN rest = 1 .. Len(down) - 1 /\ \A i \in DOMAIN rest : i + 1 \in DOMAIN down /\ rest[i] = down[i + 1]
        BY <1>4
      <4>3. /\ chans'[d].down = rest /\ chans'[d].seated = chans[d].seated /\ chans'[d].host = chans[d].host
            /\ copies'[d] = down[1] /\ hosted' = hosted
        BY <1>1, <1>3, <1>4
      <4> HIDE DEF rest
      <4>4. \A i \in DOMAIN rest : Len(down[1]) <= Len(rest[i])
        BY <4>1, <4>2
      <4>5. \A i, j \in DOMAIN rest : i <= j => Len(rest[i]) <= Len(rest[j])
        <5> SUFFICES ASSUME NEW i \in DOMAIN rest, NEW j \in DOMAIN rest, i <= j
                     PROVE  Len(rest[i]) <= Len(rest[j])
          OBVIOUS
        <5>1. i + 1 \in DOMAIN down /\ j + 1 \in DOMAIN down /\ rest[i] = down[i + 1] /\ rest[j] = down[j + 1]
          BY <4>2
        <5>2. i + 1 <= j + 1
          BY <1>2, <4>2
        <5> QED BY <4>1, <5>1, <5>2
      <4>6. \A i \in DOMAIN rest : Len(rest[i]) <= Len(hosted[chans[d].host])
        BY <4>1, <4>2
      <4> QED BY <1>4, <3>1, <4>1, <4>3, <4>4, <4>5, <4>6 DEF Growing
    <3>2. CASE e # d
      BY <1>1, <1>3, <2>1, <3>2 DEF Growing
    <3> QED BY <3>1, <3>2
  <2>3. Offered(e)'
    <3>1. CASE e = d
      BY <1>3, <1>5, <2>1, <3>1 DEF Offered
    <3>2. CASE e # d
      BY <1>3, <2>1, <3>2 DEF Offered
    <3> QED BY <3>1, <3>2
  <2>4. HostSaves(e)'
    BY <1>1, <1>3, <2>1 DEF HostSaves, At
  <2> QED BY <2>2, <2>3, <2>4
<1>10. \A s \in Around : \A i \in DOMAIN s :
         s[i].by \notin unheard' /\ Standing(s[i].by, i, s[i]) => Standing(s[i].by, i, s[i])'
  <2> SUFFICES ASSUME NEW s \in Around, NEW i \in DOMAIN s, Standing(s[i].by, i, s[i])
               PROVE  Standing(s[i].by, i, s[i])'
    OBVIOUS
  <2>2. s[i].by \in Owners
    BY ActionTyped
  <2>3. CASE s[i].by # d
    BY <1>1, <1>3, <2>2, <2>3 DEF Standing
  <2>4. CASE s[i].by = d
    <3>1. DOMAIN copies[d] \subseteq DOMAIN copies'[d]
      BY <1>2, <1>3, <1>4, <1>6 DEF Log
    <3> QED BY <1>1, <1>3, <2>4, <3>1 DEF Standing
  <2> QED BY <2>3, <2>4
<1>11. PlayedInv'
  BY <1>1, <1>8, <1>9, <1>10, NothingNew
<1> QED BY <1>3, <1>4, <1>6, <1>7, <1>11

(* Two players, as the rules that show everything have (backgammonDefinition). *)
TwoPlayers == \E a, b : Owners = {a, b}

(* The copy offered is adopted when it is longer.                           *)
LEMMA GreetsPlayed ==
    ASSUME TwoPlayers, ReopenTypes, ChanInv, PlayedInv, NEW h \in Owners, NEW d \in Owners,
           Greets(h, d)
    PROVE  /\ PlayedInv' /\ \A e \in Owners : e # h => copies'[e] = copies[e]
           /\ Len(copies'[h]) >= Len(copies[h]) /\ copies'[h] \in Around
<1> DEFINE hello == Head(chans[d].up)
           log == IF Adopts(hosted[h], hello.log) THEN hello.log ELSE hosted[h]
           c == [chans[d] EXCEPT !.seated = TRUE, !.up = Tail(@), !.down = <<log>>]
           told == {e \in GuestsOf(h) : chans[e].seated /\ log # hosted[h]}
<1>1. /\ chans[d].host = h /\ chans[d].up # << >> /\ hello.kind = "hello"
      /\ hosted' = [hosted EXCEPT ![h] = log] /\ copies' = [copies EXCEPT ![h] = log]
      /\ chans' = [e \in Owners |->
            IF e = d THEN [chans[e] EXCEPT !.seated = TRUE, !.up = Tail(@), !.down = <<log>>]
            ELSE IF e \in told THEN [chans[e] EXCEPT !.down = Append(@, log)] ELSE chans[e]]
      /\ UNCHANGED <<visit, screen, unheard>>
  BY DEF Greets, GuestsOf
<1>2. /\ chans \in [Owners -> Chan] /\ copies \in [Owners -> Log] /\ hosted \in [Owners -> Log]
      /\ \A e \in Owners : Growing(e) /\ Offered(e) /\ HostSaves(e)
  BY DEF ReopenTypes, PlayedInv
<1>3. /\ screen[h].stage = "host" /\ chans[h] = NoChan /\ chans[h].host = Nowhere
      /\ copies[h] = hosted[h]
  <2>1. screen[h].stage = "host"
    BY <1>1 DEF ChanInv
  <2>2. chans[h].host = Nowhere
    BY <2>1 DEF ChanInv
  <2> QED BY <1>2, <2>1, <2>2 DEF ChanInv, HostSaves, At
<1>4. d # h /\ Owners = {h, d} /\ h \notin told
  <2>1. chans[h].host = Nowhere /\ chans[d].host = h /\ h # Nowhere
    <3>1. chans[d].host = h
      BY <1>1
    <3>2. h # Nowhere
      BY ReopenAssumption
    <3> QED BY <1>3, <3>1, <3>2
  <2>2. d # h /\ h \notin told
    BY <2>1 DEF GuestsOf
  <2> QED BY <2>2 DEF TwoPlayers
<1>5. screen[d].stage # "host" /\ chans[d].host # Nowhere
  BY <1>1, ReopenAssumption DEF ChanInv
<1>6. ~chans[d].seated /\ chans[d].up = <<[kind |-> "hello", log |-> copies[d]]>>
  <2>1. chans[d].up \in Seq(Offer)
    BY <1>2 DEF Chan
  <2>2. chans[d].up # << >> /\ Head(chans[d].up).kind = "hello"
    BY <1>1
  <2>3. 1 \in DOMAIN chans[d].up /\ Head(chans[d].up) = chans[d].up[1]
    BY <2>1, <2>2
  <2>4. ~chans[d].seated
    BY <1>2, <2>2, <2>3 DEF Offered
  <2> QED BY <1>2, <1>5, <2>4 DEF Offered
<1>7. hello.log = copies[d] /\ Tail(chans[d].up) = << >>
  <2>1. PICK m : m = [kind |-> "hello", log |-> copies[d]]
    OBVIOUS
  <2>2. chans[d].up = <<m>>
    BY <1>6, <2>1
  <2> QED BY <2>1, <2>2
<1> HIDE DEF hello
<1>8. /\ log \in {copies[d], hosted[h]} /\ log \in Log
      /\ Len(copies[d]) <= Len(log) /\ Len(hosted[h]) <= Len(log)
  <2>1. copies[d] \in Log /\ hosted[h] \in Log
    BY <1>2
  <2>2. Len(copies[d]) \in Nat /\ Len(hosted[h]) \in Nat
    BY <2>1 DEF Log
  <2> QED BY <1>7, <2>1, <2>2 DEF Adopts
<1> HIDE DEF log
<1>9. c.seated /\ c.host = h /\ c.up = << >> /\ c.down = <<log>>
  BY <1>1, <1>2, <1>7 DEF Chan
<1>10. chans'[d] = c
  BY <1>1
<1> HIDE DEF c, told
<1>11. chans'[h] = NoChan /\ copies'[h] = log /\ hosted'[h] = log
       /\ copies'[d] = copies[d] /\ hosted'[d] = hosted[d]
  BY <1>1, <1>2, <1>3, <1>4
<1>12. log \in Around
  BY <1>8, AroundTyped
<1>13. Around' \subseteq Around
  <2> SUFFICES ASSUME NEW s, AroundNow(s)' PROVE s \in Around
    BY AroundIs
  <2>1. CASE \E e \in Owners : s = copies'[e] \/ s = hosted'[e]
    BY <1>4, <1>11, <1>12, <2>1, AroundTyped
  <2>2. CASE \E e \in Owners : \E i \in DOMAIN chans'[e].down : s = chans'[e].down[i]
    BY <1>4, <1>9, <1>10, <1>11, <1>12, <2>2 DEF NoChan
  <2> QED BY <2>1, <2>2 DEF AroundNow
<1>14. \A e \in Owners : Growing(e)' /\ Offered(e)' /\ HostSaves(e)'
  <2>1. Growing(d)' /\ Offered(d)' /\ HostSaves(d)'
    <3>1. Growing(d)'
      BY <1>8, <1>9, <1>10, <1>11 DEF Growing, Log
    <3>2. Offered(d)'
      <4>1. chans'[d].seated /\ chans'[d].host = h /\ chans'[d].up = << >> /\ h # Nowhere
        BY <1>9, <1>10, ReopenAssumption
      <4> QED BY <4>1 DEF Offered
    <3>3. HostSaves(d)'
      BY <1>1, <1>5 DEF HostSaves, At
    <3> QED BY <3>1, <3>2, <3>3
  <2>2. Growing(h)' /\ Offered(h)' /\ HostSaves(h)'
    BY <1>11 DEF Growing, Offered, HostSaves, NoChan
  <2> QED BY <1>4, <2>1, <2>2
<1>15. \A s \in Around : \A i \in DOMAIN s :
         s[i].by \notin unheard' /\ Standing(s[i].by, i, s[i]) => Standing(s[i].by, i, s[i])'
  <2> SUFFICES ASSUME NEW s \in Around, NEW i \in DOMAIN s, Standing(s[i].by, i, s[i])
               PROVE  Standing(s[i].by, i, s[i])'
    OBVIOUS
  <2>1. s[i].by \in {h, d}
    BY <1>4, ActionTyped
  <2>2. CASE s[i].by = d
    BY <1>6, <1>11, <2>2 DEF Standing
  <2>3. CASE s[i].by = h
    <3>1. i \in DOMAIN copies[h]
      BY <1>3, <2>3 DEF Standing, NoChan
    <3>2. DOMAIN copies[h] \subseteq DOMAIN log
      BY <1>2, <1>3, <1>8 DEF Log
    <3> QED BY <1>11, <2>3, <3>1, <3>2 DEF Standing
  <2> QED BY <2>1, <2>2, <2>3
<1>16. PlayedInv'
  BY <1>1, <1>13, <1>14, <1>15, NothingNew
<1>17. Len(copies'[h]) >= Len(copies[h]) /\ copies'[h] \in Around
  BY <1>2, <1>3, <1>8, <1>11, <1>12 DEF Log
<1> QED BY <1>4, <1>11, <1>16, <1>17

(* Channels that close; perhaps a player hosts no more.                     *)
LEMMA ClosePlayed ==
    ASSUME ReopenTypes, ChanInv, PlayedInv, NEW ds \in SUBSET Owners, Close(ds),
           visit'.actions = visit.actions, UNCHANGED copies,
           \A e \in Owners : hosted'[e] = hosted[e] \/ (hosted'[e] = << >> /\ GuestsOf(e) \subseteq ds),
           \A e \in Owners : screen'[e].stage = "host" =>
              screen[e].stage = "host" /\ hosted'[e] = hosted[e]
    PROVE  PlayedInv'
<1>1. /\ chans' = [e \in Owners |-> IF e \in ds THEN NoChan ELSE chans[e]]
      /\ unheard' = unheard \cup Deaf(ds)
  BY DEF Close
<1>2. \A e \in Owners : Growing(e) /\ Offered(e) /\ HostSaves(e)
  BY DEF PlayedInv
<1>3. \A e \in Owners : chans[e].host \in Owners \cup {Nowhere}
  BY DEF ReopenTypes, Chan
<1>4. \A e \in Owners \ ds : chans[e].host # Nowhere => hosted'[chans[e].host] = hosted[chans[e].host]
  BY <1>3 DEF GuestsOf
<1>5. Around' \subseteq Around \cup {<< >>}
  <2> SUFFICES ASSUME NEW s, AroundNow(s)' PROVE s \in Around \cup {<< >>}
    BY AroundIs
  <2>1. CASE \E e \in Owners : s = copies'[e] \/ s = hosted'[e]
    BY <2>1, AroundTyped
  <2>2. CASE \E e \in Owners : \E i \in DOMAIN chans'[e].down : s = chans'[e].down[i]
    <3>1. PICK e \in Owners : \E i \in DOMAIN chans'[e].down : s = chans'[e].down[i]
      BY <2>2
    <3>2. e \notin ds
      BY <1>1, <3>1 DEF NoChan
    <3> QED BY <1>1, <3>1, <3>2, AroundTyped
  <2> QED BY <2>1, <2>2 DEF AroundNow
<1>6. \A e \in Owners : Growing(e)' /\ Offered(e)' /\ HostSaves(e)'
  <2> SUFFICES ASSUME NEW e \in Owners PROVE Growing(e)' /\ Offered(e)' /\ HostSaves(e)'
    OBVIOUS
  <2>1. Growing(e)' /\ Offered(e)'
    <3>1. CASE e \in ds
      <4>1. chans'[e] = NoChan
        BY <1>1, <3>1
      <4> QED BY <4>1 DEF Growing, Offered, NoChan
    <3>2. CASE e \notin ds
      <4>1. chans'[e] = chans[e]
        BY <1>1, <3>2
      <4>2. chans[e].seated => hosted'[chans[e].host] = hosted[chans[e].host]
        BY <1>2, <1>4, <3>2 DEF Offered
      <4> QED BY <1>2, <4>1, <4>2 DEF Growing, Offered
    <3> QED BY <3>1, <3>2
  <2>2. HostSaves(e)'
    BY <1>2 DEF HostSaves, At
  <2> QED BY <2>1, <2>2
<1>7. \A s \in Around : \A i \in DOMAIN s :
         s[i].by \notin unheard' /\ Standing(s[i].by, i, s[i]) => Standing(s[i].by, i, s[i])'
  <2> SUFFICES ASSUME NEW s \in Around, NEW i \in DOMAIN s, s[i].by \notin unheard',
                      Standing(s[i].by, i, s[i])
               PROVE  Standing(s[i].by, i, s[i])'
    OBVIOUS
  <2>1. PICK p \in Owners : p = s[i].by
    BY ActionTyped
  <2>2. CASE i \in DOMAIN copies[p]
    BY <2>1, <2>2 DEF Standing
  <2>3. CASE /\ p \notin ds /\ chans[p].seated
             /\ i \in DOMAIN hosted[chans[p].host] /\ hosted[chans[p].host][i] = s[i]
    <3>1. chans'[p] = chans[p] /\ hosted'[chans[p].host] = hosted[chans[p].host]
      BY <1>1, <1>2, <1>4, <2>3 DEF Offered
    <3> QED BY <2>1, <2>3, <3>1 DEF Standing
  <2>4. CASE /\ p \in ds /\ chans[p].seated
             /\ i \in DOMAIN hosted[chans[p].host] /\ hosted[chans[p].host][i] = s[i]
    <3>1. p \notin Deaf(ds) /\ chans[p].host # Nowhere
      BY <1>1, <1>2, <2>1, <2>4 DEF Offered
    <3>2. s[i] \in ToSet(hosted[chans[p].host]) /\ s[i].by = p
      BY <2>1, <2>4 DEF ToSet
    <3>3. s[i] \in ToSet(copies[p])
      BY <2>4, <3>1, <3>2 DEF Deaf
    <3>4. PICK j \in DOMAIN copies[p] : copies[p][j] = s[i]
      BY <3>3 DEF ToSet
    <3>5. copies[p] \in Around
      BY AroundTyped
    <3>6. i = j
      BY <3>4, <3>5 DEF PlayedInv, OneAction
    <3> QED BY <2>2, <3>4, <3>6
  <2> QED BY <2>1, <2>2, <2>3, <2>4 DEF Standing
<1> QED BY <1>1, <1>5, <1>6, <1>7, NothingNew

(* Somebody whose turn it is acts: the table goes on, and who is seated is told. *)
ActsAs(h, p, a, log) ==
    /\ screen[h].stage = "host" /\ ToAct(hosted[h]) = p
    /\ p = h \/ (chans[p].seated /\ chans[p].host = h)
    /\ a.by = p /\ a.id = visit.actions /\ a \in [by : Owners, next : Owners, id : Nat]
    /\ log = Append(hosted[h], a)
    /\ hosted' = [hosted EXCEPT ![h] = log] /\ copies' = [copies EXCEPT ![h] = log]
    /\ visit'.actions < visit.actions /\ visit'.actions \in Nat /\ visit.actions \in Nat
    /\ UNCHANGED <<screen, unheard>>
    /\ \A e \in Owners :
         IF chans[e].seated /\ chans[e].host = h
         THEN /\ chans'[e].host = h /\ chans'[e].seated = chans[e].seated
              /\ chans'[e].down = Append(chans[e].down, log)
              /\ \A i \in DOMAIN chans'[e].up : chans'[e].up[i].kind = "command"
         ELSE chans'[e] = chans[e]

LEMMA LogExtended ==
    ASSUME NEW S, NEW old \in Seq(S), NEW a \in S, NEW log, log = Append(old, a)
    PROVE  /\ log \in Seq(S) /\ Len(old) \in Nat /\ Len(log) = Len(old) + 1
           /\ DOMAIN old = 1 .. Len(old) /\ DOMAIN log = 1 .. Len(old) + 1
           /\ \A i \in 1 .. Len(old) : log[i] = old[i]
           /\ log[Len(old) + 1] = a
OBVIOUS

LEMMA ActsFacts ==
    ASSUME ReopenTypes, ChanInv, PlayedInv, NEW h \in Owners, NEW p \in Owners, NEW a, NEW log,
           ActsAs(h, p, a, log)
    PROVE  /\ log \in Log /\ Len(log) = Len(hosted[h]) + 1 /\ Len(hosted[h]) \in Nat
           /\ DOMAIN hosted[h] = 1 .. Len(hosted[h]) /\ DOMAIN log = 1 .. Len(hosted[h]) + 1
           /\ \A i \in 1 .. Len(hosted[h]) : log[i] = hosted[h][i]
           /\ log[Len(hosted[h]) + 1] = a /\ copies[h] = hosted[h]
           /\ chans[h] = NoChan /\ chans[h].host = Nowhere /\ ~chans[h].seated
           /\ copies'[h] = log /\ hosted'[h] = log
           /\ \A e \in Owners : e # h => copies'[e] = copies[e] /\ hosted'[e] = hosted[e]
           /\ \A s \in Around' : s \in Around \/ s = log
<1>1. /\ copies \in [Owners -> Log] /\ hosted \in [Owners -> Log] /\ chans \in [Owners -> Chan]
      /\ a \in [by : Owners, next : Owners, id : Nat] /\ log = Append(hosted[h], a)
      /\ hosted' = [hosted EXCEPT ![h] = log] /\ copies' = [copies EXCEPT ![h] = log]
      /\ screen[h].stage = "host"
  BY DEF ReopenTypes, ActsAs
<1>2. /\ log \in Log /\ Len(hosted[h]) \in Nat /\ Len(log) = Len(hosted[h]) + 1
      /\ DOMAIN hosted[h] = 1 .. Len(hosted[h]) /\ DOMAIN log = 1 .. Len(hosted[h]) + 1
      /\ \A i \in 1 .. Len(hosted[h]) : log[i] = hosted[h][i]
      /\ log[Len(hosted[h]) + 1] = a
  <2>1. hosted[h] \in Log
    BY <1>1
  <2> DEFINE A == [by : Owners, next : Owners, id : Nat]
  <2>2. hosted[h] \in Seq(A) /\ a \in A /\ log = Append(hosted[h], a)
    BY <1>1, <2>1 DEF Log
  <2> HIDE DEF A
  <2>3. /\ log \in Seq(A) /\ Len(hosted[h]) \in Nat /\ Len(log) = Len(hosted[h]) + 1
        /\ DOMAIN hosted[h] = 1 .. Len(hosted[h]) /\ DOMAIN log = 1 .. Len(hosted[h]) + 1
        /\ \A i \in 1 .. Len(hosted[h]) : log[i] = hosted[h][i]
        /\ log[Len(hosted[h]) + 1] = a
    BY <2>2, LogExtended
  <2> QED BY <2>3 DEF Log, A
<1>3. chans[h].host = Nowhere
  BY <1>1 DEF ChanInv
<1>4. chans[h] = NoChan /\ ~chans[h].seated
  <2>1. chans[h] = NoChan
    BY <1>3 DEF ChanInv
  <2> QED BY <2>1 DEF NoChan
<1>5. copies[h] = hosted[h]
  BY <1>1 DEF PlayedInv, HostSaves, At
<1>6. /\ copies'[h] = log /\ hosted'[h] = log
      /\ \A e \in Owners : e # h => copies'[e] = copies[e] /\ hosted'[e] = hosted[e]
  BY <1>1
<1>7. ASSUME NEW s \in Around', s # log PROVE s \in Around
  <2>1. AroundNow(s)'
    BY AroundIs
  <2>2. CASE \E e \in Owners : s = copies'[e] \/ s = hosted'[e]
    BY <1>6, <1>7, <2>2, AroundTyped
  <2>3. CASE \E e \in Owners : \E i \in DOMAIN chans'[e].down : s = chans'[e].down[i]
    <3>1. PICK e \in Owners : \E i \in DOMAIN chans'[e].down : s = chans'[e].down[i]
      BY <2>3
    <3>2. CASE chans[e].seated /\ chans[e].host = h
      <4>1. chans'[e].down = Append(chans[e].down, log)
        BY <3>2 DEF ActsAs
      <4>2. chans[e].down \in Seq(Log)
        BY <1>1 DEF Chan
      <4> DEFINE d == chans[e].down
                 n == chans'[e].down
      <4>3. d \in Seq(Log) /\ n = Append(d, log) /\ log \in Log
        BY <1>2, <4>1, <4>2
      <4> HIDE DEF d, n
      <4>4. /\ DOMAIN d = 1 .. Len(d) /\ DOMAIN n = 1 .. Len(d) + 1 /\ Len(d) \in Nat
            /\ \A i \in 1 .. Len(d) : n[i] = d[i]
            /\ n[Len(d) + 1] = log
        BY <4>3, LogExtended
      <4>5. PICK i \in DOMAIN n : s = n[i]
        BY <3>1 DEF n
      <4>6. i \in DOMAIN d /\ s = d[i]
        BY <1>7, <4>4, <4>5
      <4> QED BY <4>6, AroundTyped DEF d
    <3>3. CASE ~(chans[e].seated /\ chans[e].host = h)
      <4>1. chans'[e] = chans[e]
        BY <3>3 DEF ActsAs
      <4> QED BY <3>1, <4>1, AroundTyped
    <3> QED BY <3>2, <3>3
  <2> QED BY <2>1, <2>2, <2>3 DEF AroundNow
<1> QED BY <1>2, <1>3, <1>4, <1>5, <1>6, <1>7

(* Only now is there an action of the player at this place, if it heard of all its
   actions: one that stood already would be longer than what it knows.      *)
LEMMA ActionIsNew ==
    ASSUME ReopenTypes, ChanInv, PlayedInv, NEW h \in Owners, NEW p \in Owners, NEW a, NEW log,
           ActsAs(h, p, a, log), NEW s \in Around, NEW i \in DOMAIN s
    PROVE  /\ s[i] # a
           /\ p \notin unheard /\ i = Len(hosted[h]) + 1 => s[i].by # p
<1>1. s[i] # a
  <2>1. visit.actions < s[i].id /\ s[i].id \in Nat
    BY ActionTyped DEF PlayedInv, InTurn
  <2>2. a.id = visit.actions /\ visit.actions \in Nat
    BY DEF ActsAs
  <2> QED BY <2>1, <2>2
<1>2. ASSUME p \notin unheard, i = Len(hosted[h]) + 1, s[i].by = p PROVE FALSE
  <2>1. Standing(p, i, s[i])
    BY <1>2 DEF PlayedInv, OwnActions
  <2>2. /\ Len(hosted[h]) \in Nat /\ DOMAIN hosted[h] = 1 .. Len(hosted[h])
        /\ copies[h] = hosted[h] /\ ~chans[h].seated
    BY ActsFacts
  <2>3. i \notin DOMAIN hosted[h]
    BY <1>2, <2>2
  <2>4. p = h \/ (chans[p].seated /\ chans[p].host = h)
    BY DEF ActsAs
  <2>5. CASE p = h
    BY <2>1, <2>2, <2>3, <2>5 DEF Standing
  <2>6. CASE p # h
    <3>1. chans[p].seated /\ chans[p].host = h
      BY <2>4, <2>6
    <3>2. Len(copies[p]) <= Len(hosted[h])
      BY <3>1 DEF PlayedInv, Growing
    <3>3. DOMAIN copies[p] = 1 .. Len(copies[p]) /\ Len(copies[p]) \in Nat
      BY AroundTyped DEF Log
    <3>4. i \notin DOMAIN copies[p]
      BY <1>2, <2>2, <3>2, <3>3
    <3> QED BY <2>1, <2>3, <3>1, <3>4 DEF Standing
  <2> QED BY <2>5, <2>6
<1> QED BY <1>1, <1>2

LEMMA ActsPlayed ==
    ASSUME ReopenTypes, ChanInv, PlayedInv, NEW h \in Owners, NEW p \in Owners, NEW a, NEW log,
           ActsAs(h, p, a, log)
    PROVE  PlayedInv'
<1> DEFINE n == Len(hosted[h])
<1>1. /\ log \in Log /\ Len(log) = n + 1 /\ n \in Nat
      /\ DOMAIN hosted[h] = 1 .. n /\ DOMAIN log = 1 .. n + 1
      /\ \A i \in 1 .. n : log[i] = hosted[h][i]
      /\ log[n + 1] = a /\ copies[h] = hosted[h]
      /\ chans[h] = NoChan /\ chans[h].host = Nowhere /\ ~chans[h].seated
      /\ copies'[h] = log /\ hosted'[h] = log
      /\ \A e \in Owners : e # h => copies'[e] = copies[e] /\ hosted'[e] = hosted[e]
      /\ \A s \in Around' : s \in Around \/ s = log
  BY ActsFacts
<1>2. /\ p = h \/ (chans[p].seated /\ chans[p].host = h)
      /\ a.by = p /\ a.id = visit.actions /\ visit'.actions < visit.actions
      /\ visit.actions \in Nat /\ visit'.actions \in Nat
      /\ ToAct(hosted[h]) = p /\ screen[h].stage = "host" /\ UNCHANGED <<screen, unheard>>
  BY DEF ActsAs
<1>3. /\ hosted[h] \in Around
      /\ \A s \in Around : \A i \in DOMAIN s :
            s[i] # a /\ (p \notin unheard /\ i = n + 1 => s[i].by # p)
  BY AroundTyped, ActionIsNew
<1>4. \A i \in DOMAIN log : (i \in DOMAIN hosted[h] /\ log[i] = hosted[h][i]) \/ (i = n + 1 /\ log[i] = a)
  BY <1>1
<1> HIDE DEF n
<1>5. \A s \in Around' : InTurn(s)'
  <2> SUFFICES ASSUME NEW s \in Around' PROVE InTurn(s)'
    OBVIOUS
  <2>1. CASE s \in Around
    <3> SUFFICES ASSUME NEW i \in DOMAIN s
                 PROVE  /\ s[i].by = IF i = 1 THEN First ELSE s[i - 1].next
                        /\ visit'.actions < s[i].id
      BY DEF InTurn
    <3>1. /\ s[i].by = IF i = 1 THEN First ELSE s[i - 1].next
          /\ visit.actions < s[i].id /\ s[i].id \in Nat
      BY <2>1, ActionTyped DEF PlayedInv, InTurn
    <3> QED BY <1>2, <3>1
  <2>2. CASE s = log
    <3> SUFFICES ASSUME NEW i \in DOMAIN log
                 PROVE  /\ log[i].by = IF i = 1 THEN First ELSE log[i - 1].next
                        /\ visit'.actions < log[i].id
      BY <2>2 DEF InTurn
    <3>1. CASE i \in DOMAIN hosted[h] /\ log[i] = hosted[h][i]
      <4>1. /\ hosted[h][i].by = IF i = 1 THEN First ELSE hosted[h][i - 1].next
            /\ visit.actions < hosted[h][i].id /\ hosted[h][i].id \in Nat
        BY <1>3, <3>1, ActionTyped DEF PlayedInv, InTurn
      <4>2. i # 1 => log[i - 1] = hosted[h][i - 1]
        BY <1>1, <3>1
      <4> QED BY <1>2, <3>1, <4>1, <4>2
    <3>2. CASE i = n + 1 /\ log[i] = a
      <4>1. CASE n = 0
        <5>1. hosted[h] = << >>
          BY <1>1, <1>3, <4>1, AroundTyped DEF Log, n
        <5> QED BY <1>2, <3>2, <4>1, <5>1 DEF ToAct
      <4>2. CASE n # 0
        <5>1. hosted[h] # << >>
          BY <4>2 DEF n
        <5>2. ToAct(hosted[h]) = hosted[h][n].next
          BY <5>1 DEF ToAct, Last, n
        <5>3. i # 1 /\ i - 1 = n /\ log[n] = hosted[h][n]
          BY <1>1, <3>2, <4>2
        <5> QED BY <1>2, <3>2, <5>2, <5>3
      <4> QED BY <4>1, <4>2
    <3> QED BY <1>4, <3>1, <3>2
  <2> QED BY <1>1, <2>1, <2>2
<1>6. OneAction'
  <2> SUFFICES ASSUME NEW s \in Around', NEW t \in Around', NEW i \in DOMAIN s, NEW j \in DOMAIN t
               PROVE  /\ s[i] = t[j] => i = j
                      /\ i = j /\ s[i].by = t[j].by /\ s[i].by \notin unheard' => s[i] = t[j]
    BY DEF OneAction
  <2>1. (\E u \in Around : i \in DOMAIN u /\ u[i] = s[i]) \/ (i = n + 1 /\ s[i] = a)
    BY <1>1, <1>3, <1>4
  <2>2. (\E u \in Around : j \in DOMAIN u /\ u[j] = t[j]) \/ (j = n + 1 /\ t[j] = a)
    BY <1>1, <1>3, <1>4
  <2>3. CASE (\E u \in Around : i \in DOMAIN u /\ u[i] = s[i]) /\ (\E u \in Around : j \in DOMAIN u /\ u[j] = t[j])
    <3>1. PICK u \in Around, w \in Around : i \in DOMAIN u /\ u[i] = s[i] /\ j \in DOMAIN w /\ w[j] = t[j]
      BY <2>3
    <3>2. /\ u[i] = w[j] => i = j
          /\ i = j /\ u[i].by = w[j].by /\ u[i].by \notin unheard => u[i] = w[j]
      BY <3>1 DEF PlayedInv, OneAction
    <3> QED BY <1>2, <3>1, <3>2
  <2>4. CASE i = n + 1 /\ s[i] = a
    BY <1>2, <1>3, <2>2, <2>4
  <2>5. CASE j = n + 1 /\ t[j] = a
    BY <1>2, <1>3, <2>1, <2>5
  <2> QED BY <2>1, <2>2, <2>3, <2>4, <2>5
<1>7. \A e \in Owners : /\ DOMAIN copies[e] \subseteq DOMAIN copies'[e] /\ chans'[e].seated = chans[e].seated
                        /\ chans'[e].host = chans[e].host
                        /\ \A i \in DOMAIN hosted[e] : i \in DOMAIN hosted'[e] /\ hosted'[e][i] = hosted[e][i]
  <2> SUFFICES ASSUME NEW e \in Owners
               PROVE  /\ DOMAIN copies[e] \subseteq DOMAIN copies'[e] /\ chans'[e].seated = chans[e].seated
                      /\ chans'[e].host = chans[e].host
                      /\ \A i \in DOMAIN hosted[e] : i \in DOMAIN hosted'[e] /\ hosted'[e][i] = hosted[e][i]
    OBVIOUS
  <2>1. chans'[e].seated = chans[e].seated /\ chans'[e].host = chans[e].host
    BY DEF ActsAs
  <2>2. CASE e = h
    BY <1>1, <2>1, <2>2
  <2>3. CASE e # h
    BY <1>1, <2>1, <2>3
  <2> QED BY <2>2, <2>3
<1>8. \A e \in Owners : Offered(e) /\ chans[e].host \in Owners \cup {Nowhere}
  BY DEF PlayedInv, ReopenTypes, Chan
<1>9. OwnActions'
  <2> SUFFICES ASSUME NEW s \in Around', NEW i \in DOMAIN s, s[i].by \notin unheard'
               PROVE  Standing(s[i].by, i, s[i])'
    BY DEF OwnActions
  <2>1. CASE i = n + 1 /\ s[i] = a
    <3>1. i \in DOMAIN hosted'[h] /\ hosted'[h][i] = a /\ s[i].by = p
      BY <1>1, <1>2, <2>1
    <3>2. CASE p = h
      BY <1>1, <3>1, <3>2 DEF Standing
    <3>3. CASE p # h
      <4>1. chans'[p].seated /\ chans'[p].host = h
        BY <1>2, <1>7, <3>3
      <4> QED BY <2>1, <3>1, <4>1 DEF Standing
    <3> QED BY <3>2, <3>3
  <2>2. CASE \E u \in Around : i \in DOMAIN u /\ u[i] = s[i]
    <3>1. PICK u \in Around : i \in DOMAIN u /\ u[i] = s[i]
      BY <2>2
    <3>2. PICK q \in Owners : q = s[i].by
      BY <3>1, ActionTyped
    <3>3. Standing(q, i, s[i])
      BY <1>2, <3>1, <3>2 DEF PlayedInv, OwnActions
    <3>4. CASE i \in DOMAIN copies[q]
      BY <1>7, <3>2, <3>4 DEF Standing
    <3>5. CASE chans[q].seated /\ i \in DOMAIN hosted[chans[q].host] /\ hosted[chans[q].host][i] = s[i]
      <4>1. chans[q].host \in Owners
        <5>1. chans[q].host # Nowhere /\ chans[q].host \in Owners \cup {Nowhere}
          BY <3>2, <3>5, <1>8 DEF Offered
        <5> QED BY <5>1
      <4> QED BY <1>7, <3>2, <3>5, <4>1 DEF Standing
    <3> QED BY <3>3, <3>4, <3>5 DEF Standing
  <2> QED BY <1>1, <1>3, <1>4, <2>1, <2>2
<1>10. \A e \in Owners : Growing(e)' /\ Offered(e)' /\ HostSaves(e)'
  <2> SUFFICES ASSUME NEW e \in Owners PROVE Growing(e)' /\ Offered(e)' /\ HostSaves(e)'
    OBVIOUS
  <2>1. Growing(e) /\ Offered(e) /\ HostSaves(e) /\ chans[e] \in Chan
    BY DEF PlayedInv, ReopenTypes
  <2>2. HostSaves(e)'
    BY <1>1, <1>2, <2>1 DEF HostSaves, At
  <2>3. CASE chans[e].seated /\ chans[e].host = h
    <3> DEFINE d == chans[e].down
               m == chans'[e].down
    <3>1. /\ chans'[e].host = h /\ chans'[e].seated /\ m = Append(d, log)
          /\ \A i \in DOMAIN chans'[e].up : chans'[e].up[i].kind = "command"
      BY <2>3 DEF ActsAs
    <3>2. d \in Seq(Log)
      BY <2>1 DEF Chan
    <3>3. Offered(e)'
      BY <3>1, ReopenAssumption DEF Offered
    <3>4. e # h /\ copies'[e] = copies[e]
      BY <1>1, <2>3
    <3>5. /\ \A i \in DOMAIN d : Len(copies[e]) <= Len(d[i]) /\ Len(d[i]) <= n
          /\ \A i, j \in DOMAIN d : i <= j => Len(d[i]) <= Len(d[j])
          /\ Len(copies[e]) <= n
      BY <2>1, <2>3 DEF Growing, n
    <3> HIDE DEF d, m
    <3>6. /\ DOMAIN d = 1 .. Len(d) /\ DOMAIN m = 1 .. Len(d) + 1 /\ Len(d) \in Nat
          /\ \A i \in 1 .. Len(d) : m[i] = d[i]
          /\ m[Len(d) + 1] = log
      BY <1>1, <3>1, <3>2, LogExtended
    <3>7. \A i \in DOMAIN d : Len(d[i]) \in Nat
      BY <3>2 DEF Log
    <3>8. Len(copies[e]) \in Nat
      BY AroundTyped DEF Log
    <3>9. \A i \in DOMAIN m : (i \in DOMAIN d /\ m[i] = d[i]) \/ (i = Len(d) + 1 /\ m[i] = log)
      BY <3>6
    <3>10. \A i \in DOMAIN m : Len(copies'[e]) <= Len(m[i]) /\ Len(m[i]) <= Len(log)
      BY <1>1, <3>4, <3>5, <3>7, <3>8, <3>9
    <3>11. \A i, j \in DOMAIN m : i <= j => Len(m[i]) <= Len(m[j])
      <4> SUFFICES ASSUME NEW i \in DOMAIN m, NEW j \in DOMAIN m, i <= j PROVE Len(m[i]) <= Len(m[j])
        OBVIOUS
      <4>1. CASE j = Len(d) + 1 /\ m[j] = log
        BY <1>1, <3>10, <4>1
      <4>2. CASE j \in DOMAIN d /\ m[j] = d[j]
        <5>1. i \in DOMAIN d /\ m[i] = d[i]
          BY <3>6, <4>2
        <5> QED BY <3>5, <4>2, <5>1
      <4> QED BY <3>9, <4>1, <4>2
    <3>12. Len(copies'[e]) <= Len(hosted'[h])
      BY <1>1, <3>4, <3>5, <3>8
    <3>13. Growing(e)'
      BY <1>1, <3>1, <3>10, <3>11, <3>12 DEF Growing, m
    <3> QED BY <2>2, <3>3, <3>13
  <2>4. CASE ~(chans[e].seated /\ chans[e].host = h)
    <3>1. chans'[e] = chans[e]
      BY <2>4 DEF ActsAs
    <3>2. CASE e = h
      <4>1. Growing(e)' /\ Offered(e)'
        BY <1>1, <3>1, <3>2 DEF Growing, Offered, NoChan
      <4> QED BY <2>2, <4>1
    <3>3. CASE e # h
      <4>1. chans[e].host \in Owners \cup {Nowhere}
        BY <2>1 DEF Chan
      <4>2. chans[e].seated => hosted'[chans[e].host] = hosted[chans[e].host]
        BY <1>1, <2>1, <2>4, <4>1 DEF Offered
      <4>3. Growing(e)' /\ Offered(e)'
        BY <1>1, <2>1, <3>1, <3>3, <4>2 DEF Growing, Offered
      <4> QED BY <2>2, <4>3
    <3> QED BY <3>2, <3>3
  <2> QED BY <2>3, <2>4
<1> QED BY <1>5, <1>6, <1>9, <1>10 DEF PlayedInv

LEMMA BoundSpent ==
    ASSUME ReopenTypes, NEW bound \in {"actions", "opens", "leaves", "deaths", "cuts", "breaks"},
           Spend(bound)
    PROVE  /\ visit.actions \in Nat /\ visit'.actions \in Nat
           /\ IF bound = "actions" THEN visit'.actions < visit.actions
              ELSE visit'.actions = visit.actions
<1>1. visit \in ReopenConf
  BY DEF ReopenTypes
<1> QED BY <1>1 DEF Spend, ReopenConf

LEMMA HostActsPlayed ==
    ASSUME ReopenTypes, ChanInv, PlayedInv, NEW h \in Owners, HostActs(h)
    PROVE  \E p \in Owners : \E a, log : ActsAs(h, p, a, log)
<1>1. PICK next \in Owners : Announce(h, Append(hosted[h], NewAction(h, next)), h)
  BY DEF HostActs
<1>2. /\ screen[h].stage = "host" /\ ToAct(hosted[h]) = h /\ Spend("actions")
      /\ UNCHANGED <<screen, unheard>>
  BY DEF HostActs, At
<1>3. visit.actions \in Nat /\ visit'.actions \in Nat /\ visit'.actions < visit.actions
  BY <1>2, BoundSpent
<1>4. PICK a : a = NewAction(h, next)
  OBVIOUS
<1>5. a.by = h /\ a.id = visit.actions /\ a \in [by : Owners, next : Owners, id : Nat]
  BY <1>3, <1>4 DEF NewAction
<1>6. PICK log : log = Append(hosted[h], a)
  OBVIOUS
<1>7. Announce(h, log, h)
  BY <1>1, <1>4, <1>6
<1>8. /\ hosted' = [hosted EXCEPT ![h] = log] /\ copies' = [copies EXCEPT ![h] = log]
      /\ chans' = [d \in Owners |-> IF d \in GuestsOf(h) \ {h} /\ chans[d].seated
                                    THEN [chans[d] EXCEPT !.down = Append(@, log)] ELSE chans[d]]
  BY <1>7 DEF Announce
<1>9. chans[h].host = Nowhere
  BY <1>2 DEF ChanInv
<1>10. ASSUME NEW e \in Owners
       PROVE  IF chans[e].seated /\ chans[e].host = h
              THEN /\ chans'[e].host = h /\ chans'[e].seated = chans[e].seated
                   /\ chans'[e].down = Append(chans[e].down, log)
                   /\ \A i \in DOMAIN chans'[e].up : chans'[e].up[i].kind = "command"
              ELSE chans'[e] = chans[e]
  <2>1. e \in GuestsOf(h) \ {h} /\ chans[e].seated <=> chans[e].seated /\ chans[e].host = h
    BY <1>9, ReopenAssumption DEF GuestsOf
  <2>2. CASE chans[e].seated /\ chans[e].host = h
    <3>1. chans'[e] = [chans[e] EXCEPT !.down = Append(@, log)] /\ chans[e] \in Chan
      BY <1>8, <2>1, <2>2 DEF ReopenTypes
    <3>2. /\ chans'[e].host = chans[e].host /\ chans'[e].seated = chans[e].seated
          /\ chans'[e].up = chans[e].up /\ chans'[e].down = Append(chans[e].down, log)
      BY <3>1 DEF Chan
    <3>3. \A i \in DOMAIN chans[e].up : chans[e].up[i].kind = "command"
      BY <2>2 DEF PlayedInv, Offered
    <3> QED BY <2>2, <3>2, <3>3
  <2>3. CASE ~(chans[e].seated /\ chans[e].host = h)
    BY <1>8, <2>1, <2>3
  <2> QED BY <2>2, <2>3
<1>11. ActsAs(h, h, a, log)
  BY <1>2, <1>3, <1>5, <1>6, <1>8, <1>10 DEF ActsAs
<1> QED BY <1>11

LEMMA ExecutesPlayed ==
    ASSUME ReopenTypes, ChanInv, PlayedInv, NEW h \in Owners, NEW d \in Owners, Executes(h, d)
    PROVE  \/ \E p \in Owners : \E a, log : ActsAs(h, p, a, log)
           \/ PlayedInv' /\ copies' = copies
<1>1. PICK cmd : cmd = Head(chans[d].up)
  OBVIOUS
<1>2. PICK rest : rest = Tail(chans[d].up)
  OBVIOUS
<1>3. /\ chans[d].host = h /\ chans[d].up # << >> /\ cmd.kind = "command"
      /\ UNCHANGED <<screen, unheard>>
  BY <1>1 DEF Executes, GuestsOf
<1>4. chans[d].up \in Seq(Offer) /\ chans[d] \in Chan
  BY DEF ReopenTypes, Chan
<1>5. /\ cmd \in Offer /\ cmd = chans[d].up[1] /\ 1 \in DOMAIN chans[d].up
      /\ \A i \in DOMAIN rest : i + 1 \in DOMAIN chans[d].up /\ rest[i] = chans[d].up[i + 1]
  BY <1>1, <1>2, <1>3, <1>4
<1>6. cmd.next \in Owners
  BY <1>3, <1>5 DEF Offer
<1>7. chans[d].host # Nowhere /\ screen[h].stage = "host"
  BY <1>3, ReopenAssumption DEF ChanInv
<1>8. chans[d].seated
  <2>1. ASSUME ~chans[d].seated PROVE FALSE
    <3>1. PICK m : m = [kind |-> "hello", log |-> copies[d]]
      OBVIOUS
    <3>2. chans[d].up = <<m>>
      BY <1>7, <2>1, <3>1 DEF PlayedInv, Offered
    <3>3. cmd = m
      BY <1>5, <3>2
    <3> QED BY <1>3, <3>1, <3>3
  <2> QED BY <2>1
<1>9. \A i \in DOMAIN rest : rest[i].kind = "command"
  BY <1>5, <1>8 DEF PlayedInv, Offered
<1>10. CASE ToAct(hosted[h]) = d
  <2>1. PICK a : a = NewAction(d, cmd.next)
    OBVIOUS
  <2>2. PICK log : log = Append(hosted[h], a)
    OBVIOUS
  <2>3. /\ Spend("actions")
        /\ hosted' = [hosted EXCEPT ![h] = log] /\ copies' = [copies EXCEPT ![h] = log]
        /\ chans' = [e \in Owners |->
              IF e \notin GuestsOf(h) \/ ~chans[e].seated THEN chans[e]
              ELSE [chans[e] EXCEPT !.up = IF e = d THEN Tail(@) ELSE @, !.down = Append(@, log)]]
    BY <1>1, <1>10, <2>1, <2>2 DEF Executes
  <2>4. visit.actions \in Nat /\ visit'.actions \in Nat /\ visit'.actions < visit.actions
    BY <2>3, BoundSpent
  <2>5. a.by = d /\ a.id = visit.actions /\ a \in [by : Owners, next : Owners, id : Nat]
    BY <1>6, <2>1, <2>4 DEF NewAction
  <2>6. ASSUME NEW e \in Owners
        PROVE  IF chans[e].seated /\ chans[e].host = h
               THEN /\ chans'[e].host = h /\ chans'[e].seated = chans[e].seated
                    /\ chans'[e].down = Append(chans[e].down, log)
                    /\ \A i \in DOMAIN chans'[e].up : chans'[e].up[i].kind = "command"
               ELSE chans'[e] = chans[e]
    <3>1. e \in GuestsOf(h) /\ chans[e].seated <=> chans[e].seated /\ chans[e].host = h
      BY DEF GuestsOf
    <3>2. CASE chans[e].seated /\ chans[e].host = h
      <4>1. PICK up : up = IF e = d THEN Tail(chans[e].up) ELSE chans[e].up
        OBVIOUS
      <4>2. chans'[e] = [chans[e] EXCEPT !.up = IF e = d THEN Tail(@) ELSE @, !.down = Append(@, log)]
        BY <2>3, <3>1, <3>2
      <4>3. chans[e] \in Chan
        BY DEF ReopenTypes
      <4>4. /\ chans'[e].host = chans[e].host /\ chans'[e].seated = chans[e].seated
            /\ chans'[e].up = up /\ chans'[e].down = Append(chans[e].down, log)
        BY <4>1, <4>2, <4>3 DEF Chan
      <4>5. \A i \in DOMAIN chans[e].up : chans[e].up[i].kind = "command"
        BY <3>2 DEF PlayedInv, Offered
      <4>6. \A i \in DOMAIN up : up[i].kind = "command"
        BY <1>2, <1>9, <4>1, <4>5
      <4> QED BY <3>2, <4>4, <4>6
    <3>3. CASE ~(chans[e].seated /\ chans[e].host = h)
      BY <2>3, <3>1, <3>3
    <3> QED BY <3>2, <3>3
  <2>7. ActsAs(h, d, a, log)
    BY <1>3, <1>7, <1>8, <1>10, <2>2, <2>3, <2>4, <2>5, <2>6 DEF ActsAs
  <2> QED BY <2>7
<1>11. CASE ToAct(hosted[h]) # d
  <2>1. chans' = [chans EXCEPT ![d].up = rest] /\ UNCHANGED <<visit, hosted, copies>>
    BY <1>2, <1>11 DEF Executes
  <2> QED BY <1>3, <1>8, <1>9, <2>1, CommandsOnly
<1> QED BY <1>10, <1>11

(* A player that hosts no more, and whose guests lose their channels.       *)
LEMMA CutPlayed ==
    ASSUME ReopenTypes, ChanInv, PlayedInv, NEW d \in Owners, NEW s, Cut(d, s), s.stage # "host",
           visit'.actions = visit.actions
    PROVE  PlayedInv' /\ copies' = copies
<1> DEFINE others == GuestsOf(d)
<1>1. /\ Close(others \cup {d}) /\ hosted' = [hosted EXCEPT ![d] = << >>] /\ copies' = copies
  BY DEF Cut
<1>2. PICK after :
         /\ \A g \in others : after[g] \in Cutoff(screen[g])
         /\ screen' = [e \in Owners |-> IF e = d THEN s
                                        ELSE IF e \in others THEN after[e] ELSE screen[e]]
  BY DEF Cut
<1>3. others \cup {d} \in SUBSET Owners /\ GuestsOf(d) \subseteq others \cup {d}
  BY DEF GuestsOf
<1> HIDE DEF others
<1>4. /\ hosted'[d] = << >> /\ \A e \in Owners : e # d => hosted'[e] = hosted[e]
      /\ \A e \in Owners : screen[e] \in Screens
  BY <1>1 DEF ReopenTypes
<1>5. \A e \in Owners : hosted'[e] = hosted[e] \/ (hosted'[e] = << >> /\ GuestsOf(e) \subseteq others \cup {d})
  BY <1>3, <1>4
<1>6. ASSUME NEW e \in Owners, screen'[e].stage = "host"
      PROVE  screen[e].stage = "host" /\ hosted'[e] = hosted[e]
  <2>1. e # d
    BY <1>2, <1>6
  <2>2. CASE e \in others
    <3>1. screen'[e] \in Cutoff(screen[e])
      BY <1>2, <2>1, <2>2
    <3> QED BY <1>4, <1>6, <3>1, CutoffFacts
  <2>3. CASE e \notin others
    BY <1>2, <1>4, <1>6, <2>1, <2>3
  <2> QED BY <2>2, <2>3
<1> QED BY <1>1, <1>3, <1>5, <1>6, ClosePlayed

LEMMA LeavesPlayed ==
    ASSUME ReopenTypes, ChanInv, PlayedInv, NEW d \in Owners,
           Killed(d) \/ Ousted(d) \/ \E again \in BOOLEAN : Abort(d, again)
    PROVE  PlayedInv' /\ copies' = copies
<1>1. CASE Killed(d)
  <2>1. Spend("deaths") /\ Cut(d, Screen("away"))
    BY <1>1 DEF Killed
  <2>2. visit'.actions = visit.actions /\ Screen("away").stage # "host"
    BY <2>1, BoundSpent DEF Screen
  <2> QED BY <2>1, <2>2, CutPlayed
<1>2. CASE Ousted(d)
  <2>1. PICK s : s = [Screen("ousted") EXCEPT !.old = screen[d].old]
    OBVIOUS
  <2>2. Cut(d, s) /\ visit' = visit
    BY <1>2, <2>1 DEF Ousted, Dispose
  <2>3. s.stage # "host"
    BY <2>1 DEF Screen
  <2> QED BY <2>2, <2>3, CutPlayed
<1>3. ASSUME NEW again \in BOOLEAN, Abort(d, again) PROVE PlayedInv' /\ copies' = copies
  <2>1. PICK s : s = IF again THEN Flow([screen[d] EXCEPT !.old = Aborted(screen[d])])
                     ELSE [Screen("away") EXCEPT !.old = Aborted(screen[d])]
    OBVIOUS
  <2>2. /\ Spend("leaves")
        /\ IF screen[d].stage = "asking"
           THEN Set(d, s) /\ UNCHANGED <<copies, hosted, chans, unheard>>
           ELSE Dispose(d, s)
    BY <1>3, <2>1 DEF Abort
  <2>3. s.stage # "host" /\ visit'.actions = visit.actions
    BY <2>1, <2>2, BoundSpent DEF Flow, Screen
  <2>4. CASE screen[d].stage = "asking"
    <3>1. screen' = [screen EXCEPT ![d] = s] /\ UNCHANGED <<copies, hosted, chans, unheard>>
      BY <2>2, <2>4 DEF Set
    <3>2. \A e \in Owners : screen'[e].stage = "host" => screen[e].stage = "host"
      BY <2>3, <3>1 DEF ReopenTypes
    <3> QED BY <2>3, <3>1, <3>2, ScreensOnly
  <2>5. CASE screen[d].stage # "asking"
    BY <2>2, <2>3, <2>5, CutPlayed DEF Dispose
  <2> QED BY <2>4, <2>5
<1> QED BY <1>1, <1>2, <1>3

LEMMA BreaksPlayed ==
    ASSUME ReopenTypes, ChanInv, PlayedInv, NEW d \in Owners, Breaks(d)
    PROVE  PlayedInv' /\ copies' = copies
<1>1. Close({d}) /\ Spend("breaks") /\ UNCHANGED <<copies, hosted>>
  BY DEF Breaks
<1>2. PICK s \in Cutoff(screen[d]) : screen' = [screen EXCEPT ![d] = [s EXCEPT !.tries = 0]]
  BY DEF Breaks, Set
<1>3. screen \in [Owners -> Screens]
  BY DEF ReopenTypes
<1>4. [s EXCEPT !.tries = 0].stage \in {"down", "pausing", "failed"}
  <2>1. s.stage \in {"down", "pausing", "failed"} /\ [s EXCEPT !.tries = 0].stage = s.stage
    BY <1>3, CutoffFacts
  <2> QED BY <2>1
<1>5. \A e \in Owners : screen'[e].stage = "host" => screen[e].stage = "host"
  BY <1>2, <1>3, <1>4
<1>6. visit'.actions = visit.actions
  BY <1>1, BoundSpent
<1> QED BY <1>1, <1>5, <1>6, ClosePlayed

(* Steps of one screen.                                                     *)
LEMMA ScreenPlayed ==
    ASSUME ReopenTypes, PlayedInv, NEW d \in Owners, NEW s, Set(d, s),
           s.stage = "host" => screen[d].stage = "host",
           visit'.actions = visit.actions, UNCHANGED <<copies, hosted, chans, unheard>>
    PROVE  PlayedInv'
<1>1. \A e \in Owners : screen'[e].stage = "host" => screen[e].stage = "host"
  BY DEF ReopenTypes, Set
<1> QED BY <1>1, ScreensOnly

LEMMA FlowsPlayed ==
    ASSUME ReopenTypes, PlayedInv, NEW d \in Owners, OpenScreen(d) \/ Reconnect(d) \/ Resumes(d)
    PROVE  PlayedInv' /\ copies' = copies
<1>1. Set(d, Flow(screen[d])) /\ UNCHANGED <<copies, hosted, chans, unheard>>
  BY DEF OpenScreen, Reconnect, Resumes
<1>2. Flow(screen[d]).stage # "host"
  BY DEF Flow, Screen
<1>3. visit'.actions = visit.actions
  <2>1. visit' = visit \/ Spend("opens")
    BY DEF OpenScreen, Reconnect, Resumes
  <2> QED BY <2>1, BoundSpent
<1> QED BY <1>1, <1>2, <1>3, ScreenPlayed

LEMMA AnswersPlayed ==
    ASSUME ReopenTypes, PlayedInv, NEW d \in Owners,
           Register(d) \/ RegisterOld(d) \/ OldEnds(d) \/ Taken(d) \/ HostFails(d) \/ JoinFails(d)
    PROVE  PlayedInv' /\ copies' = copies
<1>1. screen[d] \in Screens
  BY DEF ReopenTypes
<1>2. PICK s : /\ Set(d, s) /\ (s.stage = "host" => screen[d].stage = "host")
               /\ UNCHANGED <<visit, copies, hosted, chans, unheard>>
  <2>1. CASE Register(d)
    BY <1>1, <2>1 DEF Register, Screens
  <2>2. CASE RegisterOld(d)
    BY <1>1, <2>2 DEF RegisterOld, Screens
  <2>3. CASE OldEnds(d)
    BY <1>1, <2>3 DEF OldEnds, Screens
  <2>4. CASE Taken(d)
    BY <1>1, <2>4 DEF Taken, Screens, At
  <2>5. CASE HostFails(d)
    <3>1. PICK stage \in {"pausing", "failed"} :
            Set(d, [screen[d] EXCEPT !.stage = stage, !.ask = "none", !.tries = 0])
      BY <2>5 DEF HostFails
    <3>2. [screen[d] EXCEPT !.stage = stage, !.ask = "none", !.tries = 0].stage # "host"
      BY <1>1 DEF Screens
    <3>3. UNCHANGED <<visit, copies, hosted, chans, unheard>>
      BY <2>5 DEF HostFails
    <3> QED BY <3>1, <3>2, <3>3
  <2>6. CASE JoinFails(d)
    <3>1. PICK stage \in {"pausing", "failed"} :
            Set(d, [screen[d] EXCEPT !.stage = stage, !.tries = 0])
      BY <2>6 DEF JoinFails
    <3>2. [screen[d] EXCEPT !.stage = stage, !.tries = 0].stage # "host"
      BY <1>1 DEF Screens
    <3>3. UNCHANGED <<visit, copies, hosted, chans, unheard>>
      BY <2>6 DEF JoinFails
    <3> QED BY <3>1, <3>2, <3>3
  <2> QED BY <2>1, <2>2, <2>3, <2>4, <2>5, <2>6
<1> QED BY <1>2, ScreenPlayed

LEMMA SocketsPlayed ==
    ASSUME ReopenTypes, PlayedInv, NEW d \in Owners,
           SocketDrops(d) \/ Disconnected(d) \/ Reregister(d) \/ Reregistered(d) \/ NotReregistered(d)
    PROVE  PlayedInv' /\ copies' = copies
<1>1. screen[d].stage = "host" /\ UNCHANGED <<copies, hosted, chans, unheard>>
  BY DEF SocketDrops, Disconnected, Reregister, Reregistered, NotReregistered, At
<1>2. PICK s : Set(d, s)
  BY DEF SocketDrops, Disconnected, Reregister, Reregistered, NotReregistered
<1>3. visit' = visit \/ Spend("cuts")
  BY DEF SocketDrops, Disconnected, Reregister, Reregistered, NotReregistered
<1>4. visit'.actions = visit.actions
  BY <1>3, BoundSpent
<1> QED BY <1>1, <1>2, <1>4, ScreenPlayed

(* Two copies part at the turn of one player, who never heard of an action.  *)
LEMMA PartAtOne ==
    ASSUME ReopenTypes, PlayedInv, NEW s \in Around, NEW t \in Around, NEW i \in Branch(s, t)
    PROVE  s[i].by = t[i].by /\ s[i].by \in unheard
<1>1. i \in DOMAIN s /\ i \in DOMAIN t /\ s[i] # t[i] /\ \A j \in 1 .. i - 1 : s[j] = t[j]
  BY DEF Branch
<1>2. i \in 1 .. Len(s) /\ Len(s) \in Nat
  <2>1. s \in Log
    BY AroundTyped
  <2> QED BY <1>1, <2>1, ActionTyped DEF Log
<1>3. /\ s[i].by = IF i = 1 THEN First ELSE s[i - 1].next
      /\ t[i].by = IF i = 1 THEN First ELSE t[i - 1].next
  BY <1>1 DEF PlayedInv, InTurn
<1>4. s[i].by = t[i].by
  <2>1. i # 1 => i - 1 \in 1 .. i - 1
    BY <1>2
  <2> QED BY <1>1, <1>3, <2>1
<1> QED BY <1>1, <1>4 DEF PlayedInv, OneAction

GoneOn(d) ==
    \/ IsPrefix(copies[d], copies'[d])
    \/ /\ Len(copies'[d]) >= Len(copies[d])
       /\ \A i \in Branch(copies[d], copies'[d]) :
             copies[d][i].by = copies'[d][i].by /\ copies[d][i].by \in unheard

LEMMA SameCopy ==
    ASSUME ReopenTypes, NEW d \in Owners, copies'[d] = copies[d]
    PROVE  GoneOn(d)
<1>1. copies[d] \in Log
  BY DEF ReopenTypes
<1>2. Len(copies[d]) \in Nat
  BY <1>1 DEF Log
<1>3. Branch(copies[d], copies'[d]) = {}
  BY DEF Branch
<1>4. Len(copies'[d]) >= Len(copies[d])
  BY <1>2
<1> QED BY <1>3, <1>4 DEF GoneOn

LEMMA LongerCopy ==
    ASSUME ReopenTypes, PlayedInv, NEW d \in Owners, copies'[d] \in Around,
           Len(copies'[d]) >= Len(copies[d])
    PROVE  GoneOn(d)
<1>1. copies[d] \in Around
  BY AroundTyped
<1>2. PICK t \in Around : t = copies'[d]
  OBVIOUS
<1>3. \A i \in Branch(copies[d], t) : copies[d][i].by = t[i].by /\ copies[d][i].by \in unheard
  BY <1>1, PartAtOne
<1> QED BY <1>2, <1>3 DEF GoneOn

LEMMA ActsGoOn ==
    ASSUME ReopenTypes, ChanInv, PlayedInv, NEW h \in Owners, NEW p \in Owners, NEW a, NEW log,
           ActsAs(h, p, a, log)
    PROVE  \A d \in Owners : GoneOn(d)
<1>1. /\ log \in Log /\ Len(log) = Len(hosted[h]) + 1 /\ Len(hosted[h]) \in Nat
      /\ DOMAIN hosted[h] = 1 .. Len(hosted[h])
      /\ \A i \in 1 .. Len(hosted[h]) : log[i] = hosted[h][i]
      /\ copies[h] = hosted[h] /\ copies'[h] = log
      /\ \A e \in Owners : e # h => copies'[e] = copies[e]
  BY ActsFacts
<1>2. GoneOn(h)
  <2>1. Branch(copies[h], copies'[h]) = {}
    BY <1>1 DEF Branch
  <2>2. Len(copies'[h]) >= Len(copies[h])
    BY <1>1
  <2> QED BY <2>1, <2>2 DEF GoneOn
<1> QED BY <1>1, <1>2, SameCopy

LEMMA AllSame ==
    ASSUME ReopenTypes, UNCHANGED copies
    PROVE  \A d \in Owners : GoneOn(d)
BY SameCopy

LEMMA PlayedSteps ==
    ASSUME TwoPlayers, ReopenTypes, ChanInv, PlayedInv, [ReopenNext]_reopenVars
    PROVE  PlayedInv' /\ \A d \in Owners : GoneOn(d)
<1>1. CASE UNCHANGED reopenVars
  <2>1. UNCHANGED <<visit, screen, copies, hosted, chans, unheard>>
    BY <1>1 DEF reopenVars
  <2> QED BY <2>1, ScreensOnly, AllSame
<1>2. CASE Expire
  <2>1. UNCHANGED <<visit, screen, copies, hosted, chans, unheard>>
    BY <1>2 DEF Expire
  <2> QED BY <2>1, ScreensOnly, AllSame
<1>3. ASSUME NEW d \in Owners, OpenScreen(d) \/ Reconnect(d) \/ Resumes(d)
      PROVE  PlayedInv' /\ \A e \in Owners : GoneOn(e)
  BY <1>3, FlowsPlayed, AllSame
<1>4. ASSUME NEW d \in Owners, Killed(d) \/ Ousted(d) \/ \E again \in BOOLEAN : Abort(d, again)
      PROVE  PlayedInv' /\ \A e \in Owners : GoneOn(e)
  BY <1>4, LeavesPlayed, AllSame
<1>5. ASSUME NEW d \in Owners,
             Register(d) \/ RegisterOld(d) \/ OldEnds(d) \/ Taken(d) \/ HostFails(d) \/ JoinFails(d)
      PROVE  PlayedInv' /\ \A e \in Owners : GoneOn(e)
  BY <1>5, AnswersPlayed, AllSame
<1>6. ASSUME NEW d \in Owners,
             SocketDrops(d) \/ Disconnected(d) \/ Reregister(d) \/ Reregistered(d) \/ NotReregistered(d)
      PROVE  PlayedInv' /\ \A e \in Owners : GoneOn(e)
  BY <1>6, SocketsPlayed, AllSame
<1>7. ASSUME NEW d \in Owners, Breaks(d) PROVE PlayedInv' /\ \A e \in Owners : GoneOn(e)
  BY <1>7, BreaksPlayed, AllSame
<1>8. ASSUME NEW d \in Owners, Hosts(d) \/ Connects(d) \/ GuestActs(d)
      PROVE  PlayedInv' /\ \A e \in Owners : GoneOn(e)
  <2>1. UNCHANGED copies
    BY <1>8 DEF Hosts, Connects, GuestActs
  <2> QED BY <1>8, <2>1, HostsPlayed, ConnectsPlayed, GuestActsPlayed, AllSame
<1>9. ASSUME NEW d \in Owners, Hears(d) PROVE PlayedInv' /\ \A e \in Owners : GoneOn(e)
  <2>1. PlayedInv' /\ GoneOn(d)
    BY <1>9, HearsPlayed, LongerCopy
  <2>2. \A e \in Owners : e # d => copies'[e] = copies[e]
    BY <1>9 DEF Hears, ReopenTypes
  <2> QED BY <2>1, <2>2, SameCopy
<1>10. ASSUME NEW d \in Owners, HostActs(d) PROVE PlayedInv' /\ \A e \in Owners : GoneOn(e)
  BY <1>10, HostActsPlayed, ActsPlayed, ActsGoOn
<1>11. ASSUME NEW d \in Owners, NEW h \in Owners, Executes(h, d)
       PROVE  PlayedInv' /\ \A e \in Owners : GoneOn(e)
  BY <1>11, ExecutesPlayed, ActsPlayed, ActsGoOn, AllSame
<1>12. ASSUME NEW d \in Owners, NEW h \in Owners, Greets(h, d)
       PROVE  PlayedInv' /\ \A e \in Owners : GoneOn(e)
  <2>1. /\ PlayedInv' /\ \A e \in Owners : e # h => copies'[e] = copies[e]
        /\ Len(copies'[h]) >= Len(copies[h]) /\ copies'[h] \in Around
    BY <1>12, GreetsPlayed
  <2> QED BY <2>1, SameCopy, LongerCopy
<1> QED BY <1>1, <1>2, <1>3, <1>4, <1>5, <1>6, <1>7, <1>8, <1>9, <1>10, <1>11, <1>12 DEF ReopenNext

LEMMA PlayedStarts == ReopenInit => PlayedInv
<1> SUFFICES ASSUME ReopenInit PROVE PlayedInv
  OBVIOUS
<1>1. \A s \in Around : s = << >>
  <2> SUFFICES ASSUME NEW s, AroundNow(s) PROVE s = << >>
    BY AroundIs
  <2> QED BY DEF AroundNow, ReopenInit, NoChan
<1>2. \A s \in Around : InTurn(s)
  BY <1>1 DEF InTurn
<1>3. OneAction /\ OwnActions
  BY <1>1 DEF OneAction, OwnActions
<1>4. \A d \in Owners : Growing(d) /\ Offered(d) /\ HostSaves(d)
  BY DEF Growing, Offered, HostSaves, ReopenInit, NoChan
<1> QED BY <1>2, <1>3, <1>4 DEF PlayedInv

-----------------------------------------------------------------------------
(* "The newer copy of the match wins" (GameScreen.tsx): between two players, whoever
   hosts, leaves, is cut off or comes back with another copy, what a device has saved
   is only gone on with, or exchanged for a copy at least as long that parts from it
   at an action of a player who never heard of one of its own.              *)
THEOREM NewerCopyWins == TwoPlayers => (ReopenSpec => NothingUndone)
<1> SUFFICES ASSUME TwoPlayers PROVE ReopenSpec => NothingUndone
  OBVIOUS
<1>1. ReopenInit => ReopenInv /\ PlayedInv
  BY ReopenStarts, PlayedStarts
<1>2. ReopenInv /\ PlayedInv /\ [ReopenNext]_reopenVars
        => ReopenInv' /\ PlayedInv' /\ \A d \in Owners : GoneOn(d)
  BY ReopenSteps, PlayedSteps DEF ReopenInv
<1>3. (\A d \in Owners : GoneOn(d)) =>
        [\A d \in Owners :
           \/ IsPrefix(copies[d], copies'[d])
           \/ /\ Len(copies'[d]) >= Len(copies[d])
              /\ \A i \in Branch(copies[d], copies'[d]) :
                    copies[d][i].by = copies'[d][i].by /\ copies[d][i].by \in unheard]_reopenVars
  BY DEF GoneOn
<1> QED BY <1>1, <1>2, <1>3, PTL DEF ReopenSpec, NothingUndone

-----------------------------------------------------------------------------
(* Playing while apart: the values of Mailbox's variables.                  *)

Turns    == Mailed \X Nat
MailLogs == Seq(Turns)
Copies   == [log : MailLogs, push : BOOLEAN]
Letters  == [id : Nat, from : Mailed, kind : {"cmd", "view"}, move : Turns \cup {<< >>},
             log : MailLogs, live : BOOLEAN, base : Int, push : BOOLEAN]
MailSteps == {"off", "open", "store", "moves", "deliver", "apply", "mark", "put", "mail", "ack"}
MailRuns == [at : Mailed, page : BOOLEAN, via : {"check", "push", "again"}, pc : MailSteps,
             mail : SUBSET Letters, known : MailLogs, snap : Copies, to : SUBSET Guests,
             done : SUBSET Nat, again : BOOLEAN]

(* One copy goes on from another; a move is in a copy.                      *)
Before(a, b) == Len(a) <= Len(b) /\ \A i \in 1 .. Len(a) : a[i] = b[i]
Within(move, log) == \E i \in DOMAIN log : log[i] = move

LEMMA LogFacts ==
    ASSUME NEW a \in MailLogs
    PROVE  Len(a) \in Nat /\ DOMAIN a = 1 .. Len(a) /\ \A i \in 1 .. Len(a) : a[i] \in Turns
BY LenProperties, SeqEntries DEF MailLogs

LEMMA NoMoves == << >> \in MailLogs /\ \A a \in MailLogs : Before(<< >>, a)
BY LogFacts DEF MailLogs, Before

LEMMA BeforeSelf ==
    ASSUME NEW a \in MailLogs
    PROVE  Before(a, a)
BY LogFacts DEF Before

LEMMA BeforeOn ==
    ASSUME NEW a \in MailLogs, NEW b \in MailLogs, NEW c \in MailLogs, Before(a, b), Before(b, c)
    PROVE  Before(a, c)
BY LogFacts DEF Before

LEMMA WithinOn ==
    ASSUME NEW a \in MailLogs, NEW b \in MailLogs, Before(a, b), NEW move, Within(move, a)
    PROVE  Within(move, b)
BY LogFacts DEF Before, Within

LEMMA OneMore ==
    ASSUME NEW a \in MailLogs, NEW x \in Turns
    PROVE  Append(a, x) \in MailLogs /\ Before(a, Append(a, x)) /\ Within(x, Append(a, x))
<1> DEFINE b == Append(a, x)
<1>1. /\ b \in MailLogs /\ Len(a) \in Nat /\ Len(b) = Len(a) + 1
      /\ DOMAIN a = 1 .. Len(a) /\ DOMAIN b = 1 .. Len(a) + 1
      /\ \A i \in DOMAIN a : b[i] = a[i]
      /\ Len(a) + 1 \in DOMAIN b /\ b[Len(a) + 1] = x
  BY AppendFacts DEF MailLogs
<1> HIDE DEF b
<1>2. Before(a, b)
  BY <1>1 DEF Before
<1>3. Within(x, b)
  BY <1>1 DEF Within
<1> QED BY <1>1, <1>2, <1>3 DEF b

LEMMA ManyMore ==
    ASSUME NEW a \in MailLogs, NEW b \in MailLogs
    PROVE  /\ a \o b \in MailLogs /\ Before(a, a \o b)
           /\ \A move : Within(move, b) => Within(move, a \o b)
<1> DEFINE c == a \o b
<1>1. /\ c \in MailLogs /\ Len(c) = Len(a) + Len(b)
      /\ \A i \in 1 .. Len(a) : c[i] = a[i]
      /\ \A i \in 1 .. Len(b) : c[Len(a) + i] = b[i]
  <2>1. \A i \in 1 .. Len(a) + Len(b) : c[i] = IF i <= Len(a) THEN a[i] ELSE b[i - Len(a)]
    BY ConcatProperties DEF MailLogs
  <2>2. c \in MailLogs /\ Len(c) = Len(a) + Len(b)
    BY ConcatProperties DEF MailLogs
  <2>3. Len(a) \in Nat /\ Len(b) \in Nat
    BY LogFacts
  <2> HIDE DEF c
  <2>4. ASSUME NEW i \in 1 .. Len(a) PROVE c[i] = a[i]
    BY <2>1, <2>3
  <2>5. ASSUME NEW i \in 1 .. Len(b) PROVE c[Len(a) + i] = b[i]
    <3>1. Len(a) + i \in 1 .. Len(a) + Len(b) /\ ~(Len(a) + i <= Len(a)) /\ (Len(a) + i) - Len(a) = i
      BY <2>3
    <3> QED BY <3>1, <2>1
  <2> QED BY <2>2, <2>4, <2>5
<1> HIDE DEF c
<1>2. Len(a) \in Nat /\ Len(b) \in Nat /\ DOMAIN b = 1 .. Len(b) /\ DOMAIN c = 1 .. Len(c)
  BY <1>1, LogFacts
<1>3. Before(a, c)
  BY <1>1, <1>2 DEF Before
<1>4. ASSUME NEW move, Within(move, b) PROVE Within(move, c)
  <2>1. PICK i \in 1 .. Len(b) : b[i] = move
    BY <1>2, <1>4 DEF Within
  <2>2. Len(a) + i \in 1 .. Len(c) /\ c[Len(a) + i] = move
    BY <2>1, <1>1, <1>2
  <2> QED BY <2>2, <1>2 DEF Within
<1> QED BY <1>1, <1>3, <1>4 DEF c

LEMMA ChangeTyped ==
    ASSUME NEW a \in MailLogs, NEW b \in MailLogs, Len(a) <= Len(b)
    PROVE  /\ a \o SubSeq(b, Len(a) + 1, Len(b)) \in MailLogs
           /\ Len(a \o SubSeq(b, Len(a) + 1, Len(b))) = Len(b)
           /\ \A i \in 1 .. Len(b) : (a \o SubSeq(b, Len(a) + 1, Len(b)))[i] =
                 IF i <= Len(a) THEN a[i] ELSE b[i]
<1> DEFINE rest == SubSeq(b, Len(a) + 1, Len(b))
           c == a \o rest
<1>1. Len(a) \in Nat /\ Len(b) \in Nat
  BY LogFacts
<1>2. /\ rest \in MailLogs /\ Len(rest) = Len(b) - Len(a)
      /\ \A i \in 1 .. Len(b) - Len(a) : rest[i] = b[Len(a) + i]
  <2>1. Len(a) + 1 \in 1 .. Len(b) + 1 /\ Len(b) \in Len(a) .. Len(b)
    BY <1>1
  <2>2. /\ rest \in Seq(Turns)
        /\ Len(rest) = IF Len(a) + 1 <= Len(b) THEN Len(b) - (Len(a) + 1) + 1 ELSE 0
        /\ \A i \in 1 .. Len(b) - (Len(a) + 1) + 1 : rest[i] = b[Len(a) + 1 + i - 1]
    <3>1. \A i \in Len(a) + 1 .. Len(b) : b[i] \in Turns
      BY <1>1, LogFacts
    <3> QED BY <1>1, <3>1, <2>1, SubSeqProperties DEF MailLogs
  <2> HIDE DEF rest
  <2>3. Len(rest) = Len(b) - Len(a)
    BY <2>2, <1>1
  <2>4. ASSUME NEW i \in 1 .. Len(b) - Len(a) PROVE rest[i] = b[Len(a) + i]
    <3>1. i \in 1 .. Len(b) - (Len(a) + 1) + 1 /\ Len(a) + 1 + i - 1 = Len(a) + i
      BY <1>1
    <3> QED BY <3>1, <2>2
  <2> QED BY <2>2, <2>3, <2>4 DEF MailLogs
<1>3. /\ c \in MailLogs /\ Len(c) = Len(b)
      /\ \A i \in 1 .. Len(b) : c[i] = IF i <= Len(a) THEN a[i] ELSE rest[i - Len(a)]
  <2> HIDE DEF rest
  <2>1. /\ c \in MailLogs /\ Len(c) = Len(a) + Len(rest)
        /\ \A i \in 1 .. Len(a) + Len(rest) : c[i] = IF i <= Len(a) THEN a[i] ELSE rest[i - Len(a)]
    BY <1>2, ConcatProperties DEF MailLogs
  <2> HIDE DEF c
  <2>2. Len(a) + Len(rest) = Len(b)
    BY <1>1, <1>2
  <2> QED BY <2>1, <2>2
<1>4. ASSUME NEW i \in 1 .. Len(b), ~(i <= Len(a)) PROVE c[i] = b[i]
  <2>1. i - Len(a) \in 1 .. Len(b) - Len(a) /\ Len(a) + (i - Len(a)) = i
    BY <1>1, <1>4
  <2> HIDE DEF c, rest
  <2> QED BY <2>1, <1>2, <1>3, <1>4
<1>5. \A i \in 1 .. Len(b) : c[i] = IF i <= Len(a) THEN a[i] ELSE b[i]
  <2> HIDE DEF c, rest
  <2> QED BY <1>3, <1>4
<1> HIDE DEF c
<1> QED BY <1>3, <1>5 DEF c

(* A change put on the copy it is from gives the copy it leads to.          *)
LEMMA ChangeTrue ==
    ASSUME NEW all \in MailLogs, NEW a \in MailLogs, NEW b \in MailLogs,
           Before(a, all), Before(b, all), Len(a) <= Len(b)
    PROVE  /\ a \o SubSeq(b, Len(a) + 1, Len(b)) \in MailLogs
           /\ Before(a \o SubSeq(b, Len(a) + 1, Len(b)), all)
<1> DEFINE c == a \o SubSeq(b, Len(a) + 1, Len(b))
<1>1. /\ c \in MailLogs /\ Len(c) = Len(b)
      /\ \A i \in 1 .. Len(b) : c[i] = IF i <= Len(a) THEN a[i] ELSE b[i]
  BY ChangeTyped
<1> HIDE DEF c
<1>2. Len(a) \in Nat /\ Len(b) \in Nat
  BY LogFacts
<1>3. Before(c, all)
  BY <1>1, <1>2 DEF Before
<1> QED BY <1>1, <1>3 DEF c

(* What Before says is that one is a prefix of the other.                   *)
LEMMA BeforePrefix ==
    ASSUME NEW a \in MailLogs, NEW b \in MailLogs, Before(a, b)
    PROVE  IsPrefix(a, b)
<1>1. Len(a) \in Nat /\ Len(b) \in Nat /\ Len(a) <= Len(b)
  BY LogFacts DEF Before
<1> DEFINE c == SubSeq(a, 1, Len(a))
           d == SubSeq(b, 1, Len(a))
<1>2. c \in Seq(Turns) /\ Len(c) = Len(a) /\ \A i \in 1 .. Len(a) : c[i] = a[i]
  <2>1. \A i \in 1 .. Len(a) : a[i] \in Turns
    BY LogFacts
  <2>2. /\ c \in Seq(Turns) /\ Len(c) = IF 1 <= Len(a) THEN Len(a) - 1 + 1 ELSE 0
        /\ \A i \in 1 .. Len(a) - 1 + 1 : c[i] = a[1 + i - 1]
    BY <1>1, <2>1, SubSeqProperties DEF MailLogs
  <2> HIDE DEF c
  <2> QED BY <1>1, <2>2
<1>3. d \in Seq(Turns) /\ Len(d) = Len(a) /\ \A i \in 1 .. Len(a) : d[i] = b[i]
  <2>1. \A i \in 1 .. Len(a) : b[i] \in Turns
    BY <1>1, LogFacts
  <2>2. /\ d \in Seq(Turns) /\ Len(d) = IF 1 <= Len(a) THEN Len(a) - 1 + 1 ELSE 0
        /\ \A i \in 1 .. Len(a) - 1 + 1 : d[i] = b[1 + i - 1]
    BY <1>1, <2>1, SubSeqProperties DEF MailLogs
  <2> HIDE DEF d
  <2> QED BY <1>1, <2>2
<1> HIDE DEF c, d
<1>4. \A i \in 1 .. Len(a) : c[i] = d[i]
  BY <1>2, <1>3 DEF Before
<1>5. c = d
  BY <1>2, <1>3, <1>4, SeqEqual
<1> QED BY <1>1, <1>5 DEF IsPrefix, c, d

-----------------------------------------------------------------------------
MailTypes ==
    /\ post \in MailConf
    /\ boxes \in [Mailed -> SUBSET Letters]
    /\ pushes \subseteq [to : Mailed, taken : BOOLEAN, m : Letters]
    /\ posted \in Nat
    /\ saved \in [Mailed -> Copies]
    /\ handled \subseteq Nat
    /\ runs \in [RunIds -> MailRuns]
    /\ live \in [on : BOOLEAN, mails : BOOLEAN, log : MailLogs, mailed : [Guests -> Int]]
    /\ sent \in [Guests -> Nat]
    /\ denied \subseteq Turns

(* What is addressed to a player: to the host moves that were mailed, to a guest
   positions.                                                               *)
LetterOf(d, m, last, moves) ==
    /\ m.id \in 1 .. last
    /\ d = Keeper => m.kind = "cmd" /\ m.base = -1 /\ m.move \in moves /\ m.from \in Guests
    /\ d # Keeper => m.kind = "view"
    /\ m.base \in -1 .. Len(m.log)
LetterTo(d, m) == LetterOf(d, m, posted, Mine)

OnKeeper == {"moves", "deliver", "apply", "mark", "put", "mail"}
RunShape(r) ==
    /\ r.pc \in OnKeeper => r.at = Keeper
    /\ r.pc = "store" => r.at # Keeper
    /\ r.at = Keeper => ~r.snap.push
    /\ r.done \subseteq 1 .. posted
    /\ r.pc \in {"store", "deliver"} => r.mail # {}
    /\ \A m \in r.mail : LetterTo(r.at, m)
BoxShape(d) == \A m \in boxes[d] : LetterTo(d, m) /\ \A o \in boxes[d] : m.id = o.id => m = o
PushShape(p) == LetterTo(p.to, p.m) /\ (p.taken => p.to \in post.overlap)

MailShapes ==
    /\ \A d \in Mailed : BoxShape(d)
    /\ \A p \in pushes : PushShape(p)
    /\ \A s \in RunIds : RunShape(runs[s])
    /\ handled \subseteq 1 .. posted
    /\ \A g \in Guests : sent[g] <= post.moves
    /\ denied \subseteq Mine
    /\ ~saved[Keeper].push

Sound == MailTypes /\ MailShapes

-----------------------------------------------------------------------------
(* Facts about steps. *)

LEMMA RunTypes ==
    ASSUME MailTypes, NEW s \in RunIds
    PROVE  /\ runs[s] \in MailRuns /\ runs[s].at \in Mailed /\ runs[s].page \in BOOLEAN
           /\ runs[s].pc \in MailSteps /\ runs[s].mail \subseteq Letters
           /\ runs[s].known \in MailLogs /\ runs[s].snap \in Copies /\ runs[s].done \subseteq Nat
           /\ runs[s].snap.log \in MailLogs /\ runs[s].to \subseteq Guests
           /\ runs[s].via \in {"check", "push", "again"}
BY DEF MailTypes, MailRuns, Copies

LEMMA LetterTypes ==
    ASSUME NEW m \in Letters
    PROVE  /\ m.id \in Nat /\ m.from \in Mailed /\ m.kind \in {"cmd", "view"}
           /\ m.move \in Turns \cup {<< >>} /\ m.log \in MailLogs /\ m.base \in Int
           /\ m.push \in BOOLEAN /\ m.live \in BOOLEAN
BY DEF Letters

LEMMA EarliestIn ==
    ASSUME NEW mail \in SUBSET Letters, mail # {}
    PROVE  Earliest(mail) \in mail
<1>1. Ids(mail) \subseteq Nat /\ Ids(mail) # {}
  BY LetterTypes DEF Ids
<1>2. PICK x \in Ids(mail) : \A y \in Ids(mail) : x <= y
  BY <1>1, LeastNat
<1>3. PICK m \in mail : m.id = x
  BY <1>2 DEF Ids
<1>4. \A o \in mail : m.id <= o.id
  BY <1>2, <1>3 DEF Ids
<1> QED BY <1>4 DEF Earliest

LEMMA FreeRun ==
    ASSUME NEW s \in RunIds, NEW d, Free(s, d)
    PROVE  runs[s].pc = "off" /\ (d \in post.overlap \/ RunsAt(d) = {})
<1> DEFINE S == {t \in RunIds : runs[t].pc = "off"} \cup {3}
<1>1. S \subseteq {1, 2, 3} /\ 3 \in S
  BY DEF RunIds
<1>2. \E x \in S : \A y \in S : x <= y
  <2>1. CASE 1 \in S
    BY <1>1, <2>1
  <2>2. CASE 1 \notin S /\ 2 \in S
    BY <1>1, <2>2
  <2>3. CASE 1 \notin S /\ 2 \notin S
    BY <1>1, <2>3
  <2> QED BY <2>1, <2>2, <2>3
<1>3. Min(S) \in S
  <2> HIDE DEF S
  <2> QED BY <1>2 DEF Min
<1>4. s = Min(S)
  BY DEF Free
<1>5. s # 3
  BY DEF RunIds
<1>6. s \in S
  BY <1>3, <1>4
<1> QED BY <1>5, <1>6 DEF Free

(* The fields of a run that matter below, after a step.                     *)
Becomes(s, at, page, pc, mail, known, snap, done) ==
    /\ runs' \in [RunIds -> MailRuns]
    /\ \A t \in RunIds : t # s => runs'[t] = runs[t]
    /\ runs'[s].at = at /\ runs'[s].page = page /\ runs'[s].pc = pc /\ runs'[s].mail = mail
    /\ runs'[s].known = known /\ runs'[s].snap = snap /\ runs'[s].done = done
Empty == [log |-> << >>, push |-> FALSE]
Ended(s) == Becomes(s, Keeper, FALSE, "off", {}, << >>, Empty, {})

LEMMA NoRunTyped == NoRun \in MailRuns
BY NoMoves DEF NoRun, MailRuns, Copies, Mailed, MailSteps

LEMMA StartedRun ==
    ASSUME MailTypes, NEW s \in RunIds, NEW d \in Mailed, NEW page \in BOOLEAN,
           NEW via \in {"check", "push", "again"}, NEW mail \in SUBSET Letters,
           Started(s, d, page, via, mail)
    PROVE  Becomes(s, d, page, "open", mail, << >>, Empty, {})
<1> DEFINE r == [NoRun EXCEPT !.at = d, !.page = page, !.via = via, !.pc = "open", !.mail = mail]
<1>1. /\ r \in MailRuns /\ r.at = d /\ r.page = page /\ r.pc = "open" /\ r.mail = mail
      /\ r.known = << >> /\ r.snap = Empty /\ r.done = {}
  BY NoMoves DEF NoRun, MailRuns, Copies, Mailed, MailSteps, Empty
<1>2. runs' = [runs EXCEPT ![s] = r]
  BY DEF Started
<1> HIDE DEF r
<1> QED BY <1>1, <1>2 DEF Becomes, MailTypes

LEMMA EndedRun ==
    ASSUME MailTypes, NEW s \in RunIds, runs' = [runs EXCEPT ![s] = NoRun]
    PROVE  Ended(s)
<1>1. /\ NoRun.at = Keeper /\ NoRun.page = FALSE /\ NoRun.pc = "off" /\ NoRun.mail = {}
      /\ NoRun.known = << >> /\ NoRun.snap = Empty /\ NoRun.done = {}
  BY DEF NoRun, Empty
<1> QED BY <1>1, NoRunTyped DEF Becomes, MailTypes, Ended

(* A message that was sent.                                                 *)
Copied(c, m) ==
    /\ c.id = m.id /\ c.from = m.from /\ c.kind = m.kind /\ c.move = m.move /\ c.log = m.log
    /\ c.base \in -1 .. Len(m.log)
SentTo(to, m) ==
    /\ posted' = posted + 1
    /\ boxes' \in [Mailed -> SUBSET Letters]
    /\ pushes' \subseteq [to : Mailed, taken : BOOLEAN, m : Letters]
    /\ \A d \in Mailed : d # to => boxes'[d] = boxes[d]
    /\ m \in boxes'[to] /\ \A o \in boxes'[to] : o \in boxes[to] \/ o = m
    /\ m.kind = "cmd" => boxes[to] \subseteq boxes'[to]
    /\ \A p \in pushes' : p \in pushes \/ (p.to = to /\ ~p.taken /\ Copied(p.m, m)
                                           /\ (m.kind = "cmd" => p.m.base = -1))

LEMMA SendFacts ==
    ASSUME MailTypes, NEW to \in Mailed, NEW m \in Letters, NEW base \in Int,
           Send(to, m, base), m.kind = "cmd" => base = -1
    PROVE  SentTo(to, m) /\ posted < post.mails
<1>1. /\ posted' = posted + 1 /\ posted < post.mails
      /\ boxes' = [boxes EXCEPT ![to] = {o \in boxes[to] : m.kind = "cmd" \/ o.kind = "cmd"} \cup {m}]
  BY DEF Send, MailTypes
<1>2. PICK b \in {-1} \cup ({base} \cap 0 .. Len(m.log)), come \in BOOLEAN :
        pushes' = IF come THEN pushes \cup {[to |-> to, taken |-> FALSE, m |-> [m EXCEPT !.base = b]]}
                  ELSE pushes
  BY DEF Send
<1> DEFINE c == [m EXCEPT !.base = b]
           p == [to |-> to, taken |-> FALSE, m |-> c]
<1>3. Len(m.log) \in Nat /\ b \in Int /\ b \in -1 .. Len(m.log) /\ (m.kind = "cmd" => b = -1)
  BY LetterTypes, LogFacts
<1>4. c \in Letters /\ Copied(c, m) /\ (m.kind = "cmd" => c.base = -1)
  BY <1>3 DEF Letters, Copied
<1>5. p.to = to /\ ~p.taken /\ p.m = c /\ p \in [to : Mailed, taken : BOOLEAN, m : Letters]
  BY <1>4
<1>6. pushes' \subseteq pushes \cup {p}
  BY <1>2
<1> HIDE DEF c, p
<1>7. /\ boxes' \in [Mailed -> SUBSET Letters] /\ \A d \in Mailed : d # to => boxes'[d] = boxes[d]
      /\ boxes'[to] = {o \in boxes[to] : m.kind = "cmd" \/ o.kind = "cmd"} \cup {m}
  BY <1>1 DEF MailTypes
<1>8. pushes' \subseteq [to : Mailed, taken : BOOLEAN, m : Letters]
  BY <1>5, <1>6 DEF MailTypes
<1>9. \A q \in pushes' : q \in pushes \/ (q.to = to /\ ~q.taken /\ Copied(q.m, m)
                                           /\ (m.kind = "cmd" => q.m.base = -1))
  BY <1>4, <1>5, <1>6
<1> QED BY <1>1, <1>7, <1>8, <1>9 DEF SentTo

LEMMA Keepers == Keeper \in Mailed /\ Keeper \notin Guests /\ Guests \subseteq Mailed
                 /\ Mailed = Guests \cup {Keeper}
BY MailAssumption DEF Mailed

LEMMA ViewLetter ==
    ASSUME MailTypes, NEW log \in MailLogs, NEW showing \in BOOLEAN
    PROVE  /\ View(log, showing) \in Letters /\ View(log, showing).id = posted + 1
           /\ View(log, showing).kind = "view" /\ View(log, showing).log = log
           /\ View(log, showing).base = -1
BY Keepers DEF View, Letter, Letters, MailTypes

LEMMA GuestMoveFacts ==
    ASSUME MailTypes, NEW g \in Guests, GuestMove(g)
    PROVE  \E m \in Letters :
             /\ m.id = posted + 1 /\ m.from = g /\ m.kind = "cmd" /\ m.base = -1
             /\ m.move = <<g, sent[g] + 1>> /\ SentTo(Keeper, m)
             /\ sent[g] < post.moves /\ sent' = [sent EXCEPT ![g] = sent[g] + 1]
<1> DEFINE m == Cmd(g, <<g, sent[g] + 1>>)
<1>1. sent[g] \in Nat /\ posted \in Nat
  BY DEF MailTypes
<1>2. /\ m \in Letters /\ m.id = posted + 1 /\ m.from = g /\ m.kind = "cmd" /\ m.base = -1
      /\ m.move = <<g, sent[g] + 1>>
  BY <1>1, Keepers, NoMoves DEF Cmd, Letter, Letters, Turns
<1>3. sent' = [sent EXCEPT ![g] = sent[g] + 1] /\ sent[g] < post.moves
  BY DEF GuestMove
<1>4. sent'[g] = sent[g] + 1
  BY <1>3 DEF MailTypes
<1>5. Send(Keeper, m, -1)
  BY <1>4 DEF GuestMove
<1> HIDE DEF m
<1>6. SentTo(Keeper, m)
  BY <1>2, <1>5, SendFacts, Keepers
<1> QED BY <1>2, <1>3, <1>6

LEMMA MailAbsentFacts ==
    ASSUME MailTypes, NEW g \in Guests, MailAbsent(g)
    PROVE  \E m \in Letters :
             /\ m.id = posted + 1 /\ m.kind = "view" /\ m.log = live.log /\ m.base = -1
             /\ SentTo(g, m) /\ live.mails
             /\ live' = [live EXCEPT !.mailed[g] = Len(live.log)]
<1> DEFINE m == View(live.log, TRUE)
<1>1. live.log \in MailLogs /\ live.mailed[g] \in Int /\ g \in Mailed
  BY Keepers DEF MailTypes
<1>2. m \in Letters /\ m.id = posted + 1 /\ m.kind = "view" /\ m.log = live.log /\ m.base = -1
  BY <1>1, ViewLetter
<1>3. Send(g, m, live.mailed[g]) /\ live.mails /\ live' = [live EXCEPT !.mailed[g] = Len(live.log)]
  BY DEF MailAbsent
<1> HIDE DEF m
<1> QED BY <1>1, <1>2, <1>3, SendFacts

LEMMA CheckFacts ==
    ASSUME MailTypes, NEW s \in RunIds, NEW d \in Mailed, NEW page \in BOOLEAN, Check(s, d, page)
    PROVE  /\ Becomes(s, d, page, "open", boxes[d], << >>, Empty, {})
           /\ runs[s].pc = "off" /\ (d \in post.overlap \/ RunsAt(d) = {})
           /\ ~page => Worker(d)
<1>1. boxes[d] \in SUBSET Letters
  BY DEF MailTypes
<1>2. Started(s, d, page, "check", boxes[d]) /\ Free(s, d) /\ (~page => Worker(d))
  BY DEF Check
<1> QED BY <1>1, <1>2, StartedRun, FreeRun

LEMMA OnPushFacts ==
    ASSUME MailTypes, NEW s \in RunIds, NEW p \in pushes, NEW page \in BOOLEAN, OnPush(s, p, page)
    PROVE  /\ Becomes(s, p.to, page, "open", {p.m}, << >>, Empty, {})
           /\ runs[s].pc = "off" /\ (p.to \in post.overlap \/ RunsAt(p.to) = {})
           /\ ~page => p.taken \/ (Worker(p.to) /\ ~Shown(p.to))
           /\ p.to \in Mailed /\ p.m \in Letters
           /\ pushes' \subseteq [to : Mailed, taken : BOOLEAN, m : Letters]
           /\ \A q \in pushes' : q \in pushes \/ (q.to = p.to /\ q.m = p.m /\ q.to \in post.overlap)
<1>1. p.to \in Mailed /\ p.m \in Letters /\ {p.m} \in SUBSET Letters
  BY DEF MailTypes
<1>2. Started(s, p.to, page, "push", {p.m}) /\ Free(s, p.to)
      /\ (~page => p.taken \/ (Worker(p.to) /\ ~Shown(p.to)))
  BY DEF OnPush
<1> DEFINE q == [p EXCEPT !.taken = TRUE]
<1>3. q \in [to : Mailed, taken : BOOLEAN, m : Letters] /\ q.to = p.to /\ q.m = p.m
  BY DEF MailTypes
<1>4. pushes' \subseteq pushes \cup (IF p.to \in post.overlap THEN {q} ELSE {})
  BY DEF OnPush
<1> HIDE DEF q
<1>5. /\ pushes' \subseteq [to : Mailed, taken : BOOLEAN, m : Letters]
      /\ \A o \in pushes' : o \in pushes \/ (o.to = p.to /\ o.m = p.m /\ o.to \in post.overlap)
  BY <1>3, <1>4 DEF MailTypes
<1> QED BY <1>1, <1>2, <1>5, StartedRun, FreeRun

LEMMA DieFacts ==
    ASSUME MailTypes, NEW s \in RunIds, Die(s)
    PROVE  Ended(s) /\ post'.dies = "did" /\ post' \in MailConf
           /\ post'.moves = post.moves /\ post'.overlap = post.overlap /\ post'.pinned = post.pinned
BY EndedRun DEF Die, MailTypes, MailConf

(* A call that fails ends the run.                                          *)
LEMMA FailFacts ==
    ASSUME MailTypes, NEW s \in RunIds, Fail(s)
    PROVE  Ended(s) /\ post' \in MailConf /\ UNCHANGED <<boxes, pushes, posted>>
           /\ post'.moves = post.moves /\ post'.overlap = post.overlap /\ post'.pinned = post.pinned
           /\ post'.dies = post.dies
<1>1. Ended(s) /\ UNCHANGED <<boxes, pushes, posted>>
  BY EndedRun DEF Fail
<1>2. post' = [post EXCEPT !.fails = post.fails - 1] /\ post.fails > 0
  BY DEF Fail
<1>3. /\ post' \in MailConf
      /\ post'.moves = post.moves /\ post'.overlap = post.overlap /\ post'.pinned = post.pinned
      /\ post'.dies = post.dies
  BY <1>2 DEF MailTypes, MailConf
<1> QED BY <1>1, <1>3

(* Rebuilding: a letter that is not useless is as it was, or the position whole. *)
LEMMA RebuiltTyped ==
    ASSUME NEW log \in MailLogs, NEW m \in Letters, m.base \in -1 .. Len(m.log),
           m.base # -1 => Len(log) = m.base
    PROVE  /\ Rebuilt(log, m) \in Letters /\ Rebuilt(log, m).id = m.id
           /\ Rebuilt(log, m).kind = m.kind /\ Rebuilt(log, m).base = m.base
           /\ m.base = -1 => Rebuilt(log, m) = m
           /\ Len(m.log) <= Len(Rebuilt(log, m).log)
           /\ \A all \in MailLogs : Before(log, all) /\ Before(m.log, all) =>
                 Before(Rebuilt(log, m).log, all)
<1>1. CASE m.base = -1
  BY <1>1, LetterTypes, LogFacts DEF Rebuilt
<1>2. CASE m.base # -1
  <2> DEFINE c == log \o SubSeq(m.log, Len(log) + 1, Len(m.log))
  <2>1. m.log \in MailLogs /\ m.base = Len(log) /\ Len(log) <= Len(m.log) /\ Len(log) \in Nat
        /\ Len(m.log) \in Nat
    BY <1>2, LetterTypes, LogFacts
  <2>2. Rebuilt(log, m) = [m EXCEPT !.log = c, !.push = TRUE]
    BY <1>2, <2>1 DEF Rebuilt
  <2>3. c \in MailLogs /\ Len(c) = Len(m.log)
    BY <2>1, ChangeTyped
  <2>4. ASSUME NEW all \in MailLogs, Before(log, all), Before(m.log, all)
        PROVE  Before(c, all)
    BY <2>1, <2>4, ChangeTrue
  <2> HIDE DEF c
  <2>5. [m EXCEPT !.log = c, !.push = TRUE] \in Letters
        /\ [m EXCEPT !.log = c, !.push = TRUE].log = c
        /\ [m EXCEPT !.log = c, !.push = TRUE].id = m.id
        /\ [m EXCEPT !.log = c, !.push = TRUE].kind = m.kind
        /\ [m EXCEPT !.log = c, !.push = TRUE].base = m.base
    BY <2>3 DEF Letters
  <2> QED BY <1>2, <2>1, <2>2, <2>3, <2>4, <2>5
<1> QED BY <1>1, <1>2

OpenedMail(s) == {m \in runs[s].mail : ~Useless(runs[s], m) /\ ~Applied(runs[s], m)}

Opening(s, pc, mail, done) ==
    /\ Becomes(s, runs[s].at, runs[s].page, pc, mail, saved[runs[s].at].log,
               saved[runs[s].at], done)
    /\ pc = "moves" => runs[s].at = Keeper
    /\ pc = "store" => runs[s].at # Keeper /\ mail # {}
    /\ mail = {Rebuilt(saved[runs[s].at].log, m) : m \in OpenedMail(s)}
    /\ runs[s].at # Keeper => handled' = handled
    /\ handled' \subseteq handled
    /\ done \subseteq handled /\ done \subseteq Ids(runs[s].mail)
    /\ runs[s].pc = "open"

(* What a run holds once the letters are opened.                            *)
LEMMA OpenFacts ==
    ASSUME Sound, NEW s \in RunIds, Open(s)
    PROVE  \E pc \in {"moves", "ack", "store"}, mail \in SUBSET Letters, done \in SUBSET Nat :
             Opening(s, pc, mail, done)
<1> DEFINE r == runs[s]
           log == saved[r.at].log
           old == {m \in r.mail : Applied(r, m)}
           opened == OpenedMail(s)
           mail == {Rebuilt(log, m) : m \in opened}
           pc == IF r.at = Keeper THEN "moves" ELSE IF opened = {} THEN "ack" ELSE "store"
           again == \E m \in r.mail : Useless(r, m)
<1>1. /\ r.pc = "open" /\ handled' = handled \ Ids(old)
      /\ runs' = [runs EXCEPT ![s].pc = pc, ![s].mail = mail, ![s].known = log,
                              ![s].snap = saved[r.at], ![s].done = Ids(old), ![s].again = again]
  BY DEF Open, OpenedMail
<1>2. /\ r \in MailRuns /\ r.at \in Mailed /\ r.mail \in SUBSET Letters
      /\ log \in MailLogs /\ saved[r.at] \in Copies
  BY RunTypes DEF Sound, MailTypes, Copies
<1>3. \A m \in r.mail : LetterTo(r.at, m)
  BY DEF Sound, MailShapes, RunShape
<1>4. ASSUME NEW m \in opened PROVE Rebuilt(log, m) \in Letters
  <2>1. m \in Letters /\ m.base \in -1 .. Len(m.log) /\ ~Useless(r, m)
    BY <1>2, <1>3 DEF LetterTo, LetterOf, OpenedMail
  <2>2. m.base # -1 => Len(log) = m.base
    BY <2>1 DEF Useless, IsBase
  <2> QED BY <1>2, <2>1, <2>2, RebuiltTyped
<1>5. mail \in SUBSET Letters
  BY <1>4
<1>6. Ids(old) \in SUBSET Nat /\ Ids(old) \subseteq handled /\ Ids(old) \subseteq Ids(r.mail)
      /\ (r.at # Keeper => Ids(old) = {})
  <2>1. \A m \in old : m \in Letters /\ m.id \in handled /\ m.kind = "cmd"
    BY <1>2 DEF Applied
  <2>2. r.at # Keeper => old = {}
    BY <1>3 DEF LetterTo, LetterOf, Applied
  <2> QED BY <2>1, <2>2, LetterTypes DEF Ids
<1>7. again \in BOOLEAN /\ pc \in {"moves", "ack", "store"} /\ pc \in MailSteps
  BY DEF MailSteps
<1>8. opened # {} => mail # {}
  OBVIOUS
<1> HIDE DEF mail, log, old, opened, pc, again
<1>9. Becomes(s, r.at, r.page, pc, mail, log, saved[r.at], Ids(old))
  <2> DEFINE n == [r EXCEPT !.pc = pc, !.mail = mail, !.known = log,
                              !.snap = saved[r.at], !.done = Ids(old), !.again = again]
  <2>1. n \in MailRuns /\ n.at = r.at /\ n.page = r.page /\ n.pc = pc /\ n.mail = mail
        /\ n.known = log /\ n.snap = saved[r.at] /\ n.done = Ids(old)
    BY <1>2, <1>5, <1>6, <1>7 DEF MailRuns
  <2>2. runs' = [runs EXCEPT ![s] = n]
    BY <1>1
  <2> HIDE DEF n
  <2> QED BY <2>1, <2>2 DEF Becomes, Sound, MailTypes
<1>10. /\ pc = "moves" => r.at = Keeper
       /\ pc = "store" => r.at # Keeper /\ mail # {}
  BY <1>8 DEF pc
<1>11. handled' \subseteq handled /\ (r.at # Keeper => handled' = handled)
  BY <1>1, <1>6
<1>12. mail = {Rebuilt(saved[r.at].log, m) : m \in OpenedMail(s)}
  BY DEF mail, opened, log
<1>13. Becomes(s, r.at, r.page, pc, mail, saved[r.at].log, saved[r.at], Ids(old))
  BY <1>9 DEF log
<1>14. Opening(s, pc, mail, Ids(old))
  BY <1>1, <1>6, <1>10, <1>11, <1>12, <1>13 DEF Opening
<1> QED BY <1>5, <1>6, <1>7, <1>14

LEMMA StoreViewFacts ==
    ASSUME Sound, NEW s \in RunIds, StoreView(s)
    PROVE  \E m \in runs[s].mail :
             /\ m \in Letters /\ runs[s].at # Keeper
             /\ Becomes(s, runs[s].at, runs[s].page, "ack", runs[s].mail, runs[s].known,
                        runs[s].snap, runs[s].done \cup {m.id})
             /\ saved' \in [Mailed -> Copies]
             /\ \A d \in Mailed : d # runs[s].at => saved'[d] = saved[d]
             /\ saved'[runs[s].at].log \in {saved[runs[s].at].log, m.log}
<1> DEFINE r == runs[s]
           m == Earliest(r.mail)
           n == [r EXCEPT !.pc = "ack", !.done = r.done \cup {m.id}]
<1>1. r \in MailRuns /\ r.pc = "store" /\ r.mail \subseteq Letters /\ r.mail # {} /\ r.at # Keeper
      /\ r.at \in Mailed
  BY RunTypes DEF Sound, MailShapes, RunShape, StoreView
<1>2. m \in r.mail /\ m \in Letters /\ m.id \in Nat /\ m.log \in MailLogs /\ m.push \in BOOLEAN
  <2>1. m \in r.mail
    BY <1>1, EarliestIn
  <2> HIDE DEF m
  <2> QED BY <1>1, <2>1, LetterTypes
<1>3. /\ runs' = [runs EXCEPT ![s] = n]
      /\ saved' = saved \/ saved' = [saved EXCEPT ![r.at] = [log |-> m.log, push |-> m.push]]
  BY DEF StoreView
<1> HIDE DEF m
<1>4. /\ n \in MailRuns /\ n.at = r.at /\ n.page = r.page /\ n.pc = "ack" /\ n.mail = r.mail
      /\ n.known = r.known /\ n.snap = r.snap /\ n.done = r.done \cup {m.id}
  BY <1>1, <1>2 DEF MailRuns, MailSteps
<1> HIDE DEF n
<1>5. Becomes(s, r.at, r.page, "ack", r.mail, r.known, r.snap, r.done \cup {m.id})
  BY <1>3, <1>4 DEF Becomes, Sound, MailTypes
<1>6. /\ saved' \in [Mailed -> Copies]
      /\ \A d \in Mailed : d # r.at => saved'[d] = saved[d]
      /\ saved'[r.at].log \in {saved[r.at].log, m.log}
  <2> DEFINE copy == [log |-> m.log, push |-> m.push]
  <2>1. copy \in Copies /\ copy.log = m.log
    BY <1>2 DEF Copies
  <2> HIDE DEF copy
  <2>2. saved \in [Mailed -> Copies]
    BY DEF Sound, MailTypes
  <2>3. saved' = saved \/ saved' = [saved EXCEPT ![r.at] = copy]
    BY <1>3 DEF copy
  <2> QED BY <1>1, <2>1, <2>2, <2>3
<1> QED BY <1>1, <1>2, <1>5, <1>6

LEMMA MovesFacts ==
    ASSUME Sound, NEW s \in RunIds, Moves(s)
    PROVE  \E pc \in {"ack", "deliver", "apply"}, known \in {runs[s].known, saved[Keeper].log} :
             /\ Becomes(s, Keeper, runs[s].page, pc, runs[s].mail, known, saved[Keeper],
                        runs[s].done)
             /\ pc = "deliver" => runs[s].mail # {} /\ live.on
             /\ pc = "apply" => ~(runs[s].page /\ live.on)
             /\ runs[s].at = Keeper /\ runs[s].pc = "moves"
<1> DEFINE r == runs[s]
           pc == CASE r.mail = {} \/ (~r.page /\ post.pinned) -> "ack"
                   [] r.mail # {} /\ r.page /\ live.on -> "deliver"
                   [] OTHER -> "apply"
           known == IF r.page /\ live.on THEN r.known ELSE saved[Keeper].log
           n == [r EXCEPT !.pc = pc, !.known = known, !.snap = saved[Keeper]]
<1>1. r \in MailRuns /\ r.pc = "moves" /\ r.at = Keeper
  BY RunTypes DEF Sound, MailShapes, RunShape, Moves, OnKeeper
<1>2. /\ pc \in {"ack", "deliver", "apply"} /\ pc \in MailSteps
      /\ pc = "deliver" => r.mail # {} /\ live.on
      /\ pc = "apply" => ~(r.page /\ live.on)
  <2>1. CASE r.mail = {} \/ (~r.page /\ post.pinned)
    <3>1. pc = "ack"
      BY <2>1
    <3> HIDE DEF pc
    <3> QED BY <3>1 DEF MailSteps
  <2>2. CASE ~(r.mail = {} \/ (~r.page /\ post.pinned)) /\ r.page /\ live.on
    <3>1. pc = "deliver"
      BY <2>2
    <3> HIDE DEF pc
    <3> QED BY <2>2, <3>1 DEF MailSteps
  <2>3. CASE ~(r.mail = {} \/ (~r.page /\ post.pinned)) /\ ~(r.page /\ live.on)
    <3>1. pc = "apply"
      BY <2>3
    <3> HIDE DEF pc
    <3> QED BY <2>3, <3>1 DEF MailSteps
  <2> HIDE DEF pc
  <2> QED BY <2>1, <2>2, <2>3
<1>3. saved[Keeper] \in Copies /\ known \in MailLogs /\ known \in {r.known, saved[Keeper].log}
  BY RunTypes, Keepers DEF Sound, MailTypes, Copies
<1>4. runs' = [runs EXCEPT ![s].pc = pc, ![s].known = known, ![s].snap = saved[Keeper]]
  BY DEF Moves
<1> HIDE DEF pc, known
<1>5. runs' = [runs EXCEPT ![s] = n]
  BY <1>4
<1>6. /\ n \in MailRuns /\ n.at = Keeper /\ n.page = r.page /\ n.pc = pc /\ n.mail = r.mail
      /\ n.known = known /\ n.snap = saved[Keeper] /\ n.done = r.done
  BY <1>1, <1>2, <1>3 DEF MailRuns
<1> HIDE DEF n
<1>7. Becomes(s, Keeper, r.page, pc, r.mail, known, saved[Keeper], r.done)
  BY <1>5, <1>6 DEF Becomes, Sound, MailTypes
<1> QED BY <1>1, <1>2, <1>3, <1>7

(* The host's table takes a move, refuses it, or the run ends.              *)
Delivered(s, m) ==
    \E pc \in {"deliver", "mark", "ack"} :
        /\ Becomes(s, Keeper, runs[s].page, pc, runs[s].mail \ {m}, runs[s].known,
                   runs[s].snap, runs[s].done \cup {m.id})
        /\ pc = "deliver" => runs[s].mail \ {m} # {}
Accepted(s, m) ==
    /\ live.on /\ Delivered(s, m)
    /\ live' = [live EXCEPT !.log = Append(live.log, m.move)]
    /\ saved' = [saved EXCEPT ![Keeper].log = Append(live.log, m.move)]
    /\ UNCHANGED <<post, boxes, pushes, posted, denied, handled, sent>>
SentBack(s, m) ==
    /\ Delivered(s, m) /\ denied' = denied \cup {m.move}
    /\ \E v \in Letters : v.id = posted + 1 /\ v.kind = "view" /\ v.log = runs[s].known
                          /\ v.base = -1 /\ SentTo(m.from, v)
    /\ UNCHANGED <<post, saved, live, handled, sent>>
Dropped(s, m) ==
    /\ Fail(s) /\ denied' = denied \cup {m.move}
    /\ UNCHANGED <<saved, live, handled, sent>>

LEMMA DeliverFacts ==
    ASSUME Sound, NEW s \in RunIds, Deliver(s)
    PROVE  \E m \in runs[s].mail :
             /\ runs[s].pc = "deliver" /\ runs[s].at = Keeper /\ m \in Letters
             /\ Accepted(s, m) \/ SentBack(s, m) \/ Dropped(s, m)
<1> DEFINE r == runs[s]
           m == Earliest(r.mail)
           pc == IF r.mail # {m} THEN "deliver" ELSE IF r.via = "push" THEN "mark" ELSE "ack"
           on == [r EXCEPT !.mail = r.mail \ {m}, !.done = r.done \cup {m.id}, !.pc = pc]
<1>1. r \in MailRuns /\ r.pc = "deliver" /\ r.mail \subseteq Letters /\ r.mail # {} /\ r.at = Keeper
      /\ r.known \in MailLogs
  BY RunTypes DEF Sound, MailShapes, RunShape, Deliver, OnKeeper
<1>2. m \in r.mail
  BY <1>1, EarliestIn
<1>3. /\ \/ /\ live.on
            /\ live' = [live EXCEPT !.log = Append(live.log, m.move)]
            /\ saved' = [saved EXCEPT ![Keeper].log = Append(live.log, m.move)]
            /\ runs' = [runs EXCEPT ![s] = on]
            /\ UNCHANGED <<post, boxes, pushes, posted, denied>>
         \/ /\ denied' = denied \cup {m.move}
            /\ \/ /\ Send(m.from, View(r.known, TRUE), -1)
                  /\ runs' = [runs EXCEPT ![s] = on] /\ UNCHANGED post
               \/ Fail(s)
            /\ UNCHANGED <<saved, live>>
      /\ UNCHANGED <<handled, sent>>
  BY DEF Deliver
<1> HIDE DEF m
<1>4. m \in Letters /\ m.id \in Nat /\ m.from \in Mailed
  BY <1>1, <1>2, LetterTypes
<1>5. pc \in {"deliver", "mark", "ack"} /\ pc \in MailSteps /\ (pc = "deliver" => r.mail \ {m} # {})
  BY <1>2 DEF MailSteps
<1> HIDE DEF pc
<1>6. ASSUME runs' = [runs EXCEPT ![s] = on] PROVE Delivered(s, m)
  <2>1. /\ on \in MailRuns /\ on.at = Keeper /\ on.page = r.page /\ on.pc = pc
        /\ on.mail = r.mail \ {m} /\ on.known = r.known /\ on.snap = r.snap
        /\ on.done = r.done \cup {m.id}
    BY <1>1, <1>4, <1>5 DEF MailRuns
  <2> HIDE DEF on
  <2>2. Becomes(s, Keeper, r.page, pc, r.mail \ {m}, r.known, r.snap, r.done \cup {m.id})
    BY <1>6, <2>1 DEF Becomes, Sound, MailTypes
  <2> QED BY <1>5, <2>2 DEF Delivered
<1> HIDE DEF on
<1>7. ASSUME Send(m.from, View(r.known, TRUE), -1)
      PROVE  \E v \in Letters : v.id = posted + 1 /\ v.kind = "view" /\ v.log = r.known
                                /\ v.base = -1 /\ SentTo(m.from, v)
  <2> DEFINE v == View(r.known, TRUE)
  <2>1. v \in Letters /\ v.id = posted + 1 /\ v.kind = "view" /\ v.log = r.known /\ v.base = -1
    BY <1>1, ViewLetter DEF Sound
  <2>2. Send(m.from, v, -1)
    BY <1>7
  <2> HIDE DEF v
  <2>3. SentTo(m.from, v)
    BY <1>4, <2>1, <2>2, SendFacts DEF Sound
  <2> QED BY <2>1, <2>3
<1>8. Accepted(s, m) \/ SentBack(s, m) \/ Dropped(s, m)
  BY <1>3, <1>6, <1>7 DEF Accepted, SentBack, Dropped
<1> QED BY <1>1, <1>2, <1>4, <1>8

MailFinite ==
    /\ \A d \in Mailed : IsFiniteSet(boxes[d])
    /\ \A s \in RunIds : runs[s].at = Keeper => IsFiniteSet(runs[s].mail)

(* The letters of the host's device hold moves.                             *)
LEMMA MoveLetters ==
    ASSUME MailTypes, NEW m \in Letters, LetterTo(Keeper, m)
    PROVE  m.move \in Turns /\ m.move \in Mine /\ m.kind = "cmd" /\ m.base = -1 /\ m.from \in Guests
<1>1. m.move \in Mine /\ m.kind = "cmd" /\ m.base = -1 /\ m.from \in Guests
  BY DEF LetterTo, LetterOf
<1>2. post.moves \in Nat
  BY DEF MailTypes, MailConf
<1>3. Mine \subseteq Turns
  BY <1>2, Keepers DEF Mine, MovesOf, Turns
<1> QED BY <1>1, <1>3

LEMMA ApplyFacts ==
    ASSUME Sound, MailFinite, NEW s \in RunIds, Apply(s)
    PROVE  \E no \in SUBSET runs[s].mail, more \in MailLogs :
             /\ Becomes(s, Keeper, runs[s].page, "put", runs[s].mail, runs[s].known,
                        [log |-> runs[s].snap.log \o more, push |-> runs[s].snap.push],
                        runs[s].done)
             /\ \A m \in runs[s].mail : Within(m.move, more) \/ m.move \in denied'
             /\ denied' = denied \cup {m.move : m \in no}
             /\ handled' \subseteq handled \cup Ids(runs[s].mail) /\ handled \subseteq handled'
             /\ runs[s].at = Keeper /\ runs[s].pc = "apply"
<1> DEFINE r == runs[s]
<1>1. r \in MailRuns /\ r.pc = "apply" /\ r.at = Keeper /\ r.mail \subseteq Letters
      /\ \A m \in r.mail : LetterTo(Keeper, m)
  BY RunTypes DEF Sound, MailShapes, RunShape, Apply, OnKeeper
<1>2. PICK no \in SUBSET r.mail : \E q \in ById(r.mail \ no) :
        /\ runs' = [runs EXCEPT ![s].snap.log = @ \o [i \in DOMAIN q |-> q[i].move], ![s].pc = "put"]
        /\ denied' = denied \cup {m.move : m \in no}
  BY DEF Apply
<1>3. PICK q \in ById(r.mail \ no) :
        /\ runs' = [runs EXCEPT ![s].snap.log = @ \o [i \in DOMAIN q |-> q[i].move], ![s].pc = "put"]
        /\ denied' = denied \cup {m.move : m \in no}
  BY <1>2
<1> DEFINE yes == r.mail \ no
           more == [i \in DOMAIN q |-> q[i].move]
           copy == [log |-> r.snap.log \o more, push |-> r.snap.push]
           n == [r EXCEPT !.snap.log = @ \o more, !.pc = "put"]
<1>4. IsFiniteSet(yes) /\ Cardinality(yes) \in Nat
  <2>1. yes \in SUBSET r.mail /\ IsFiniteSet(r.mail)
    BY <1>1 DEF MailFinite
  <2> QED BY <2>1, FS_Subset, FS_CardinalityType
<1>5. q \in [1 .. Cardinality(yes) -> yes] /\ \A m \in yes : \E i \in DOMAIN q : q[i] = m
  BY DEF ById
<1> HIDE DEF yes
<1>6. DOMAIN q = 1 .. Cardinality(yes) /\ \A i \in DOMAIN q : q[i] \in yes
  BY <1>5
<1>7. \A m \in yes : m.move \in Turns
  BY <1>1, MoveLetters DEF yes, Sound
<1>8. more \in MailLogs /\ DOMAIN more = DOMAIN q
  <2>1. more \in [1 .. Cardinality(yes) -> Turns]
    BY <1>6, <1>7
  <2> HIDE DEF more
  <2>2. more \in Seq(Turns)
    BY <2>1, <1>4, SeqDef
  <2> QED BY <2>1, <2>2, <1>6 DEF MailLogs
<1>9. \A m \in yes : Within(m.move, more)
  <2> TAKE m \in yes
  <2>1. PICK i \in DOMAIN q : q[i] = m
    BY <1>5
  <2>2. i \in DOMAIN more /\ more[i] = m.move
    BY <2>1
  <2> QED BY <2>2 DEF Within
<1>10. \A m \in r.mail : Within(m.move, more) \/ m.move \in denied'
  BY <1>3, <1>9 DEF yes
<1>11. runs' = [runs EXCEPT ![s] = n]
  BY <1>3
<1> HIDE DEF more
<1>12. r.snap \in Copies /\ r.snap.log \in MailLogs /\ copy \in Copies
  <2>1. r.snap.log \o more \in MailLogs /\ r.snap \in Copies /\ r.snap.log \in MailLogs
    BY <1>8, RunTypes, ManyMore DEF Sound
  <2> QED BY <2>1 DEF Copies
<1>13. n = [r EXCEPT !.snap = copy, !.pc = "put"]
  <2>1. [r.snap EXCEPT !.log = @ \o more] = copy
    <3> DEFINE k == r.snap
               log == k.log \o more
    <3>1. k \in Copies
      BY <1>12
    <3> HIDE DEF k, log
    <3>2. [k EXCEPT !.log = log] = [log |-> log, push |-> k.push]
      BY <3>1 DEF Copies
    <3> QED BY <3>2 DEF k, log, copy
  <2> QED BY <1>1, <2>1 DEF MailRuns
<1> HIDE DEF copy
<1>14. /\ n \in MailRuns /\ n.at = Keeper /\ n.page = r.page /\ n.pc = "put"
       /\ n.mail = r.mail /\ n.known = r.known /\ n.snap = copy
       /\ n.done = r.done
  BY <1>1, <1>12, <1>13 DEF MailRuns, MailSteps
<1> HIDE DEF n
<1>15. Becomes(s, Keeper, r.page, "put", r.mail, r.known, copy, r.done)
  BY <1>11, <1>14 DEF Becomes, Sound, MailTypes
<1>16. handled' \subseteq handled \cup Ids(r.mail) /\ handled \subseteq handled'
  BY DEF Apply
<1> QED BY <1>1, <1>3, <1>8, <1>10, <1>15, <1>16 DEF copy

LEMMA MarkFacts ==
    ASSUME Sound, NEW s \in RunIds, Mark(s)
    PROVE  /\ Becomes(s, Keeper, runs[s].page, "ack", runs[s].mail, runs[s].known,
                      runs[s].snap, runs[s].done)
           /\ handled' = handled \cup runs[s].done /\ runs[s].at = Keeper /\ runs[s].pc = "mark"
<1> DEFINE n == [runs[s] EXCEPT !.pc = "ack"]
<1>1. runs[s] \in MailRuns /\ runs[s].pc = "mark" /\ runs[s].at = Keeper
      /\ runs' = [runs EXCEPT ![s] = n] /\ handled' = handled \cup runs[s].done
  BY RunTypes DEF Sound, MailShapes, RunShape, Mark, OnKeeper
<1>2. /\ n \in MailRuns /\ n.at = Keeper /\ n.page = runs[s].page /\ n.pc = "ack"
      /\ n.mail = runs[s].mail /\ n.known = runs[s].known /\ n.snap = runs[s].snap
      /\ n.done = runs[s].done
  BY <1>1 DEF MailRuns, MailSteps
<1> HIDE DEF n
<1> QED BY <1>1, <1>2 DEF Becomes, Sound, MailTypes

LEMMA PutCopyFacts ==
    ASSUME Sound, NEW s \in RunIds, PutCopy(s)
    PROVE  /\ Becomes(s, Keeper, runs[s].page, "mail", runs[s].mail, runs[s].known,
                      runs[s].snap, runs[s].done)
           /\ saved' = [saved EXCEPT ![Keeper] = runs[s].snap]
           /\ runs[s].at = Keeper /\ runs[s].pc = "put"
<1> DEFINE n == [runs[s] EXCEPT !.pc = "mail", !.to = Guests]
<1>1. runs[s] \in MailRuns /\ runs[s].pc = "put" /\ runs[s].at = Keeper
      /\ saved' = [saved EXCEPT ![Keeper] = runs[s].snap]
  BY RunTypes DEF Sound, MailShapes, RunShape, PutCopy, OnKeeper
<1>0. runs' = [runs EXCEPT ![s] = n]
  BY DEF PutCopy
<1>2. /\ n \in MailRuns /\ n.at = Keeper /\ n.page = runs[s].page /\ n.pc = "mail"
      /\ n.mail = runs[s].mail /\ n.known = runs[s].known /\ n.snap = runs[s].snap
      /\ n.done = runs[s].done
  BY <1>1 DEF MailRuns, MailSteps
<1> HIDE DEF n
<1> QED BY <1>0, <1>1, <1>2 DEF Becomes, Sound, MailTypes

MailedTo(s, g) ==
    /\ \E v \in Letters : v.id = posted + 1 /\ v.kind = "view" /\ v.log = runs[s].snap.log
                          /\ v.base = -1 /\ SentTo(g, v)
    /\ \E pc \in {"mail", "ack"} :
          Becomes(s, Keeper, runs[s].page, pc, runs[s].mail, runs[s].known, runs[s].snap,
                  runs[s].done \cup Ids(runs[s].mail))
    /\ UNCHANGED post

LEMMA MailViewsFacts ==
    ASSUME Sound, NEW s \in RunIds, MailViews(s)
    PROVE  /\ runs[s].at = Keeper /\ runs[s].pc = "mail"
           /\ (\E g \in Guests : MailedTo(s, g)) \/ Fail(s)
<1> DEFINE r == runs[s]
<1>1. /\ r \in MailRuns /\ r.pc = "mail" /\ r.at = Keeper /\ r.mail \subseteq Letters
      /\ r.snap.log \in MailLogs /\ r.to \subseteq Guests /\ r.known \in MailLogs /\ Len(r.known) \in Int
  <2>1. r \in MailRuns /\ r.mail \subseteq Letters /\ r.snap.log \in MailLogs
        /\ r.to \subseteq Guests /\ r.known \in MailLogs
    BY RunTypes DEF Sound
  <2>2. r.pc = "mail" /\ r.at = Keeper
    BY DEF Sound, MailShapes, RunShape, MailViews, OnKeeper
  <2>3. Len(r.known) \in Int
    BY <2>1, LogFacts
  <2> QED BY <2>1, <2>2, <2>3
<1>2. ASSUME NEW g \in r.to, Send(g, View(r.snap.log, FALSE), Len(r.known)), UNCHANGED post,
             runs' = [runs EXCEPT ![s].to = @ \ {g}, ![s].pc = IF r.to = {g} THEN "ack" ELSE "mail",
                                  ![s].done = @ \cup Ids(r.mail)]
      PROVE  MailedTo(s, g)
  <2> DEFINE v == View(r.snap.log, FALSE)
             pc == IF r.to = {g} THEN "ack" ELSE "mail"
             n == [r EXCEPT !.to = @ \ {g}, !.pc = pc, !.done = @ \cup Ids(r.mail)]
  <2>1. v \in Letters /\ v.id = posted + 1 /\ v.kind = "view" /\ v.log = r.snap.log /\ v.base = -1
    BY <1>1, ViewLetter DEF Sound
  <2>2. Send(g, v, Len(r.known))
    BY <1>2
  <2>0. runs' = [runs EXCEPT ![s] = n]
    BY <1>2
  <2>3. pc \in {"mail", "ack"} /\ pc \in MailSteps
    BY DEF MailSteps
  <2> HIDE DEF v, pc
  <2>4. g \in Guests /\ SentTo(g, v)
    BY <1>1, <1>2, <2>1, <2>2, SendFacts, Keepers DEF Sound
  <2>5. Ids(r.mail) \subseteq Nat
    BY <1>1, LetterTypes DEF Ids
  <2>6. /\ n \in MailRuns /\ n.at = Keeper /\ n.page = r.page /\ n.pc = pc /\ n.mail = r.mail
        /\ n.known = r.known /\ n.snap = r.snap /\ n.done = r.done \cup Ids(r.mail)
    BY <1>1, <2>3, <2>5 DEF MailRuns
  <2> HIDE DEF n
  <2>7. Becomes(s, Keeper, r.page, pc, r.mail, r.known, r.snap, r.done \cup Ids(r.mail))
    BY <2>0, <2>6 DEF Becomes, Sound, MailTypes
  <2> QED BY <1>2, <2>1, <2>3, <2>4, <2>7 DEF MailedTo
<1>3. \/ \E g \in r.to :
            /\ Send(g, View(r.snap.log, FALSE), Len(r.known)) /\ UNCHANGED post
            /\ runs' = [runs EXCEPT ![s].to = @ \ {g}, ![s].pc = IF r.to = {g} THEN "ack" ELSE "mail",
                                    ![s].done = @ \cup Ids(r.mail)]
      \/ Fail(s)
  BY DEF MailViews
<1> QED BY <1>1, <1>2, <1>3

(* A run that ends removes what it did from the mailbox; one that came by push
   removes nothing, and may read the mailbox.                               *)
LEMMA AckFacts ==
    ASSUME Sound, NEW s \in RunIds, Ack(s)
    PROVE  /\ runs[s].pc = "ack"
           /\ \/ /\ Ended(s) /\ UNCHANGED <<post, pushes, posted>>
                 /\ boxes' \in [Mailed -> SUBSET Letters]
                 /\ \A d \in Mailed : d # runs[s].at => boxes'[d] = boxes[d]
                 /\ boxes'[runs[s].at] = {m \in boxes[runs[s].at] : m.id \notin runs[s].done}
              \/ /\ Becomes(s, runs[s].at, runs[s].page, "open", boxes[runs[s].at], << >>, Empty, {})
                 /\ UNCHANGED <<post, boxes, pushes, posted>>
              \/ Ended(s) /\ UNCHANGED <<post, boxes, pushes, posted>>
              \/ Fail(s)
<1> DEFINE r == runs[s]
<1>1. r \in MailRuns /\ r.at \in Mailed /\ r.page \in BOOLEAN /\ boxes[r.at] \in SUBSET Letters
  BY RunTypes DEF Sound, MailTypes
<1>2. /\ r.pc = "ack"
      /\ \/ /\ boxes' = [boxes EXCEPT ![r.at] = {m \in @ : m.id \notin r.done}]
            /\ runs' = [runs EXCEPT ![s] = NoRun] /\ UNCHANGED <<post, pushes, posted>>
         \/ /\ UNCHANGED boxes
            /\ \/ Started(s, r.at, r.page, "again", boxes[r.at])
               \/ runs' = [runs EXCEPT ![s] = NoRun]
            /\ UNCHANGED <<post, pushes, posted>>
         \/ Fail(s)
  BY DEF Ack
<1>3. ASSUME runs' = [runs EXCEPT ![s] = NoRun] PROVE Ended(s)
  BY <1>3, EndedRun DEF Sound
<1>4. ASSUME Started(s, r.at, r.page, "again", boxes[r.at])
      PROVE  Becomes(s, r.at, r.page, "open", boxes[r.at], << >>, Empty, {})
  BY <1>1, <1>4, StartedRun DEF Sound
<1>5. ASSUME boxes' = [boxes EXCEPT ![r.at] = {m \in @ : m.id \notin r.done}]
      PROVE  /\ boxes' \in [Mailed -> SUBSET Letters]
             /\ \A d \in Mailed : d # r.at => boxes'[d] = boxes[d]
             /\ boxes'[r.at] = {m \in boxes[r.at] : m.id \notin r.done}
  BY <1>1, <1>5 DEF Sound, MailTypes
<1> HIDE DEF r
<1>6. \/ /\ Ended(s) /\ UNCHANGED <<post, pushes, posted>>
         /\ boxes' \in [Mailed -> SUBSET Letters]
         /\ \A d \in Mailed : d # r.at => boxes'[d] = boxes[d]
         /\ boxes'[r.at] = {m \in boxes[r.at] : m.id \notin r.done}
      \/ /\ Becomes(s, r.at, r.page, "open", boxes[r.at], << >>, Empty, {})
         /\ UNCHANGED <<post, boxes, pushes, posted>>
      \/ Ended(s) /\ UNCHANGED <<post, boxes, pushes, posted>>
      \/ Fail(s)
  BY <1>2, <1>3, <1>4, <1>5
<1> QED BY <1>2, <1>6 DEF r

LEMMA TableFacts ==
    ASSUME MailTypes, OpenTable \/ CloseTable \/ OwnMove
    PROVE  /\ post' \in MailConf /\ post'.moves = post.moves /\ post'.overlap = post.overlap
           /\ post'.pinned = post.pinned /\ post'.dies = post.dies
           /\ UNCHANGED <<boxes, pushes, posted, handled, runs, sent, denied>>
           /\ live' \in [on : BOOLEAN, mails : BOOLEAN, log : MailLogs, mailed : [Guests -> Int]]
           /\ saved' \in [Mailed -> Copies]
           /\ OpenTable => /\ live'.on /\ live'.log = saved[Keeper].log /\ saved' = saved
                           /\ Keeper \in post.overlap \/ RunsAt(Keeper) = {}
           /\ CloseTable => ~live'.on /\ live'.log = live.log /\ saved' = saved
           /\ OwnMove => /\ live.on /\ live'.on /\ live'.log = saved'[Keeper].log
                         /\ saved'[Keeper].push = saved[Keeper].push
                         /\ \A d \in Mailed : d # Keeper => saved'[d] = saved[d]
                         /\ Before(live.log, live'.log)
<1>1. CASE OpenTable
  <2>1. /\ post.opens > 0 /\ post' = [post EXCEPT !.opens = post.opens - 1]
        /\ live' = [on |-> TRUE, mails |-> TRUE, log |-> saved[Keeper].log,
                    mailed |-> [g \in Guests |-> -1]]
        /\ saved' = saved /\ (Keeper \in post.overlap \/ RunsAt(Keeper) = {})
    BY <1>1 DEF OpenTable
  <2>0. UNCHANGED <<boxes, pushes, posted, handled, runs, sent, denied>>
    BY <1>1 DEF OpenTable
  <2>2. /\ post' \in MailConf /\ post'.moves = post.moves /\ post'.overlap = post.overlap
        /\ post'.pinned = post.pinned /\ post'.dies = post.dies
    BY <2>1 DEF MailTypes, MailConf
  <2>3. saved[Keeper].log \in MailLogs /\ saved' \in [Mailed -> Copies]
    BY <2>1, Keepers DEF MailTypes, Copies
  <2>4. /\ live' \in [on : BOOLEAN, mails : BOOLEAN, log : MailLogs, mailed : [Guests -> Int]]
        /\ live'.on /\ live'.log = saved[Keeper].log
    BY <2>1, <2>3
  <2>5. ~CloseTable /\ ~OwnMove
    BY <1>1 DEF OpenTable, CloseTable, OwnMove
  <2> QED BY <2>0, <2>1, <2>2, <2>3, <2>4, <2>5
<1>2. CASE CloseTable
  <2>1. live' = [live EXCEPT !.on = FALSE] /\ saved' = saved /\ post' = post
        /\ UNCHANGED <<boxes, pushes, posted, handled, runs, sent, denied>>
    BY <1>2 DEF CloseTable
  <2>2. /\ live' \in [on : BOOLEAN, mails : BOOLEAN, log : MailLogs, mailed : [Guests -> Int]]
        /\ ~live'.on /\ live'.log = live.log
    BY <2>1 DEF MailTypes
  <2>5. ~OpenTable /\ ~OwnMove
    <3>1. live'.on = FALSE
      BY <2>1 DEF MailTypes
    <3>2. OwnMove => live'.on
      <4>1. OwnMove => live.on /\ live' = [live EXCEPT !.log = Append(@, <<Keeper, post.own>>)]
        BY DEF OwnMove
      <4> QED BY <4>1 DEF MailTypes
    <3> QED BY <3>1, <3>2, <1>2 DEF OpenTable, CloseTable
  <2> QED BY <2>1, <2>2, <2>5 DEF MailTypes
<1>3. CASE OwnMove
  <2> DEFINE log == Append(live.log, <<Keeper, post.own>>)
  <2>1. live.on /\ post.own > 0 /\ post' = [post EXCEPT !.own = post.own - 1]
        /\ live' = [live EXCEPT !.log = log]
        /\ saved' = [saved EXCEPT ![Keeper].log = live'.log]
    BY <1>3 DEF OwnMove
  <2>0. UNCHANGED <<boxes, pushes, posted, handled, runs, sent, denied>>
    BY <1>3 DEF OwnMove
  <2>2. /\ post' \in MailConf /\ post'.moves = post.moves /\ post'.overlap = post.overlap
        /\ post'.pinned = post.pinned /\ post'.dies = post.dies
    <3>1. post.own > 0 /\ post' = [post EXCEPT !.own = post.own - 1]
      BY <2>1
    <3> QED BY <3>1 DEF MailTypes, MailConf
  <2>3. log \in MailLogs /\ Before(live.log, log)
    <3>1. <<Keeper, post.own>> \in Turns /\ live.log \in MailLogs
      BY Keepers DEF MailTypes, MailConf, Turns
    <3> QED BY <3>1, OneMore
  <2> HIDE DEF log
  <2>4. /\ live' \in [on : BOOLEAN, mails : BOOLEAN, log : MailLogs, mailed : [Guests -> Int]]
        /\ live'.on /\ live'.log = log
    BY <2>1, <2>3 DEF MailTypes
  <2>6. /\ saved' \in [Mailed -> Copies] /\ saved'[Keeper].log = log
        /\ saved'[Keeper].push = saved[Keeper].push
        /\ \A d \in Mailed : d # Keeper => saved'[d] = saved[d]
    <3>1. saved' = [saved EXCEPT ![Keeper].log = log]
      BY <2>1, <2>4
    <3> QED BY <3>1, <2>3, Keepers DEF MailTypes, Copies
  <2>5. ~OpenTable /\ ~CloseTable
    BY <2>4, <1>3 DEF OpenTable, CloseTable, OwnMove
  <2> QED BY <2>0, <2>1, <2>2, <2>3, <2>4, <2>5, <2>6
<1> QED BY <1>1, <1>2, <1>3

-----------------------------------------------------------------------------
(* Types and shapes. *)

PostGoes == /\ posted' \in Nat /\ posted <= posted'
        /\ post'.moves = post.moves /\ post'.overlap = post.overlap
        /\ sent' \in [Guests -> Nat] /\ \A g \in Guests : sent[g] <= sent'[g]

LEMMA LetterStays ==
    ASSUME MailTypes, PostGoes
    PROVE  /\ Mine \subseteq Mine'
           /\ \A d, m : LetterTo(d, m) => LetterOf(d, m, posted', Mine')
<1>1. ASSUME NEW move \in Mine PROVE move \in Mine'
  <2>1. /\ move \in Guests \X (1 .. post.moves) /\ move[2] <= sent[move[1]]
        /\ post.moves \in Nat
    BY DEF Mine, MovesOf, MailTypes, MailConf
  <2>2. /\ move[1] \in Guests /\ move[2] \in 1 .. post.moves
        /\ sent[move[1]] <= sent'[move[1]] /\ sent[move[1]] \in Nat /\ sent'[move[1]] \in Nat
    BY <2>1 DEF PostGoes, MailTypes
  <2>3. move[2] <= sent'[move[1]]
    BY <2>1, <2>2
  <2>4. move \in Guests \X (1 .. post'.moves)
    BY <2>1 DEF PostGoes
  <2> QED BY <2>3, <2>4 DEF Mine, MovesOf
<1>2. 1 .. posted \subseteq 1 .. posted'
  BY DEF PostGoes, MailTypes
<1> QED BY <1>1, <1>2 DEF LetterTo, LetterOf

RunOK(at, pc, mail, snap, done) ==
    /\ pc \in OnKeeper => at = Keeper
    /\ pc = "store" => at # Keeper
    /\ at = Keeper => ~snap.push
    /\ done \subseteq 1 .. posted'
    /\ pc \in {"store", "deliver"} => mail # {}
    /\ \A m \in mail : LetterOf(at, m, posted', Mine')
    /\ at = Keeper => IsFiniteSet(mail)

RunsOK == /\ runs \in [RunIds -> MailRuns]
          /\ \A s \in RunIds : RunShape(runs[s]) /\ (runs[s].at = Keeper => IsFiniteSet(runs[s].mail))

LEMMA RunsStay ==
    ASSUME Sound, MailFinite, PostGoes, NEW s \in RunIds, NEW at, NEW page, NEW pc, NEW mail, NEW known,
           NEW snap, NEW done,
           Becomes(s, at, page, pc, mail, known, snap, done), RunOK(at, pc, mail, snap, done)
    PROVE  RunsOK'
<1>1. runs' \in [RunIds -> MailRuns]
  BY DEF Becomes
<1>2. ASSUME NEW t \in RunIds, t # s
      PROVE  RunShape(runs[t])' /\ (runs'[t].at = Keeper => IsFiniteSet(runs'[t].mail))
  <2>1. runs'[t] = runs[t]
    BY <1>2 DEF Becomes
  <2>2. RunShape(runs[t]) /\ (runs[t].at = Keeper => IsFiniteSet(runs[t].mail))
    BY DEF Sound, MailShapes, MailFinite
  <2>3. \A m \in runs[t].mail : LetterOf(runs[t].at, m, posted', Mine')
    BY <2>2, LetterStays DEF RunShape, Sound
  <2>4. 1 .. posted \subseteq 1 .. posted'
    BY DEF PostGoes, Sound, MailTypes
  <2> QED BY <2>1, <2>2, <2>3, <2>4 DEF RunShape, LetterTo
<1>3. RunShape(runs[s])' /\ (runs'[s].at = Keeper => IsFiniteSet(runs'[s].mail))
  BY DEF Becomes, RunOK, RunShape, LetterTo
<1> QED BY <1>1, <1>2, <1>3 DEF RunsOK

LEMMA RunsSame ==
    ASSUME Sound, MailFinite, PostGoes, UNCHANGED runs
    PROVE  RunsOK'
<1>1. ASSUME NEW t \in RunIds
      PROVE  RunShape(runs[t])' /\ (runs'[t].at = Keeper => IsFiniteSet(runs'[t].mail))
  <2>1. runs'[t] = runs[t]
    OBVIOUS
  <2>2. RunShape(runs[t]) /\ (runs[t].at = Keeper => IsFiniteSet(runs[t].mail))
    BY DEF Sound, MailShapes, MailFinite
  <2>3. \A m \in runs[t].mail : LetterOf(runs[t].at, m, posted', Mine')
    BY <2>2, LetterStays DEF RunShape, Sound
  <2>4. 1 .. posted \subseteq 1 .. posted'
    BY DEF PostGoes, Sound, MailTypes
  <2> QED BY <2>1, <2>2, <2>3, <2>4 DEF RunShape, LetterTo
<1> QED BY <1>1 DEF RunsOK, Sound, MailTypes

LEMMA RunEnds ==
    ASSUME Sound, MailFinite, PostGoes, NEW s \in RunIds, Ended(s)
    PROVE  RunsOK'
<1>1. RunOK(Keeper, "off", {}, Empty, {})
  BY FS_EmptySet DEF RunOK, OnKeeper, Empty
<1> QED BY <1>1, RunsStay DEF Ended

(* The mailbox and the pushes.                                              *)
PostOK == /\ boxes \in [Mailed -> SUBSET Letters]
          /\ pushes \subseteq [to : Mailed, taken : BOOLEAN, m : Letters]
          /\ \A d \in Mailed : BoxShape(d) /\ IsFiniteSet(boxes[d])
          /\ \A p \in pushes : PushShape(p)

LEMMA PostStays ==
    ASSUME Sound, MailFinite, PostGoes, boxes' \in [Mailed -> SUBSET Letters],
           \A d \in Mailed : boxes'[d] \subseteq boxes[d],
           pushes' \subseteq [to : Mailed, taken : BOOLEAN, m : Letters],
           \A p \in pushes' : p \in pushes \/
              \E q \in pushes : p.to = q.to /\ p.m = q.m /\ p.to \in post.overlap
    PROVE  PostOK'
<1>1. ASSUME NEW d \in Mailed PROVE BoxShape(d)' /\ IsFiniteSet(boxes'[d])
  <2>1. BoxShape(d) /\ IsFiniteSet(boxes[d]) /\ boxes'[d] \in SUBSET boxes[d]
    BY DEF Sound, MailShapes, MailFinite
  <2>2. IsFiniteSet(boxes'[d])
    BY <2>1, FS_Subset
  <2>3. BoxShape(d)'
    BY <2>1, LetterStays DEF BoxShape, Sound, LetterTo
  <2> QED BY <2>2, <2>3
<1>2. ASSUME NEW p \in pushes' PROVE PushShape(p)'
  <2>1. ASSUME p \in pushes PROVE PushShape(p)'
    BY <2>1, LetterStays DEF Sound, MailShapes, PushShape, PostGoes, LetterTo
  <2>2. ASSUME NEW q \in pushes, p.to = q.to, p.m = q.m, p.to \in post.overlap PROVE PushShape(p)'
    <3>1. PushShape(q)
      BY DEF Sound, MailShapes
    <3> QED BY <2>2, <3>1, LetterStays DEF Sound, PushShape, PostGoes, LetterTo
  <2> QED BY <2>1, <2>2
<1> QED BY <1>1, <1>2 DEF PostOK

LEMMA PostSent ==
    ASSUME Sound, MailFinite, PostGoes, NEW to \in Mailed, NEW m \in Letters, SentTo(to, m),
           m.id = posted + 1, LetterOf(to, m, posted', Mine')
    PROVE  PostOK'
<1>0. posted \in Nat /\ posted' = posted + 1
  BY DEF Sound, MailTypes, SentTo
<1>1. ASSUME NEW d \in Mailed PROVE BoxShape(d)' /\ IsFiniteSet(boxes'[d])
  <2>1. BoxShape(d) /\ IsFiniteSet(boxes[d])
    BY DEF Sound, MailShapes, MailFinite
  <2>2. CASE d # to
    <3>1. boxes'[d] = boxes[d]
      BY <2>2 DEF SentTo
    <3> QED BY <2>1, <3>1, LetterStays DEF BoxShape, Sound, LetterTo
  <2>3. CASE d = to
    <3>1. boxes'[d] \in SUBSET (boxes[d] \cup {m})
      BY <2>3 DEF SentTo
    <3>2. IsFiniteSet(boxes'[d])
      BY <2>1, <3>1, FS_AddElement, FS_Subset
    <3>3. \A o \in boxes[d] : o.id \in 1 .. posted /\ LetterOf(d, o, posted', Mine')
          /\ \A n \in boxes[d] : o.id = n.id => o = n
      BY <2>1, LetterStays DEF BoxShape, Sound, LetterTo, LetterOf
    <3>4. \A o \in boxes[d] : o.id # m.id
      BY <3>3, <1>0
    <3> QED BY <2>3, <3>1, <3>2, <3>3, <3>4 DEF BoxShape, LetterTo
  <2> QED BY <2>2, <2>3
<1>2. ASSUME NEW p \in pushes' PROVE PushShape(p)'
  <2>1. ASSUME p \in pushes PROVE PushShape(p)'
    BY <2>1, LetterStays DEF Sound, MailShapes, PushShape, PostGoes, LetterTo
  <2>2. ASSUME p.to = to, ~p.taken, Copied(p.m, m), m.kind = "cmd" => p.m.base = -1
        PROVE  PushShape(p)'
    BY <2>2 DEF PushShape, LetterTo, LetterOf, Copied
  <2> QED BY <2>1, <2>2 DEF SentTo
<1>3. boxes' \in [Mailed -> SUBSET Letters] /\ pushes' \subseteq [to : Mailed, taken : BOOLEAN, m : Letters]
  BY DEF SentTo
<1> QED BY <1>1, <1>2, <1>3 DEF PostOK

(* The rest of the state.                                                   *)
RestOK == /\ post \in MailConf /\ posted \in Nat /\ saved \in [Mailed -> Copies]
          /\ live \in [on : BOOLEAN, mails : BOOLEAN, log : MailLogs, mailed : [Guests -> Int]]
          /\ sent \in [Guests -> Nat] /\ denied \subseteq Turns
          /\ handled \subseteq 1 .. posted /\ denied \subseteq Mine
          /\ \A g \in Guests : sent[g] <= post.moves
          /\ ~saved[Keeper].push

LEMMA SoundParts == RunsOK /\ PostOK /\ RestOK <=> Sound /\ MailFinite
<1>1. RestOK => handled \subseteq Nat
  BY DEF RestOK
<1> QED BY <1>1 DEF RunsOK, PostOK, RestOK, Sound, MailTypes, MailShapes, MailFinite

AllOK == RunsOK /\ PostOK /\ RestOK
SoundNow == Sound /\ MailFinite

LEMMA RunIdle ==
    ASSUME SoundNow, UNCHANGED <<posted, sent>>, post'.moves = post.moves,
           post'.overlap = post.overlap
    PROVE  PostGoes
BY DEF SoundNow, Sound, MailTypes, PostGoes

LEMMA RestStays ==
    ASSUME SoundNow, PostGoes, post' \in MailConf, saved' \in [Mailed -> Copies], ~saved'[Keeper].push,
           live' \in [on : BOOLEAN, mails : BOOLEAN, log : MailLogs, mailed : [Guests -> Int]],
           \A x \in denied' : x \in denied \/ (x \in Mine /\ x \in Turns),
           \A i \in handled' : i \in handled \/ i \in 1 .. posted,
           \A g \in Guests : sent'[g] <= post'.moves
    PROVE  RestOK'
<1>1. Mine \subseteq Mine' /\ 1 .. posted \subseteq 1 .. posted'
  BY LetterStays DEF SoundNow, Sound, MailTypes, PostGoes
<1>2. denied' \subseteq Turns /\ denied' \subseteq Mine'
  BY <1>1 DEF SoundNow, Sound, MailTypes, MailShapes
<1>3. handled' \subseteq 1 .. posted'
  BY <1>1 DEF SoundNow, Sound, MailShapes
<1> QED BY <1>2, <1>3 DEF RestOK, PostGoes

(* Nothing but runs, letters and what is marked and refused changes.        *)
LEMMA RestSame ==
    ASSUME SoundNow, PostGoes, post' \in MailConf, UNCHANGED <<saved, live, sent>>,
           \A x \in denied' : x \in denied \/ (x \in Mine /\ x \in Turns),
           \A i \in handled' : i \in handled \/ i \in 1 .. posted
    PROVE  RestOK'
<1>1. /\ saved' \in [Mailed -> Copies] /\ ~saved'[Keeper].push
      /\ live' \in [on : BOOLEAN, mails : BOOLEAN, log : MailLogs, mailed : [Guests -> Int]]
  BY DEF SoundNow, Sound, MailTypes, MailShapes
<1>2. \A g \in Guests : sent'[g] <= post'.moves
  BY DEF SoundNow, Sound, MailShapes, PostGoes
<1> QED BY <1>1, <1>2, RestStays

LEMMA GuestMoveSound ==
    ASSUME SoundNow, NEW g \in Guests, GuestMove(g)
    PROVE  AllOK'
<1>1. PICK m \in Letters :
        /\ m.id = posted + 1 /\ m.from = g /\ m.kind = "cmd" /\ m.base = -1
        /\ m.move = <<g, sent[g] + 1>> /\ SentTo(Keeper, m)
        /\ sent[g] < post.moves /\ sent' = [sent EXCEPT ![g] = sent[g] + 1]
  BY GuestMoveFacts DEF SoundNow, Sound
<1>2. UNCHANGED <<post, saved, handled, runs, live, denied>>
  BY DEF GuestMove
<1>3. sent \in [Guests -> Nat] /\ posted \in Nat /\ post.moves \in Nat
      /\ \A h \in Guests : sent[h] <= post.moves
  BY DEF SoundNow, Sound, MailTypes, MailShapes, MailConf
<1>4. sent'[g] = sent[g] + 1 /\ sent[g] + 1 <= post.moves /\ sent[g] + 1 \in 1 .. post.moves
  BY <1>1, <1>3
<1>5. sent' \in [Guests -> Nat] /\ \A h \in Guests : sent[h] <= sent'[h] /\ sent'[h] <= post.moves
  BY <1>1, <1>3, <1>4
<1>6. posted' = posted + 1
  BY <1>1 DEF SentTo
<1>7. PostGoes
  BY <1>2, <1>3, <1>5, <1>6 DEF PostGoes
<1>8. m.move \in Mine'
  BY <1>1, <1>2, <1>4 DEF Mine, MovesOf
<1>9. LetterOf(Keeper, m, posted', Mine')
  <2>1. Len(m.log) \in Nat /\ posted + 1 \in 1 .. posted'
    BY <1>3, <1>6, LetterTypes, LogFacts
  <2>2. m.base \in -1 .. Len(m.log)
    BY <2>1, <1>1
  <2> QED BY <1>1, <1>8, <2>1, <2>2 DEF LetterOf
<1>10. PostOK'
  BY <1>1, <1>7, <1>9, PostSent, Keepers DEF SoundNow
<1>11. RunsOK'
  BY <1>2, <1>7, RunsSame DEF SoundNow
<1>12. RestOK'
  <2>1. /\ post' \in MailConf /\ saved' \in [Mailed -> Copies] /\ ~saved'[Keeper].push
        /\ live' \in [on : BOOLEAN, mails : BOOLEAN, log : MailLogs, mailed : [Guests -> Int]]
    BY <1>2 DEF SoundNow, Sound, MailTypes, MailShapes
  <2> QED BY <1>2, <1>5, <1>7, <2>1, RestStays
<1> QED BY <1>10, <1>11, <1>12 DEF AllOK

(* A position that is sent to a guest.                                      *)
LEMMA ViewOf ==
    ASSUME SoundNow, NEW g \in Guests, NEW v \in Letters, v.id = posted + 1, v.kind = "view",
           v.base = -1, posted' = posted + 1
    PROVE  LetterOf(g, v, posted', Mine')
<1>1. posted \in Nat /\ Len(v.log) \in Nat
  BY LetterTypes, LogFacts DEF SoundNow, Sound, MailTypes
<1>2. v.id \in 1 .. posted' /\ v.base \in -1 .. Len(v.log)
  BY <1>1
<1> QED BY <1>2, Keepers DEF LetterOf

LEMMA PostViewed ==
    ASSUME SoundNow, NEW g \in Guests, NEW v \in Letters, v.id = posted + 1, v.kind = "view",
           v.base = -1, SentTo(g, v), UNCHANGED sent, post'.moves = post.moves,
           post'.overlap = post.overlap
    PROVE  PostGoes /\ PostOK'
<1>1. posted' = posted + 1
  BY DEF SentTo
<1>2. PostGoes
  BY <1>1 DEF SoundNow, Sound, MailTypes, PostGoes
<1> QED BY <1>1, <1>2, ViewOf, PostSent, Keepers DEF SoundNow

LEMMA MailAbsentSound ==
    ASSUME SoundNow, NEW g \in Guests, MailAbsent(g)
    PROVE  AllOK'
<1>1. PICK m \in Letters :
         /\ m.id = posted + 1 /\ m.kind = "view" /\ m.log = live.log /\ m.base = -1
         /\ SentTo(g, m) /\ live' = [live EXCEPT !.mailed[g] = Len(live.log)]
  BY MailAbsentFacts DEF SoundNow, Sound
<1>2. UNCHANGED <<post, saved, handled, runs, sent, denied>>
  BY DEF MailAbsent
<1>3. PostGoes /\ PostOK'
  BY <1>1, <1>2, PostViewed
<1>4. RunsOK'
  BY <1>2, <1>3, RunsSame DEF SoundNow
<1>5. live' \in [on : BOOLEAN, mails : BOOLEAN, log : MailLogs, mailed : [Guests -> Int]]
  <2>1. Len(live.log) \in Int
    BY LogFacts DEF SoundNow, Sound, MailTypes
  <2> QED BY <1>1, <2>1 DEF SoundNow, Sound, MailTypes
<1>6. RestOK'
  <2>1. post' \in MailConf /\ saved' \in [Mailed -> Copies] /\ ~saved'[Keeper].push
    BY <1>2 DEF SoundNow, Sound, MailTypes, MailShapes
  <2>2. \A h \in Guests : sent'[h] <= post'.moves
    BY <1>2 DEF SoundNow, Sound, MailShapes
  <2> QED BY <1>2, <1>3, <1>5, <2>1, <2>2, RestStays
<1> QED BY <1>3, <1>4, <1>6 DEF AllOK

(* The mailbox and the pushes as they were.                                 *)
LEMMA PostSame ==
    ASSUME SoundNow, PostGoes, UNCHANGED <<boxes, pushes>>
    PROVE  PostOK'
<1>1. boxes' \in [Mailed -> SUBSET Letters] /\ \A d \in Mailed : boxes'[d] \subseteq boxes[d]
  BY DEF SoundNow, Sound, MailTypes
<1>2. pushes' \subseteq [to : Mailed, taken : BOOLEAN, m : Letters] /\ \A p \in pushes' : p \in pushes
  BY DEF SoundNow, Sound, MailTypes
<1> QED BY <1>1, <1>2, PostStays DEF SoundNow

LEMMA CheckSound ==
    ASSUME SoundNow, NEW s \in RunIds, NEW d \in Mailed, NEW page \in BOOLEAN, Check(s, d, page)
    PROVE  AllOK'
<1>1. Becomes(s, d, page, "open", boxes[d], << >>, Empty, {})
  BY CheckFacts DEF SoundNow, Sound
<1>2. UNCHANGED <<post, boxes, pushes, posted, saved, handled, live, sent, denied>>
  BY DEF Check
<1>3. PostGoes /\ post' \in MailConf
  BY <1>2, RunIdle DEF SoundNow, Sound, MailTypes
<1>4. \A m \in boxes[d] : LetterOf(d, m, posted', Mine')
  BY <1>3, LetterStays DEF SoundNow, Sound, MailShapes, BoxShape
<1>5. RunOK(d, "open", boxes[d], Empty, {})
  BY <1>4 DEF RunOK, OnKeeper, Empty, SoundNow, MailFinite
<1>6. RunsOK'
  BY <1>1, <1>3, <1>5, RunsStay DEF SoundNow
<1>7. PostOK' /\ RestOK'
  BY <1>2, <1>3, PostSame, RestSame
<1> QED BY <1>6, <1>7 DEF AllOK

LEMMA OnPushSound ==
    ASSUME SoundNow, NEW s \in RunIds, NEW p \in pushes, NEW page \in BOOLEAN, OnPush(s, p, page)
    PROVE  AllOK'
<1>1. /\ Becomes(s, p.to, page, "open", {p.m}, << >>, Empty, {})
      /\ pushes' \subseteq [to : Mailed, taken : BOOLEAN, m : Letters]
      /\ \A q \in pushes' : q \in pushes \/ (q.to = p.to /\ q.m = p.m /\ q.to \in post.overlap)
  BY OnPushFacts DEF SoundNow, Sound
<1>2. UNCHANGED <<post, boxes, posted, saved, handled, live, sent, denied>>
  BY DEF OnPush
<1>3. PostGoes /\ post' \in MailConf
  BY <1>2, RunIdle DEF SoundNow, Sound, MailTypes
<1>4. LetterOf(p.to, p.m, posted', Mine')
  BY <1>3, LetterStays DEF SoundNow, Sound, MailShapes, PushShape
<1>5. RunOK(p.to, "open", {p.m}, Empty, {})
  BY <1>4, FS_Singleton DEF RunOK, OnKeeper, Empty
<1>6. RunsOK'
  BY <1>1, <1>3, <1>5, RunsStay DEF SoundNow
<1>7. PostOK'
  <2>1. boxes' \in [Mailed -> SUBSET Letters] /\ \A d \in Mailed : boxes'[d] \subseteq boxes[d]
    BY <1>2 DEF SoundNow, Sound, MailTypes
  <2> QED BY <1>1, <1>3, <2>1, PostStays DEF SoundNow
<1>8. RestOK'
  BY <1>2, <1>3, RestSame
<1> QED BY <1>6, <1>7, <1>8 DEF AllOK

LEMMA RunLetters ==
    ASSUME Sound, NEW s \in RunIds, NEW m \in runs[s].mail
    PROVE  m \in Letters /\ LetterTo(runs[s].at, m)
BY RunTypes DEF Sound, MailShapes, RunShape

LEMMA OpenedAs ==
    ASSUME Sound, NEW s \in RunIds, NEW m \in OpenedMail(s), NEW o,
           o = Rebuilt(saved[runs[s].at].log, m)
    PROVE  /\ m \in runs[s].mail /\ o \in Letters /\ o.id = m.id /\ o.kind = m.kind /\ o.base = m.base
           /\ runs[s].at = Keeper => o = m
           /\ Len(m.log) <= Len(o.log)
           /\ \A all \in MailLogs : Before(saved[runs[s].at].log, all) /\ Before(m.log, all) =>
                 Before(o.log, all)
<1>1. m \in runs[s].mail /\ ~Useless(runs[s], m)
  BY DEF OpenedMail
<1>2. m \in Letters /\ LetterTo(runs[s].at, m)
  BY <1>1, RunLetters
<1>3. saved[runs[s].at].log \in MailLogs
  BY RunTypes DEF Sound, MailTypes, Copies
<1>4. m.base \in -1 .. Len(m.log) /\ (runs[s].at = Keeper => m.base = -1)
  BY <1>2 DEF LetterTo, LetterOf
<1>5. m.base # -1 => Len(saved[runs[s].at].log) = m.base
  BY <1>1 DEF Useless, IsBase
<1> DEFINE log == saved[runs[s].at].log
<1>6. log \in MailLogs /\ o = Rebuilt(log, m) /\ (m.base # -1 => Len(log) = m.base)
  BY <1>3, <1>5
<1> HIDE DEF log
<1>7. /\ o \in Letters /\ o.id = m.id /\ o.kind = m.kind /\ o.base = m.base
      /\ m.base = -1 => o = m
      /\ Len(m.log) <= Len(o.log)
      /\ \A all \in MailLogs : Before(log, all) /\ Before(m.log, all) => Before(o.log, all)
  BY <1>2, <1>4, <1>6, RebuiltTyped
<1> QED BY <1>1, <1>4, <1>7 DEF log

LEMMA OpenSound ==
    ASSUME SoundNow, NEW s \in RunIds, Open(s)
    PROVE  AllOK'
<1>s. Sound
  BY DEF SoundNow
<1>o. PICK pc \in {"moves", "ack", "store"}, mail \in SUBSET Letters, done \in SUBSET Nat :
        Opening(s, pc, mail, done)
  BY <1>s, OpenFacts
<1>1. /\ Becomes(s, runs[s].at, runs[s].page, pc, mail, saved[runs[s].at].log,
                 saved[runs[s].at], done)
      /\ pc = "moves" => runs[s].at = Keeper
      /\ pc = "store" => runs[s].at # Keeper /\ mail # {}
      /\ mail = {Rebuilt(saved[runs[s].at].log, m) : m \in OpenedMail(s)}
      /\ handled' \subseteq handled /\ done \subseteq handled
  BY <1>o DEF Opening
<1>2. UNCHANGED <<post, boxes, pushes, posted, saved, live, sent, denied>>
  BY DEF Open
<1>3. PostGoes /\ post' \in MailConf
  BY <1>2, RunIdle DEF SoundNow, Sound, MailTypes
<1>4. ASSUME NEW o \in mail PROVE LetterOf(runs[s].at, o, posted', Mine')
  <2>1. PICK m \in OpenedMail(s) : o = Rebuilt(saved[runs[s].at].log, m)
    BY <1>1
  <2>2. /\ m \in runs[s].mail /\ o \in Letters /\ o.id = m.id /\ o.kind = m.kind /\ o.base = m.base
        /\ (runs[s].at = Keeper => o = m) /\ Len(m.log) <= Len(o.log)
    BY <2>1, OpenedAs DEF SoundNow
  <2>3. LetterOf(runs[s].at, m, posted', Mine') /\ m \in Letters
    BY <2>2, <1>3, RunLetters, LetterStays DEF SoundNow, Sound
  <2>4. Len(m.log) \in Nat /\ Len(o.log) \in Nat /\ o.base \in Int
    BY <2>2, <2>3, LetterTypes, LogFacts
  <2>5. o.base \in -1 .. Len(o.log)
    BY <2>2, <2>3, <2>4 DEF LetterOf
  <2> QED BY <2>2, <2>3, <2>5 DEF LetterOf
<1>5. runs[s].at = Keeper => IsFiniteSet(mail)
  <2>1. ASSUME runs[s].at = Keeper PROVE mail \in SUBSET runs[s].mail
    <3>1. ASSUME NEW o \in mail PROVE o \in runs[s].mail
      <4>1. PICK m \in OpenedMail(s) : o = Rebuilt(saved[runs[s].at].log, m)
        BY <1>1
      <4>2. m \in runs[s].mail /\ o = m
        BY <2>1, <4>1, OpenedAs DEF SoundNow
      <4> QED BY <4>2
    <3> QED BY <3>1
  <2> QED BY <2>1, FS_Subset DEF SoundNow, MailFinite
<1>6. RunOK(runs[s].at, pc, mail, saved[runs[s].at], done)
  <2>1. done \subseteq 1 .. posted'
    BY <1>1, <1>2 DEF SoundNow, Sound, MailShapes
  <2>2. runs[s].at = Keeper => ~saved[runs[s].at].push
    BY DEF SoundNow, Sound, MailShapes
  <2> QED BY <1>1, <1>4, <1>5, <2>1, <2>2 DEF RunOK, OnKeeper
<1>7. RunsOK'
  BY <1>1, <1>3, <1>6, RunsStay DEF SoundNow
<1>8. PostOK' /\ RestOK'
  <2>1. \A i \in handled' : i \in handled
    BY <1>1
  <2> QED BY <1>2, <1>3, <2>1, PostSame, RestSame
<1> QED BY <1>7, <1>8 DEF AllOK

(* A run that keeps its letters, or some of them.                           *)
LEMMA SameLetters ==
    ASSUME SoundNow, PostGoes, NEW s \in RunIds, NEW mail, mail \subseteq runs[s].mail
    PROVE  /\ \A m \in mail : LetterOf(runs[s].at, m, posted', Mine')
           /\ runs[s].at = Keeper => IsFiniteSet(mail)
           /\ runs[s].done \subseteq 1 .. posted' /\ Ids(mail) \subseteq 1 .. posted'
           /\ \A m \in mail : m.id \in 1 .. posted'
<1>1. \A m \in mail : LetterOf(runs[s].at, m, posted', Mine')
  BY RunLetters, LetterStays DEF SoundNow, Sound
<1>2. runs[s].done \subseteq 1 .. posted /\ 1 .. posted \subseteq 1 .. posted'
  BY DEF SoundNow, Sound, MailShapes, MailTypes, RunShape, PostGoes
<1>3. runs[s].at = Keeper => IsFiniteSet(mail)
  <2>1. mail \in SUBSET runs[s].mail
    OBVIOUS
  <2> QED BY <2>1, FS_Subset DEF SoundNow, MailFinite
<1>4. \A m \in mail : m.id \in 1 .. posted'
  BY <1>1 DEF LetterOf
<1> QED BY <1>1, <1>2, <1>3, <1>4 DEF Ids

LEMMA StoreViewSound ==
    ASSUME SoundNow, NEW s \in RunIds, StoreView(s)
    PROVE  AllOK'
<1>1. PICK m \in runs[s].mail :
             /\ m \in Letters /\ runs[s].at # Keeper
             /\ Becomes(s, runs[s].at, runs[s].page, "ack", runs[s].mail, runs[s].known,
                        runs[s].snap, runs[s].done \cup {m.id})
             /\ saved' \in [Mailed -> Copies]
             /\ \A d \in Mailed : d # runs[s].at => saved'[d] = saved[d]
  BY StoreViewFacts DEF SoundNow
<1>2. UNCHANGED <<post, boxes, pushes, posted, handled, live, sent, denied>>
  BY DEF StoreView
<1>3. PostGoes /\ post' \in MailConf
  BY <1>2, RunIdle DEF SoundNow, Sound, MailTypes
<1>4. RunOK(runs[s].at, "ack", runs[s].mail, runs[s].snap, runs[s].done \cup {m.id})
  BY <1>1, <1>3, SameLetters DEF RunOK, OnKeeper
<1>5. RunsOK'
  BY <1>1, <1>3, <1>4, RunsStay DEF SoundNow
<1>6. PostOK'
  BY <1>2, <1>3, PostSame
<1>7. RestOK'
  <2>1. ~saved'[Keeper].push
    BY <1>1, Keepers DEF SoundNow, Sound, MailShapes
  <2>2. live' \in [on : BOOLEAN, mails : BOOLEAN, log : MailLogs, mailed : [Guests -> Int]]
        /\ \A g \in Guests : sent'[g] <= post'.moves
    BY <1>2 DEF SoundNow, Sound, MailTypes, MailShapes
  <2> QED BY <1>1, <1>2, <1>3, <2>1, <2>2, RestStays
<1> QED BY <1>5, <1>6, <1>7 DEF AllOK

LEMMA MovesSound ==
    ASSUME SoundNow, NEW s \in RunIds, Moves(s)
    PROVE  AllOK'
<1>1. PICK pc \in {"ack", "deliver", "apply"}, known \in {runs[s].known, saved[Keeper].log} :
             /\ Becomes(s, Keeper, runs[s].page, pc, runs[s].mail, known, saved[Keeper],
                        runs[s].done)
             /\ pc = "deliver" => runs[s].mail # {}
             /\ runs[s].at = Keeper
  BY MovesFacts DEF SoundNow
<1>2. UNCHANGED <<post, boxes, pushes, posted, saved, handled, live, sent, denied>>
  BY DEF Moves
<1>3. PostGoes /\ post' \in MailConf
  BY <1>2, RunIdle DEF SoundNow, Sound, MailTypes
<1>4. RunOK(Keeper, pc, runs[s].mail, saved[Keeper], runs[s].done)
  <2>1. ~saved[Keeper].push
    BY DEF SoundNow, Sound, MailShapes
  <2>2. /\ \A m \in runs[s].mail : LetterOf(Keeper, m, posted', Mine')
        /\ IsFiniteSet(runs[s].mail) /\ runs[s].done \subseteq 1 .. posted'
    BY <1>1, <1>3, SameLetters
  <2> QED BY <1>1, <2>1, <2>2 DEF RunOK
<1>5. RunsOK'
  BY <1>1, <1>3, <1>4, RunsStay DEF SoundNow
<1>6. PostOK' /\ RestOK'
  BY <1>2, <1>3, PostSame, RestSame
<1> QED BY <1>5, <1>6 DEF AllOK

LEMMA DeliverSound ==
    ASSUME SoundNow, NEW s \in RunIds, Deliver(s)
    PROVE  AllOK'
<1>1. PICK m \in runs[s].mail :
             /\ runs[s].pc = "deliver" /\ runs[s].at = Keeper /\ m \in Letters
             /\ Accepted(s, m) \/ SentBack(s, m) \/ Dropped(s, m)
  BY DeliverFacts DEF SoundNow
<1>2. LetterTo(Keeper, m) /\ m.move \in Turns /\ m.move \in Mine /\ m.from \in Guests
  BY <1>1, RunLetters, MoveLetters DEF SoundNow, Sound
<1>3. ASSUME PostGoes, Delivered(s, m) PROVE RunsOK'
  <2>1. PICK pc \in {"deliver", "mark", "ack"} :
          /\ Becomes(s, Keeper, runs[s].page, pc, runs[s].mail \ {m}, runs[s].known,
                     runs[s].snap, runs[s].done \cup {m.id})
          /\ pc = "deliver" => runs[s].mail \ {m} # {}
    BY <1>3 DEF Delivered
  <2>2. /\ \A o \in runs[s].mail \ {m} : LetterOf(Keeper, o, posted', Mine')
        /\ IsFiniteSet(runs[s].mail \ {m}) /\ runs[s].done \subseteq 1 .. posted'
    <3> DEFINE rest == runs[s].mail \ {m}
    <3>1. rest \subseteq runs[s].mail
      OBVIOUS
    <3> HIDE DEF rest
    <3>2. /\ \A o \in rest : LetterOf(Keeper, o, posted', Mine')
          /\ IsFiniteSet(rest) /\ runs[s].done \subseteq 1 .. posted'
      BY <1>1, <1>3, <3>1, SameLetters
    <3> QED BY <3>2 DEF rest
  <2>3. m.id \in 1 .. posted'
    BY <1>1, <1>3, SameLetters
  <2>4. ~runs[s].snap.push
    BY <1>1 DEF SoundNow, Sound, MailShapes, RunShape
  <2>5. RunOK(Keeper, pc, runs[s].mail \ {m}, runs[s].snap, runs[s].done \cup {m.id})
    BY <2>1, <2>2, <2>3, <2>4 DEF RunOK
  <2> QED BY <1>3, <2>1, <2>5, RunsStay DEF SoundNow
<1>4. CASE Accepted(s, m)
  <2>1. /\ Delivered(s, m)
        /\ live' = [live EXCEPT !.log = Append(live.log, m.move)]
        /\ saved' = [saved EXCEPT ![Keeper].log = Append(live.log, m.move)]
    BY <1>4 DEF Accepted
  <2>2. UNCHANGED <<post, boxes, pushes, posted, denied, handled, sent>>
    BY <1>4 DEF Accepted
  <2>3. PostGoes /\ post' \in MailConf
    BY <2>2, RunIdle DEF SoundNow, Sound, MailTypes
  <2>4. Append(live.log, m.move) \in MailLogs
    BY <1>2, OneMore DEF SoundNow, Sound, MailTypes
  <2>5. live' \in [on : BOOLEAN, mails : BOOLEAN, log : MailLogs, mailed : [Guests -> Int]]
    BY <2>1, <2>4 DEF SoundNow, Sound, MailTypes
  <2>6. saved' \in [Mailed -> Copies] /\ ~saved'[Keeper].push
    <3>1. saved \in [Mailed -> Copies] /\ ~saved[Keeper].push
      BY DEF SoundNow, Sound, MailTypes, MailShapes
    <3> QED BY <2>1, <2>4, <3>1, Keepers DEF Copies
  <2>7. \A g \in Guests : sent'[g] <= post'.moves
    BY <2>2 DEF SoundNow, Sound, MailShapes
  <2>8. RunsOK' /\ PostOK'
    BY <1>3, <2>1, <2>2, <2>3, PostSame
  <2> QED BY <2>2, <2>3, <2>5, <2>6, <2>7, <2>8, RestStays DEF AllOK
<1>5. CASE SentBack(s, m)
  <2>1. /\ Delivered(s, m) /\ denied' = denied \cup {m.move}
    BY <1>5 DEF SentBack
  <2>2. UNCHANGED <<post, saved, live, handled, sent>>
    BY <1>5 DEF SentBack
  <2>3. PostGoes /\ PostOK'
    <3>1. PICK v \in Letters : v.id = posted + 1 /\ v.kind = "view" /\ v.log = runs[s].known
                          /\ v.base = -1 /\ SentTo(m.from, v)
      BY <1>5 DEF SentBack
    <3> QED BY <1>2, <2>2, <3>1, PostViewed
  <2>4. post' \in MailConf
    BY <2>2 DEF SoundNow, Sound, MailTypes
  <2>5. RestOK'
    BY <1>2, <2>1, <2>2, <2>3, <2>4, RestSame
  <2> QED BY <1>3, <2>1, <2>3, <2>5 DEF AllOK
<1>6. CASE Dropped(s, m)
  <2>1. Fail(s) /\ denied' = denied \cup {m.move}
    BY <1>6 DEF Dropped
  <2>2. UNCHANGED <<saved, live, handled, sent>>
    BY <1>6 DEF Dropped
  <2>3. Ended(s) /\ post' \in MailConf /\ UNCHANGED <<boxes, pushes, posted>>
        /\ post'.moves = post.moves /\ post'.overlap = post.overlap
    BY <2>1, FailFacts DEF SoundNow, Sound
  <2>4. PostGoes
    BY <2>2, <2>3, RunIdle
  <2>5. RunsOK' /\ PostOK'
    BY <2>3, <2>4, RunEnds, PostSame DEF SoundNow
  <2>6. RestOK'
    BY <1>2, <2>1, <2>2, <2>3, <2>4, RestSame
  <2> QED BY <2>5, <2>6 DEF AllOK
<1> QED BY <1>1, <1>4, <1>5, <1>6

LEMMA ApplySound ==
    ASSUME SoundNow, NEW s \in RunIds, Apply(s)
    PROVE  AllOK'
<1>1. PICK no \in SUBSET runs[s].mail, more \in MailLogs :
             /\ Becomes(s, Keeper, runs[s].page, "put", runs[s].mail, runs[s].known,
                        [log |-> runs[s].snap.log \o more, push |-> runs[s].snap.push],
                        runs[s].done)
             /\ denied' = denied \cup {m.move : m \in no}
             /\ handled' \subseteq handled \cup Ids(runs[s].mail)
             /\ runs[s].at = Keeper
  BY ApplyFacts DEF SoundNow
<1>2. UNCHANGED <<post, boxes, pushes, posted, saved, live, sent>>
  BY DEF Apply
<1>3. PostGoes /\ post' \in MailConf
  BY <1>2, RunIdle DEF SoundNow, Sound, MailTypes
<1>4. /\ \A m \in runs[s].mail : LetterOf(Keeper, m, posted', Mine') /\ m.id \in 1 .. posted'
      /\ IsFiniteSet(runs[s].mail) /\ runs[s].done \subseteq 1 .. posted'
      /\ Ids(runs[s].mail) \subseteq 1 .. posted'
  BY <1>1, <1>3, SameLetters
<1> DEFINE copy == [log |-> runs[s].snap.log \o more, push |-> runs[s].snap.push]
<1>5. ~copy.push
  BY <1>1 DEF SoundNow, Sound, MailShapes, RunShape
<1>6. Becomes(s, Keeper, runs[s].page, "put", runs[s].mail, runs[s].known, copy, runs[s].done)
  BY <1>1
<1> HIDE DEF copy
<1>7. RunOK(Keeper, "put", runs[s].mail, copy, runs[s].done)
  BY <1>4, <1>5 DEF RunOK
<1>8. RunsOK'
  BY <1>3, <1>6, <1>7, RunsStay DEF SoundNow
<1>9. RestOK'
  <2>1. \A m \in no : m.move \in Mine /\ m.move \in Turns
    BY <1>1, RunLetters, MoveLetters DEF SoundNow, Sound
  <2>2. \A x \in denied' : x \in denied \/ (x \in Mine /\ x \in Turns)
    BY <1>1, <2>1
  <2>3. \A i \in handled' : i \in handled \/ i \in 1 .. posted
    BY <1>1, <1>2, <1>4
  <2> QED BY <1>2, <1>3, <2>2, <2>3, RestSame
<1> QED BY <1>2, <1>3, <1>8, <1>9, PostSame DEF AllOK

LEMMA MarkSound ==
    ASSUME SoundNow, NEW s \in RunIds, Mark(s)
    PROVE  AllOK'
<1>1. /\ Becomes(s, Keeper, runs[s].page, "ack", runs[s].mail, runs[s].known,
                 runs[s].snap, runs[s].done)
      /\ handled' = handled \cup runs[s].done /\ runs[s].at = Keeper
  BY MarkFacts DEF SoundNow
<1>2. UNCHANGED <<post, boxes, pushes, posted, saved, live, sent, denied>>
  BY DEF Mark
<1>3. PostGoes /\ post' \in MailConf
  BY <1>2, RunIdle DEF SoundNow, Sound, MailTypes
<1>4. RunOK(Keeper, "ack", runs[s].mail, runs[s].snap, runs[s].done)
  <2>1. ~runs[s].snap.push
    BY <1>1 DEF SoundNow, Sound, MailShapes, RunShape
  <2> QED BY <1>1, <1>3, <2>1, SameLetters DEF RunOK
<1>5. RunsOK'
  BY <1>1, <1>3, <1>4, RunsStay DEF SoundNow
<1>6. RestOK'
  <2>1. \A i \in handled' : i \in handled \/ i \in 1 .. posted
    BY <1>1 DEF SoundNow, Sound, MailShapes, RunShape
  <2> QED BY <1>2, <1>3, <2>1, RestSame
<1> QED BY <1>2, <1>3, <1>5, <1>6, PostSame DEF AllOK

LEMMA PutCopySound ==
    ASSUME SoundNow, NEW s \in RunIds, PutCopy(s)
    PROVE  AllOK'
<1>1. /\ Becomes(s, Keeper, runs[s].page, "mail", runs[s].mail, runs[s].known,
                 runs[s].snap, runs[s].done)
      /\ saved' = [saved EXCEPT ![Keeper] = runs[s].snap] /\ runs[s].at = Keeper
  BY PutCopyFacts DEF SoundNow
<1>2. UNCHANGED <<post, boxes, pushes, posted, handled, live, sent, denied>>
  BY DEF PutCopy
<1>3. PostGoes /\ post' \in MailConf
  BY <1>2, RunIdle DEF SoundNow, Sound, MailTypes
<1>4. ~runs[s].snap.push /\ runs[s].snap \in Copies
  BY <1>1, RunTypes DEF SoundNow, Sound, MailShapes, RunShape
<1>5. RunOK(Keeper, "mail", runs[s].mail, runs[s].snap, runs[s].done)
  BY <1>1, <1>3, <1>4, SameLetters DEF RunOK
<1>6. RunsOK'
  BY <1>1, <1>3, <1>5, RunsStay DEF SoundNow
<1>7. saved' \in [Mailed -> Copies] /\ ~saved'[Keeper].push
  BY <1>1, <1>4, Keepers DEF SoundNow, Sound, MailTypes
<1>8. live' \in [on : BOOLEAN, mails : BOOLEAN, log : MailLogs, mailed : [Guests -> Int]]
        /\ \A g \in Guests : sent'[g] <= post'.moves
  BY <1>2 DEF SoundNow, Sound, MailTypes, MailShapes
<1>9. RestOK'
  BY <1>2, <1>3, <1>7, <1>8, RestStays
<1> QED BY <1>2, <1>3, <1>6, <1>9, PostSame DEF AllOK

LEMMA FailSound ==
    ASSUME SoundNow, NEW s \in RunIds, Fail(s), UNCHANGED <<saved, handled, live, sent, denied>>
    PROVE  AllOK'
<1>1. Ended(s) /\ post' \in MailConf /\ UNCHANGED <<boxes, pushes, posted>>
        /\ post'.moves = post.moves /\ post'.overlap = post.overlap
  BY FailFacts DEF SoundNow, Sound
<1>2. PostGoes
  BY <1>1, RunIdle
<1>3. RunsOK' /\ PostOK'
  BY <1>1, <1>2, RunEnds, PostSame DEF SoundNow
<1>4. RestOK'
  BY <1>1, <1>2, RestSame
<1> QED BY <1>3, <1>4 DEF AllOK

LEMMA MailViewsSound ==
    ASSUME SoundNow, NEW s \in RunIds, MailViews(s)
    PROVE  AllOK'
<1>1. runs[s].at = Keeper /\ ((\E g \in Guests : MailedTo(s, g)) \/ Fail(s))
  BY MailViewsFacts DEF SoundNow
<1>2. UNCHANGED <<saved, handled, live, sent, denied>>
  BY DEF MailViews
<1>3. ASSUME NEW g \in Guests, MailedTo(s, g) PROVE AllOK'
  <2>1. PICK v \in Letters : v.id = posted + 1 /\ v.kind = "view" /\ v.log = runs[s].snap.log
                          /\ v.base = -1 /\ SentTo(g, v)
    BY <1>3 DEF MailedTo
  <2>2. post' = post
    BY <1>3 DEF MailedTo
  <2>3. PostGoes /\ PostOK'
    BY <1>2, <2>1, <2>2, PostViewed
  <2>4. PICK pc \in {"mail", "ack"} :
          Becomes(s, Keeper, runs[s].page, pc, runs[s].mail, runs[s].known, runs[s].snap,
                  runs[s].done \cup Ids(runs[s].mail))
    BY <1>3 DEF MailedTo
  <2>5. ~runs[s].snap.push
    BY <1>1 DEF SoundNow, Sound, MailShapes, RunShape
  <2>6. RunOK(Keeper, pc, runs[s].mail, runs[s].snap, runs[s].done \cup Ids(runs[s].mail))
    BY <1>1, <2>3, <2>4, <2>5, SameLetters DEF RunOK
  <2>7. RunsOK'
    BY <2>3, <2>4, <2>6, RunsStay DEF SoundNow
  <2>8. post' \in MailConf
    BY <2>2 DEF SoundNow, Sound, MailTypes
  <2> QED BY <1>2, <2>3, <2>7, <2>8, RestSame DEF AllOK
<1> QED BY <1>1, <1>2, <1>3, FailSound

LEMMA AckSound ==
    ASSUME SoundNow, NEW s \in RunIds, Ack(s)
    PROVE  AllOK'
<1>1. UNCHANGED <<saved, handled, live, sent, denied>>
  BY DEF Ack
<1>2. ASSUME UNCHANGED <<post, pushes, posted>> PROVE PostGoes /\ RestOK'
  <2>1. PostGoes /\ post' \in MailConf
    BY <1>1, <1>2, RunIdle DEF SoundNow, Sound, MailTypes
  <2> QED BY <1>1, <2>1, RestSame
<1>3. CASE /\ Ended(s) /\ UNCHANGED <<post, pushes, posted>>
           /\ boxes' \in [Mailed -> SUBSET Letters]
           /\ \A d \in Mailed : d # runs[s].at => boxes'[d] = boxes[d]
           /\ boxes'[runs[s].at] = {m \in boxes[runs[s].at] : m.id \notin runs[s].done}
  <2>1. PostGoes /\ RestOK'
    BY <1>2, <1>3
  <2>2. \A d \in Mailed : boxes'[d] \subseteq boxes[d]
    BY <1>3
  <2>3. pushes' \subseteq [to : Mailed, taken : BOOLEAN, m : Letters] /\ \A p \in pushes' : p \in pushes
    BY <1>3 DEF SoundNow, Sound, MailTypes
  <2>4. PostOK'
    BY <1>3, <2>1, <2>2, <2>3, PostStays DEF SoundNow
  <2>5. RunsOK'
    BY <1>3, <2>1, RunEnds DEF SoundNow
  <2> QED BY <2>1, <2>4, <2>5 DEF AllOK
<1>4. CASE /\ Becomes(s, runs[s].at, runs[s].page, "open", boxes[runs[s].at], << >>, Empty, {})
           /\ UNCHANGED <<post, boxes, pushes, posted>>
  <2>1. PostGoes /\ RestOK'
    BY <1>2, <1>4
  <2>2. runs[s].at \in Mailed
    BY RunTypes DEF SoundNow, Sound
  <2>3. \A m \in boxes[runs[s].at] : LetterOf(runs[s].at, m, posted', Mine')
    BY <2>1, <2>2, LetterStays DEF SoundNow, Sound, MailShapes, BoxShape
  <2>4. RunOK(runs[s].at, "open", boxes[runs[s].at], Empty, {})
    BY <2>2, <2>3 DEF RunOK, OnKeeper, Empty, SoundNow, MailFinite
  <2>5. RunsOK'
    BY <1>4, <2>1, <2>4, RunsStay DEF SoundNow
  <2> QED BY <1>4, <2>1, <2>5, PostSame DEF AllOK
<1>5. CASE Ended(s) /\ UNCHANGED <<post, boxes, pushes, posted>>
  <2>1. PostGoes /\ RestOK'
    BY <1>2, <1>5
  <2> QED BY <1>5, <2>1, RunEnds, PostSame DEF AllOK, SoundNow
<1>6. CASE Fail(s)
  BY <1>1, <1>6, FailSound
<1> QED BY <1>3, <1>4, <1>5, <1>6, AckFacts DEF SoundNow

LEMMA DieSound ==
    ASSUME SoundNow, NEW s \in RunIds, Die(s)
    PROVE  AllOK'
<1>1. Ended(s) /\ post' \in MailConf /\ post'.moves = post.moves /\ post'.overlap = post.overlap
  BY DieFacts DEF SoundNow, Sound
<1>2. UNCHANGED <<boxes, pushes, posted, saved, handled, live, sent, denied>>
  BY DEF Die
<1>3. PostGoes
  BY <1>1, <1>2, RunIdle
<1> QED BY <1>1, <1>2, <1>3, RunEnds, PostSame, RestSame DEF AllOK, SoundNow

LEMMA TableSound ==
    ASSUME SoundNow, OpenTable \/ CloseTable \/ OwnMove
    PROVE  AllOK'
<1>1. /\ post' \in MailConf /\ post'.moves = post.moves /\ post'.overlap = post.overlap
      /\ UNCHANGED <<boxes, pushes, posted, handled, runs, sent, denied>>
      /\ live' \in [on : BOOLEAN, mails : BOOLEAN, log : MailLogs, mailed : [Guests -> Int]]
      /\ saved' \in [Mailed -> Copies] /\ saved'[Keeper].push = saved[Keeper].push
  BY TableFacts DEF SoundNow, Sound
<1>2. PostGoes
  BY <1>1, RunIdle
<1>3. ~saved'[Keeper].push
  BY <1>1 DEF SoundNow, Sound, MailShapes
<1>4. \A g \in Guests : sent'[g] <= post'.moves
  BY <1>1 DEF SoundNow, Sound, MailShapes
<1>5. RunsOK' /\ PostOK'
  BY <1>1, <1>2, RunsSame, PostSame DEF SoundNow
<1>6. RestOK'
  BY <1>1, <1>2, <1>3, <1>4, RestStays
<1> QED BY <1>5, <1>6 DEF AllOK

LEMMA SoundStep ==
    ASSUME SoundNow, [MailNext]_mailVars
    PROVE  SoundNow'
<1>1. CASE MailNext
  <2>1. AllOK'
    BY <1>1, GuestMoveSound, MailAbsentSound, CheckSound, OnPushSound, OpenSound, StoreViewSound,
       MovesSound, DeliverSound, ApplySound, MarkSound, PutCopySound, MailViewsSound, AckSound,
       DieSound, TableSound DEF MailNext
  <2> QED BY <2>1, SoundParts, PTL DEF AllOK, SoundNow
<1>2. CASE UNCHANGED mailVars
  <2>1. UNCHANGED <<post, boxes, pushes, posted, saved, handled, runs, live, sent, denied>>
    BY <1>2 DEF mailVars
  <2>2. PostGoes /\ post' \in MailConf
    BY <2>1, RunIdle DEF SoundNow, Sound, MailTypes
  <2>3. AllOK'
    BY <2>1, <2>2, RunsSame, PostSame, RestSame DEF AllOK, SoundNow
  <2> QED BY <2>3, SoundParts, PTL DEF AllOK, SoundNow
<1> QED BY <1>1, <1>2

LEMMA SoundInit == MailInit => SoundNow
<1> SUFFICES ASSUME MailInit PROVE SoundNow
  OBVIOUS
<1>1. post \in MailConf
  BY MailAssumption DEF MailInit
<1>2. RunsOK
  <2>1. \A s \in RunIds : runs[s] = NoRun
    BY DEF MailInit
  <2>2. NoRun.pc = "off" /\ ~NoRun.snap.push /\ NoRun.done = {} /\ NoRun.mail = {}
    BY DEF NoRun
  <2>3. runs \in [RunIds -> MailRuns]
    BY NoRunTyped DEF MailInit
  <2> QED BY <2>1, <2>2, <2>3, FS_EmptySet DEF RunsOK, RunShape, OnKeeper
<1>3. PostOK
  BY FS_EmptySet DEF MailInit, PostOK, BoxShape
<1>4. RestOK
  <2>1. saved \in [Mailed -> Copies] /\ ~saved[Keeper].push
    BY NoMoves, Keepers DEF MailInit, Copies
  <2>2. live \in [on : BOOLEAN, mails : BOOLEAN, log : MailLogs, mailed : [Guests -> Int]]
    BY NoMoves DEF MailInit
  <2>3. posted \in Nat /\ sent \in [Guests -> Nat] /\ denied = {} /\ handled = {}
        /\ \A g \in Guests : sent[g] = 0
    BY DEF MailInit
  <2>4. post.moves \in Nat
    BY <1>1 DEF MailConf
  <2> QED BY <1>1, <2>1, <2>2, <2>3, <2>4 DEF RestOK
<1> QED BY <1>2, <1>3, <1>4, SoundParts DEF SoundNow

-----------------------------------------------------------------------------
(* One run at a time on the host's device. *)

HostRun(s) == runs[s].at = Keeper /\ runs[s].pc # "off"
Acting == {"apply", "put", "mail"}
Alone ==
    /\ \A s, t \in RunIds : HostRun(s) /\ HostRun(t) => s = t
    /\ \A s \in RunIds : HostRun(s) /\ live.on => runs[s].page /\ runs[s].pc \notin Acting
    /\ live.on => live.log = saved[Keeper].log
    /\ \A s \in RunIds :
          /\ runs[s].pc \in {"apply", "mail"} => runs[s].snap = saved[Keeper]
          /\ runs[s].pc = "put" => Before(saved[Keeper].log, runs[s].snap.log)

(* Every copy there is leads to the copy the host's device saved.           *)
BoxesBefore(all) ==
    /\ \A d \in Mailed : \A m \in boxes[d] : Before(m.log, all)
    /\ \A p \in pushes : Before(p.m.log, all)
RunsBefore(all) ==
    \A s \in RunIds : Before(runs[s].known, all) /\ \A m \in runs[s].mail : Before(m.log, all)
CopiesBefore(all) == (\A g \in Guests : Before(saved[g].log, all)) /\ Before(live.log, all)
Leads == LET all == saved[Keeper].log
         IN  BoxesBefore(all) /\ RunsBefore(all) /\ CopiesBefore(all)

Single == Keeper \notin post.overlap
Orderly == SoundNow /\ Single /\ Alone /\ Leads

(* The saved copy only goes on; where it does, what led to it still does.   *)
LEMMA LeadsOn ==
    ASSUME Orderly, NEW all \in MailLogs, Before(saved[Keeper].log, all)
    PROVE  BoxesBefore(all) /\ RunsBefore(all) /\ CopiesBefore(all)
<1> DEFINE old == saved[Keeper].log
<1>1. old \in MailLogs /\ Before(old, all)
  BY Keepers DEF Orderly, SoundNow, Sound, MailTypes, Copies
<1>2. BoxesBefore(old) /\ RunsBefore(old) /\ CopiesBefore(old)
  BY DEF Orderly, Leads
<1> HIDE DEF old
<1>3. ASSUME NEW log \in MailLogs, Before(log, old) PROVE Before(log, all)
  BY <1>1, <1>3, BeforeOn
<1>4. /\ \A d \in Mailed : \A m \in boxes[d] : m.log \in MailLogs
      /\ \A p \in pushes : p.m.log \in MailLogs
      /\ \A s \in RunIds : runs[s].known \in MailLogs /\ \A m \in runs[s].mail : m.log \in MailLogs
      /\ \A g \in Guests : saved[g].log \in MailLogs
      /\ live.log \in MailLogs
  <2>1. MailTypes
    BY DEF Orderly, SoundNow, Sound
  <2>2. \A s \in RunIds : runs[s].known \in MailLogs /\ runs[s].mail \subseteq Letters
    BY <2>1, RunTypes
  <2>3. /\ \A d \in Mailed : boxes[d] \subseteq Letters
        /\ \A p \in pushes : p.m \in Letters
        /\ \A g \in Guests : saved[g].log \in MailLogs
        /\ live.log \in MailLogs
    BY <2>1, Keepers DEF MailTypes, Copies
  <2> QED BY <2>2, <2>3, LetterTypes
<1>5. BoxesBefore(all)
  BY <1>2, <1>3, <1>4 DEF BoxesBefore
<1>6. RunsBefore(all)
  BY <1>2, <1>3, <1>4 DEF RunsBefore
<1>7. CopiesBefore(all)
  BY <1>2, <1>3, <1>4 DEF CopiesBefore
<1> QED BY <1>5, <1>6, <1>7

LEMMA LeadsNow ==
    ASSUME Orderly
    PROVE  /\ saved[Keeper].log \in MailLogs /\ saved[Keeper] \in Copies
           /\ BoxesBefore(saved[Keeper].log) /\ RunsBefore(saved[Keeper].log)
           /\ CopiesBefore(saved[Keeper].log)
           /\ Before(saved[Keeper].log, saved[Keeper].log)
<1>1. saved[Keeper].log \in MailLogs /\ saved[Keeper] \in Copies
  BY Keepers DEF Orderly, SoundNow, Sound, MailTypes, Copies
<1> QED BY <1>1, BeforeSelf DEF Orderly, Leads

(* A run that goes on.                                                      *)
LEMMA RunLeads ==
    ASSUME NEW s \in RunIds, NEW all, NEW at, NEW page, NEW pc, NEW mail, NEW known, NEW snap,
           NEW done, Becomes(s, at, page, pc, mail, known, snap, done), RunsBefore(all),
           Before(known, all), \A m \in mail : Before(m.log, all)
    PROVE  \A t \in RunIds : Before(runs'[t].known, all)
                             /\ \A m \in runs'[t].mail : Before(m.log, all)
BY DEF Becomes, RunsBefore

LEMMA SentLeads ==
    ASSUME NEW all, NEW to \in Mailed, NEW m, SentTo(to, m), BoxesBefore(all), Before(m.log, all)
    PROVE  /\ \A d \in Mailed : \A o \in boxes'[d] : Before(o.log, all)
           /\ \A p \in pushes' : Before(p.m.log, all)
<1>1. ASSUME NEW d \in Mailed, NEW o \in boxes'[d] PROVE Before(o.log, all)
  <2>1. o \in boxes[d] \/ o = m
    BY DEF SentTo
  <2> QED BY <2>1 DEF BoxesBefore
<1>2. ASSUME NEW p \in pushes' PROVE Before(p.m.log, all)
  <2>1. p \in pushes \/ p.m.log = m.log
    BY DEF SentTo, Copied
  <2> QED BY <2>1 DEF BoxesBefore
<1> QED BY <1>1, <1>2

(* One run changes, and neither the copy of the host nor its table does.    *)
LEMMA AloneRun ==
    ASSUME Orderly, NEW s \in RunIds, NEW at, NEW page, NEW pc, NEW mail, NEW known, NEW snap,
           NEW done, Becomes(s, at, page, pc, mail, known, snap, done),
           saved'[Keeper] = saved[Keeper], live'.on = live.on, live'.log = live.log,
           at = Keeper /\ pc # "off" => HostRun(s) \/ RunsAt(Keeper) = {},
           at = Keeper /\ pc # "off" /\ live.on => page /\ pc \notin Acting,
           pc \in {"apply", "mail"} => snap = saved[Keeper],
           pc = "put" => Before(saved[Keeper].log, snap.log)
    PROVE  Alone'
<1>1. /\ \A t \in RunIds : t # s => runs'[t] = runs[t]
      /\ runs'[s].at = at /\ runs'[s].page = page /\ runs'[s].pc = pc /\ runs'[s].snap = snap
  BY DEF Becomes
<1>2. Alone
  BY DEF Orderly
<1>3. \A t, u \in RunIds : HostRun(t)' /\ HostRun(u)' => t = u
  <2>1. \A t \in RunIds : t # s /\ HostRun(t)' => HostRun(t) /\ t \in RunsAt(Keeper)
    BY <1>1 DEF HostRun, RunsAt
  <2>2. HostRun(s)' => HostRun(s) \/ RunsAt(Keeper) = {}
    BY <1>1 DEF HostRun
  <2>3. \A t, u \in RunIds : HostRun(t) /\ HostRun(u) => t = u
    BY <1>2 DEF Alone
  <2> QED BY <2>1, <2>2, <2>3
<1>4. \A t \in RunIds : HostRun(t)' /\ live'.on => runs'[t].page /\ runs'[t].pc \notin Acting
  BY <1>1, <1>2 DEF Alone, HostRun
<1>5. live'.on => live'.log = saved'[Keeper].log
  BY <1>2 DEF Alone
<1>6. \A t \in RunIds :
          /\ runs'[t].pc \in {"apply", "mail"} => runs'[t].snap = saved'[Keeper]
          /\ runs'[t].pc = "put" => Before(saved'[Keeper].log, runs'[t].snap.log)
  BY <1>1, <1>2 DEF Alone
<1> QED BY <1>3, <1>4, <1>5, <1>6 DEF Alone

LEMMA AloneEnds ==
    ASSUME Orderly, NEW s \in RunIds, Ended(s), saved'[Keeper] = saved[Keeper],
           live'.on = live.on, live'.log = live.log
    PROVE  Alone'
BY AloneRun DEF Ended

(* No run changes.                                                          *)
LEMMA AloneSame ==
    ASSUME Orderly, UNCHANGED runs, saved'[Keeper] = saved[Keeper], live'.on = live.on,
           live'.log = live.log
    PROVE  Alone'
<1>1. Alone
  BY DEF Orderly
<1>2. \A s \in RunIds : HostRun(s)' <=> HostRun(s)
  BY DEF HostRun
<1> QED BY <1>1, <1>2 DEF Alone

(* The saved copy as it was: it suffices to look at what is new.            *)
LEMMA LeadsParts ==
    ASSUME NEW all, all = saved'[Keeper].log,
           \A d \in Mailed : \A m \in boxes'[d] : Before(m.log, all),
           \A p \in pushes' : Before(p.m.log, all),
           \A s \in RunIds : Before(runs'[s].known, all) /\ \A m \in runs'[s].mail : Before(m.log, all),
           \A g \in Guests : Before(saved'[g].log, all), Before(live'.log, all)
    PROVE  Leads'
BY DEF Leads, BoxesBefore, RunsBefore, CopiesBefore

OrderlyNext == Alone' /\ Leads' /\ Before(saved[Keeper].log, saved'[Keeper].log)

LEMMA RunAt ==
    ASSUME Orderly, NEW s \in RunIds
    PROVE  /\ Before(runs[s].known, saved[Keeper].log) /\ runs[s].at \in Mailed
           /\ \A m \in runs[s].mail : Before(m.log, saved[Keeper].log)
           /\ runs[s].at \in Guests \/ runs[s].at = Keeper
           /\ \A d \in Mailed : Before(saved[d].log, saved[Keeper].log)
BY LeadsNow, RunTypes, Keepers DEF RunsBefore, CopiesBefore, Orderly, SoundNow, Sound

(* One run changes, and nothing that is saved or sent.                      *)
LEMMA QuietRun ==
    ASSUME Orderly, NEW s \in RunIds, NEW at, NEW page, NEW pc, NEW mail, NEW known, NEW snap,
           NEW done, Becomes(s, at, page, pc, mail, known, snap, done),
           UNCHANGED <<saved, live>>,
           \A d \in Mailed : boxes'[d] \subseteq boxes[d],
           \A p \in pushes' : p \in pushes \/ \E q \in pushes : p.m = q.m,
           Before(known, saved[Keeper].log), \A m \in mail : Before(m.log, saved[Keeper].log)
    PROVE  Leads' /\ Before(saved[Keeper].log, saved'[Keeper].log)
<1> DEFINE all == saved[Keeper].log
<1>1. BoxesBefore(all) /\ RunsBefore(all) /\ CopiesBefore(all) /\ Before(all, all)
  BY LeadsNow
<1>2. \A t \in RunIds : Before(runs'[t].known, all) /\ \A m \in runs'[t].mail : Before(m.log, all)
  <2> HIDE DEF all
  <2>1. Before(known, all) /\ \A m \in mail : Before(m.log, all)
    BY DEF all
  <2> QED BY <1>1, <2>1, RunLeads
<1>3. \A d \in Mailed : \A m \in boxes'[d] : Before(m.log, all)
  BY <1>1 DEF BoxesBefore
<1>4. \A p \in pushes' : Before(p.m.log, all)
  BY <1>1 DEF BoxesBefore
<1>5. all = saved'[Keeper].log /\ (\A g \in Guests : Before(saved'[g].log, all))
      /\ Before(live'.log, all)
  BY <1>1 DEF CopiesBefore
<1> HIDE DEF all
<1>6. Leads'
  BY <1>2, <1>3, <1>4, <1>5, LeadsParts
<1> QED BY <1>1, <1>5, <1>6 DEF all

LEMMA GuestMoveOrder ==
    ASSUME Orderly, NEW g \in Guests, GuestMove(g)
    PROVE  OrderlyNext
<1>1. PICK m \in Letters : m.kind = "cmd" /\ SentTo(Keeper, m) /\ m.log = << >>
  <2> DEFINE m == Cmd(g, <<g, sent'[g]>>)
  <2>1. m.log = << >> /\ m.kind = "cmd"
    BY DEF Cmd, Letter
  <2>2. m \in Letters
    <3>1. sent'[g] \in Nat /\ posted \in Nat
      BY DEF GuestMove, Orderly, SoundNow, Sound, MailTypes
    <3> QED BY <3>1, Keepers, NoMoves DEF Cmd, Letter, Letters, Turns
  <2>3. Send(Keeper, m, -1)
    BY DEF GuestMove
  <2> HIDE DEF m
  <2>4. SentTo(Keeper, m)
    BY <2>2, <2>3, SendFacts, Keepers DEF Orderly, SoundNow, Sound
  <2> QED BY <2>1, <2>2, <2>4
<1>2. UNCHANGED <<saved, runs, live>>
  BY DEF GuestMove
<1> DEFINE all == saved[Keeper].log
<1>3. BoxesBefore(all) /\ RunsBefore(all) /\ CopiesBefore(all) /\ Before(all, all) /\ all \in MailLogs
  BY LeadsNow
<1> HIDE DEF all
<1>4. Before(m.log, all)
  BY <1>1, <1>3, NoMoves
<1>5. /\ \A d \in Mailed : \A o \in boxes'[d] : Before(o.log, all)
      /\ \A p \in pushes' : Before(p.m.log, all)
  BY <1>1, <1>3, <1>4, SentLeads, Keepers
<1>6. all = saved'[Keeper].log
  BY <1>2 DEF all
<1>7. Leads'
  BY <1>2, <1>3, <1>5, <1>6, LeadsParts DEF RunsBefore, CopiesBefore
<1>8. Alone'
  BY <1>2, AloneSame
<1> QED BY <1>3, <1>6, <1>7, <1>8 DEF OrderlyNext, all

LEMMA MailAbsentOrder ==
    ASSUME Orderly, NEW g \in Guests, MailAbsent(g)
    PROVE  OrderlyNext
<1>1. PICK m \in Letters : m.log = live.log /\ SentTo(g, m)
                           /\ live' = [live EXCEPT !.mailed[g] = Len(live.log)]
  BY MailAbsentFacts DEF Orderly, SoundNow, Sound
<1>2. UNCHANGED <<saved, runs>>
  BY DEF MailAbsent
<1>3. live'.on = live.on /\ live'.log = live.log
  BY <1>1 DEF Orderly, SoundNow, Sound, MailTypes
<1> DEFINE all == saved[Keeper].log
<1>4. BoxesBefore(all) /\ RunsBefore(all) /\ CopiesBefore(all) /\ Before(all, all)
  BY LeadsNow
<1> HIDE DEF all
<1>5. /\ \A d \in Mailed : \A o \in boxes'[d] : Before(o.log, all)
      /\ \A p \in pushes' : Before(p.m.log, all)
  BY <1>1, <1>4, SentLeads, Keepers DEF CopiesBefore
<1>6. all = saved'[Keeper].log
  BY <1>2 DEF all
<1>7. Leads'
  BY <1>2, <1>3, <1>4, <1>5, <1>6, LeadsParts DEF RunsBefore, CopiesBefore
<1>8. Alone'
  BY <1>2, <1>3, AloneSame
<1> QED BY <1>4, <1>6, <1>7, <1>8 DEF OrderlyNext, all

LEMMA CheckOrder ==
    ASSUME Orderly, NEW s \in RunIds, NEW d \in Mailed, NEW page \in BOOLEAN, Check(s, d, page)
    PROVE  OrderlyNext
<1>1. /\ Becomes(s, d, page, "open", boxes[d], << >>, Empty, {})
      /\ d \in post.overlap \/ RunsAt(d) = {}
      /\ ~page => Worker(d)
  BY CheckFacts DEF Orderly, SoundNow, Sound
<1>2. UNCHANGED <<boxes, pushes, saved, live>>
  BY DEF Check
<1>3. d = Keeper => RunsAt(Keeper) = {} /\ (live.on => page)
  BY <1>1, CheckFacts DEF Orderly, Single, Worker, Shown, SoundNow, Sound
<1>4. Alone'
  BY <1>1, <1>2, <1>3, AloneRun DEF Acting
<1>5. \A m \in boxes[d] : Before(m.log, saved[Keeper].log)
  BY LeadsNow DEF BoxesBefore
<1>6. Before(<< >>, saved[Keeper].log)
  BY LeadsNow, NoMoves
<1> QED BY <1>1, <1>2, <1>4, <1>5, <1>6, QuietRun DEF OrderlyNext

LEMMA OnPushOrder ==
    ASSUME Orderly, NEW s \in RunIds, NEW p \in pushes, NEW page \in BOOLEAN, OnPush(s, p, page)
    PROVE  OrderlyNext
<1>1. /\ Becomes(s, p.to, page, "open", {p.m}, << >>, Empty, {})
      /\ p.to \in post.overlap \/ RunsAt(p.to) = {}
      /\ ~page => p.taken \/ (Worker(p.to) /\ ~Shown(p.to))
      /\ \A q \in pushes' : q \in pushes \/ q.m = p.m
  BY OnPushFacts DEF Orderly, SoundNow, Sound
<1>2. UNCHANGED <<boxes, saved, live>>
  BY DEF OnPush
<1>3. p.taken => p.to \in post.overlap
  BY DEF Orderly, SoundNow, Sound, MailShapes, PushShape
<1>4. p.to = Keeper => RunsAt(Keeper) = {} /\ (live.on => page)
  BY <1>1, <1>3 DEF Orderly, Single, Shown
<1>5. Alone'
  BY <1>1, <1>2, <1>4, AloneRun DEF Acting
<1>6. Before(p.m.log, saved[Keeper].log)
  BY LeadsNow DEF BoxesBefore
<1>7. Before(<< >>, saved[Keeper].log)
  BY LeadsNow, NoMoves
<1>8. \A m \in {p.m} : Before(m.log, saved[Keeper].log)
  BY <1>6
<1>9. /\ \A d \in Mailed : boxes'[d] \subseteq boxes[d]
      /\ \A q \in pushes' : q \in pushes \/ \E o \in pushes : q.m = o.m
  BY <1>1, <1>2
<1> QED BY <1>1, <1>2, <1>5, <1>7, <1>8, <1>9, QuietRun DEF OrderlyNext

LEMMA OpenOrder ==
    ASSUME Orderly, NEW s \in RunIds, Open(s)
    PROVE  OrderlyNext
<1>s. Sound
  BY DEF Orderly, SoundNow
<1>o. PICK pc \in {"moves", "ack", "store"}, mail \in SUBSET Letters, done \in SUBSET Nat :
        Opening(s, pc, mail, done)
  BY <1>s, OpenFacts
<1>1. /\ Becomes(s, runs[s].at, runs[s].page, pc, mail, saved[runs[s].at].log,
                 saved[runs[s].at], done)
      /\ mail = {Rebuilt(saved[runs[s].at].log, m) : m \in OpenedMail(s)}
      /\ runs[s].pc = "open"
  BY <1>o DEF Opening
<1>2. UNCHANGED <<boxes, pushes, saved, live>>
  BY DEF Open
<1>3. runs[s].at = Keeper => HostRun(s) /\ (live.on => runs[s].page)
  BY <1>1 DEF HostRun, Orderly, Alone
<1>4. pc \notin Acting /\ pc \notin {"apply", "mail"} /\ pc # "put"
  BY DEF Acting
<1>5. Alone'
  BY <1>1, <1>2, <1>3, <1>4, AloneRun
<1>6. ASSUME NEW o \in mail PROVE Before(o.log, saved[Keeper].log)
  <2>1. PICK m \in OpenedMail(s) : o = Rebuilt(saved[runs[s].at].log, m)
    BY <1>1
  <2>2. /\ m \in runs[s].mail
        /\ \A all \in MailLogs : Before(saved[runs[s].at].log, all) /\ Before(m.log, all) =>
                 Before(o.log, all)
    BY <2>1, OpenedAs DEF Orderly, SoundNow
  <2>3. Before(m.log, saved[Keeper].log) /\ Before(saved[runs[s].at].log, saved[Keeper].log)
    BY <2>2, RunAt
  <2> QED BY <2>2, <2>3, LeadsNow
<1>7. Before(saved[runs[s].at].log, saved[Keeper].log)
  BY RunAt
<1>8. /\ \A d \in Mailed : boxes'[d] \subseteq boxes[d]
      /\ \A q \in pushes' : q \in pushes
  BY <1>2
<1> QED BY <1>1, <1>2, <1>5, <1>6, <1>7, <1>8, QuietRun DEF OrderlyNext

LEMMA StoreViewOrder ==
    ASSUME Orderly, NEW s \in RunIds, StoreView(s)
    PROVE  OrderlyNext
<1>1. PICK m \in runs[s].mail :
             /\ m \in Letters /\ runs[s].at # Keeper
             /\ Becomes(s, runs[s].at, runs[s].page, "ack", runs[s].mail, runs[s].known,
                        runs[s].snap, runs[s].done \cup {m.id})
             /\ \A d \in Mailed : d # runs[s].at => saved'[d] = saved[d]
             /\ saved'[runs[s].at].log \in {saved[runs[s].at].log, m.log}
  BY StoreViewFacts DEF Orderly, SoundNow
<1>2. UNCHANGED <<boxes, pushes, live>>
  BY DEF StoreView
<1>3. saved'[Keeper] = saved[Keeper]
  BY <1>1, Keepers
<1>4. Alone'
  BY <1>1, <1>2, <1>3, AloneRun
<1> DEFINE all == saved[Keeper].log
<1>5. BoxesBefore(all) /\ RunsBefore(all) /\ CopiesBefore(all) /\ Before(all, all)
  BY LeadsNow
<1> HIDE DEF all
<1>6. \A t \in RunIds : Before(runs'[t].known, all) /\ \A o \in runs'[t].mail : Before(o.log, all)
  BY <1>1, <1>5, RunLeads DEF RunsBefore
<1>7. \A g \in Guests : Before(saved'[g].log, all)
  <2> TAKE g \in Guests
  <2>1. g \in Mailed /\ Before(saved[g].log, all)
    BY <1>5, Keepers DEF CopiesBefore
  <2>2. CASE g # runs[s].at
    BY <1>1, <2>1, <2>2
  <2>3. CASE g = runs[s].at
    <3>1. saved'[g].log = saved[g].log \/ saved'[g].log = m.log
      BY <1>1, <2>3
    <3>2. Before(m.log, all)
      BY <1>1, <1>5 DEF RunsBefore
    <3> QED BY <2>1, <3>1, <3>2
  <2> QED BY <2>2, <2>3
<1>8. all = saved'[Keeper].log
  BY <1>3 DEF all
<1>9. Leads'
  BY <1>2, <1>5, <1>6, <1>7, <1>8, LeadsParts DEF BoxesBefore, CopiesBefore
<1> QED BY <1>4, <1>5, <1>8, <1>9 DEF OrderlyNext, all

LEMMA EndOrder ==
    ASSUME Orderly, NEW s \in RunIds, Ended(s), UNCHANGED <<saved, live>>,
           \A d \in Mailed : boxes'[d] \subseteq boxes[d], \A p \in pushes' : p \in pushes
    PROVE  OrderlyNext
<1>1. Alone'
  BY AloneEnds
<1>2. Before(<< >>, saved[Keeper].log)
  BY LeadsNow, NoMoves
<1> DEFINE all == saved[Keeper].log
<1>3. BoxesBefore(all) /\ RunsBefore(all) /\ CopiesBefore(all) /\ Before(all, all)
      /\ Before(<< >>, all) /\ saved'[Keeper].log = all
  BY <1>2, LeadsNow
<1> HIDE DEF all
<1>4. \A t \in RunIds : Before(runs'[t].known, all) /\ \A m \in runs'[t].mail : Before(m.log, all)
  <2>1. /\ \A t \in RunIds : t # s => runs'[t] = runs[t]
        /\ runs'[s].known = << >> /\ runs'[s].mail = {}
    BY DEF Ended, Becomes
  <2> QED BY <1>3, <2>1 DEF RunsBefore
<1>5. /\ \A d \in Mailed : \A m \in boxes'[d] : Before(m.log, all)
      /\ \A p \in pushes' : Before(p.m.log, all)
  BY <1>3 DEF BoxesBefore
<1>6. (\A g \in Guests : Before(saved'[g].log, all)) /\ Before(live'.log, all)
  BY <1>3 DEF CopiesBefore
<1>7. Leads'
  BY <1>3, <1>4, <1>5, <1>6, LeadsParts
<1> QED BY <1>1, <1>3, <1>7 DEF OrderlyNext, all

LEMMA FailOrder ==
    ASSUME Orderly, NEW s \in RunIds, Fail(s), UNCHANGED <<saved, live>>
    PROVE  OrderlyNext
<1>1. Ended(s) /\ UNCHANGED <<boxes, pushes>>
  BY FailFacts DEF Orderly, SoundNow, Sound
<1>2. \A d \in Mailed : boxes'[d] \subseteq boxes[d]
  BY <1>1
<1>3. \A q \in pushes' : q \in pushes
  BY <1>1
<1> QED BY <1>1, <1>2, <1>3, EndOrder

LEMMA MovesOrder ==
    ASSUME Orderly, NEW s \in RunIds, Moves(s)
    PROVE  OrderlyNext
<1>1. PICK pc \in {"ack", "deliver", "apply"}, known \in {runs[s].known, saved[Keeper].log} :
             /\ Becomes(s, Keeper, runs[s].page, pc, runs[s].mail, known, saved[Keeper],
                        runs[s].done)
             /\ pc = "apply" => ~(runs[s].page /\ live.on)
             /\ runs[s].at = Keeper /\ runs[s].pc = "moves"
  BY MovesFacts DEF Orderly, SoundNow
<1>2. UNCHANGED <<boxes, pushes, saved, live>>
  BY DEF Moves
<1>3. HostRun(s) /\ (live.on => runs[s].page)
  BY <1>1 DEF HostRun, Orderly, Alone
<1>4. live.on => pc \notin Acting
  BY <1>1, <1>3 DEF Acting
<1>5. Alone'
  BY <1>1, <1>2, <1>3, <1>4, AloneRun
<1>6. Before(known, saved[Keeper].log) /\ \A m \in runs[s].mail : Before(m.log, saved[Keeper].log)
  BY <1>1, RunAt, LeadsNow
<1>7. /\ \A d \in Mailed : boxes'[d] \subseteq boxes[d]
      /\ \A q \in pushes' : q \in pushes
  BY <1>2
<1> QED BY <1>1, <1>2, <1>5, <1>6, <1>7, QuietRun DEF OrderlyNext

LEMMA DeliverOrder ==
    ASSUME Orderly, NEW s \in RunIds, Deliver(s)
    PROVE  OrderlyNext
<1>1. PICK m \in runs[s].mail :
             /\ runs[s].pc = "deliver" /\ runs[s].at = Keeper /\ m \in Letters
             /\ Accepted(s, m) \/ SentBack(s, m) \/ Dropped(s, m)
  BY DeliverFacts DEF Orderly, SoundNow
<1>2. LetterTo(Keeper, m) /\ m.move \in Turns /\ m.from \in Guests
  BY <1>1, RunLetters, MoveLetters DEF Orderly, SoundNow, Sound
<1>3. HostRun(s) /\ (live.on => runs[s].page)
  BY <1>1 DEF HostRun, Orderly, Alone
<1>4. CASE Accepted(s, m)
  <2> DEFINE log == Append(live.log, m.move)
  <2>1. /\ live.on /\ Delivered(s, m) /\ live' = [live EXCEPT !.log = log]
        /\ saved' = [saved EXCEPT ![Keeper].log = log]
    BY <1>4 DEF Accepted
  <2>2. UNCHANGED <<boxes, pushes>>
    BY <1>4 DEF Accepted
  <2>3. log \in MailLogs /\ Before(live.log, log) /\ live.log = saved[Keeper].log
    BY <1>2, <2>1, OneMore DEF Orderly, Alone, SoundNow, Sound, MailTypes
  <2> HIDE DEF log
  <2>4. live'.log = log /\ live'.on
    BY <2>1 DEF Orderly, SoundNow, Sound, MailTypes
  <2>5. saved'[Keeper].log = log /\ \A g \in Guests : saved'[g] = saved[g]
    BY <2>1, Keepers DEF Orderly, SoundNow, Sound, MailTypes, Copies
  <2>6. PICK pc \in {"deliver", "mark", "ack"} :
          Becomes(s, Keeper, runs[s].page, pc, runs[s].mail \ {m}, runs[s].known,
                  runs[s].snap, runs[s].done \cup {m.id})
    BY <2>1 DEF Delivered
  <2>7. BoxesBefore(log) /\ RunsBefore(log) /\ CopiesBefore(log)
    BY <2>3, LeadsOn
  <2>8. \A t \in RunIds : Before(runs'[t].known, log) /\ \A o \in runs'[t].mail : Before(o.log, log)
    <3>1. Before(runs[s].known, log) /\ \A o \in runs[s].mail \ {m} : Before(o.log, log)
      BY <2>7 DEF RunsBefore
    <3> QED BY <2>6, <2>7, <3>1, RunLeads
  <2>9. Leads'
    <3>1. /\ \A d \in Mailed : \A o \in boxes'[d] : Before(o.log, log)
          /\ \A p \in pushes' : Before(p.m.log, log)
      BY <2>2, <2>7 DEF BoxesBefore
    <3>2. (\A g \in Guests : Before(saved'[g].log, log)) /\ Before(live'.log, log)
      BY <2>3, <2>4, <2>5, <2>7, BeforeSelf DEF CopiesBefore
    <3> QED BY <2>5, <2>8, <3>1, <3>2, LeadsParts
  <2>10. Alone'
    <3>1. /\ \A t \in RunIds : t # s => runs'[t] = runs[t]
          /\ runs'[s].at = Keeper /\ runs'[s].page = runs[s].page /\ runs'[s].pc = pc
      BY <2>6 DEF Becomes
    <3>2. \A t \in RunIds : HostRun(t)' => t = s
      <4>1. \A t \in RunIds : t # s /\ HostRun(t)' => HostRun(t)
        BY <3>1 DEF HostRun
      <4> QED BY <4>1, <1>3 DEF Orderly, Alone
    <3>3. pc \notin Acting /\ pc # "apply" /\ pc # "mail" /\ pc # "put"
      BY DEF Acting
    <3>4. ASSUME NEW t \in RunIds PROVE runs'[t].pc \notin Acting
      <4>1. CASE t = s
        BY <3>1, <3>3, <4>1
      <4>2. CASE t # s
        <5>1. runs'[t] = runs[t] /\ ~HostRun(t)
          BY <3>1, <4>2, <1>3 DEF Orderly, Alone
        <5>2. runs[t].pc \in OnKeeper => runs[t].at = Keeper
          BY DEF Orderly, SoundNow, Sound, MailShapes, RunShape
        <5> QED BY <5>1, <5>2 DEF HostRun, Acting, OnKeeper
      <4> QED BY <4>1, <4>2
    <3>5. \A t \in RunIds : runs'[t].pc # "apply" /\ runs'[t].pc # "mail" /\ runs'[t].pc # "put"
      BY <3>4 DEF Acting
    <3>6. \A t \in RunIds : HostRun(t)' /\ live'.on => runs'[t].page /\ runs'[t].pc \notin Acting
      BY <1>3, <2>1, <3>1, <3>2, <3>4
    <3> QED BY <2>4, <2>5, <3>2, <3>5, <3>6 DEF Alone
  <2> QED BY <2>3, <2>5, <2>9, <2>10 DEF OrderlyNext
<1>5. CASE SentBack(s, m)
  <2>1. UNCHANGED <<saved, live>>
    BY <1>5 DEF SentBack
  <2>2. PICK v \in Letters : v.log = runs[s].known /\ SentTo(m.from, v)
    BY <1>5 DEF SentBack
  <2>3. PICK pc \in {"deliver", "mark", "ack"} :
          Becomes(s, Keeper, runs[s].page, pc, runs[s].mail \ {m}, runs[s].known,
                  runs[s].snap, runs[s].done \cup {m.id})
    BY <1>5 DEF SentBack, Delivered
  <2>4. pc \notin Acting /\ pc \notin {"apply", "mail"} /\ pc # "put"
    BY DEF Acting
  <2>5. Alone'
    BY <1>3, <2>1, <2>3, <2>4, AloneRun
  <2> DEFINE all == saved[Keeper].log
  <2>6. BoxesBefore(all) /\ RunsBefore(all) /\ CopiesBefore(all) /\ Before(all, all)
    BY LeadsNow
  <2> HIDE DEF all
  <2>7. /\ \A d \in Mailed : \A o \in boxes'[d] : Before(o.log, all)
        /\ \A p \in pushes' : Before(p.m.log, all)
    BY <1>2, <2>2, <2>6, SentLeads, Keepers DEF RunsBefore
  <2>8. \A t \in RunIds : Before(runs'[t].known, all) /\ \A o \in runs'[t].mail : Before(o.log, all)
    <3>1. Before(runs[s].known, all) /\ \A o \in runs[s].mail \ {m} : Before(o.log, all)
      BY <2>6 DEF RunsBefore
    <3> QED BY <2>3, <2>6, <3>1, RunLeads
  <2>9. all = saved'[Keeper].log
    BY <2>1 DEF all
  <2>10. Leads'
    BY <2>1, <2>6, <2>7, <2>8, <2>9, LeadsParts DEF CopiesBefore
  <2> QED BY <2>5, <2>6, <2>9, <2>10 DEF OrderlyNext, all
<1>6. CASE Dropped(s, m)
  <2>1. Fail(s) /\ UNCHANGED <<saved, live>>
    BY <1>6 DEF Dropped
  <2> QED BY <2>1, FailOrder
<1> QED BY <1>1, <1>4, <1>5, <1>6

LEMMA ApplyOrder ==
    ASSUME Orderly, NEW s \in RunIds, Apply(s)
    PROVE  OrderlyNext
<1>1. PICK no \in SUBSET runs[s].mail, more \in MailLogs :
             /\ Becomes(s, Keeper, runs[s].page, "put", runs[s].mail, runs[s].known,
                        [log |-> runs[s].snap.log \o more, push |-> runs[s].snap.push],
                        runs[s].done)
             /\ runs[s].at = Keeper /\ runs[s].pc = "apply"
  BY ApplyFacts DEF Orderly, SoundNow
<1>2. UNCHANGED <<boxes, pushes, saved, live>>
  BY DEF Apply
<1>3. HostRun(s) /\ runs[s].pc \in Acting /\ runs[s].snap = saved[Keeper] /\ ~live.on
  BY <1>1 DEF HostRun, Acting, Orderly, Alone
<1> DEFINE copy == [log |-> runs[s].snap.log \o more, push |-> runs[s].snap.push]
<1>4. Before(saved[Keeper].log, copy.log)
  BY <1>3, ManyMore, LeadsNow
<1>5. Becomes(s, Keeper, runs[s].page, "put", runs[s].mail, runs[s].known, copy, runs[s].done)
  BY <1>1
<1> HIDE DEF copy
<1>6. Alone'
  BY <1>2, <1>3, <1>4, <1>5, AloneRun
<1>7. Before(runs[s].known, saved[Keeper].log) /\ \A m \in runs[s].mail : Before(m.log, saved[Keeper].log)
  BY RunAt
<1>8. /\ \A d \in Mailed : boxes'[d] \subseteq boxes[d]
      /\ \A q \in pushes' : q \in pushes
  BY <1>2
<1> QED BY <1>2, <1>5, <1>6, <1>7, <1>8, QuietRun DEF OrderlyNext

LEMMA MarkOrder ==
    ASSUME Orderly, NEW s \in RunIds, Mark(s)
    PROVE  OrderlyNext
<1>1. /\ Becomes(s, Keeper, runs[s].page, "ack", runs[s].mail, runs[s].known,
                 runs[s].snap, runs[s].done)
      /\ runs[s].at = Keeper /\ runs[s].pc = "mark"
  BY MarkFacts DEF Orderly, SoundNow
<1>2. UNCHANGED <<boxes, pushes, saved, live>>
  BY DEF Mark
<1>3. HostRun(s) /\ (live.on => runs[s].page)
  BY <1>1 DEF HostRun, Orderly, Alone
<1>4. Alone'
  BY <1>1, <1>2, <1>3, AloneRun DEF Acting
<1>7. Before(runs[s].known, saved[Keeper].log) /\ \A m \in runs[s].mail : Before(m.log, saved[Keeper].log)
  BY RunAt
<1>8. /\ \A d \in Mailed : boxes'[d] \subseteq boxes[d]
      /\ \A q \in pushes' : q \in pushes
  BY <1>2
<1> QED BY <1>1, <1>2, <1>4, <1>7, <1>8, QuietRun DEF OrderlyNext

LEMMA PutCopyOrder ==
    ASSUME Orderly, NEW s \in RunIds, PutCopy(s)
    PROVE  OrderlyNext
<1>1. /\ Becomes(s, Keeper, runs[s].page, "mail", runs[s].mail, runs[s].known,
                 runs[s].snap, runs[s].done)
      /\ saved' = [saved EXCEPT ![Keeper] = runs[s].snap]
      /\ runs[s].at = Keeper /\ runs[s].pc = "put"
  BY PutCopyFacts DEF Orderly, SoundNow
<1>2. UNCHANGED <<boxes, pushes, live>>
  BY DEF PutCopy
<1>3. HostRun(s) /\ ~live.on /\ Before(saved[Keeper].log, runs[s].snap.log)
  BY <1>1 DEF HostRun, Acting, Orderly, Alone
<1> DEFINE log == runs[s].snap.log
<1>4. log \in MailLogs
  BY RunTypes DEF Orderly, SoundNow, Sound
<1>5. saved'[Keeper] = runs[s].snap /\ saved'[Keeper].log = log
      /\ \A g \in Guests : saved'[g] = saved[g]
  BY <1>1, Keepers DEF Orderly, SoundNow, Sound, MailTypes
<1> HIDE DEF log
<1>6. BoxesBefore(log) /\ RunsBefore(log) /\ CopiesBefore(log) /\ Before(saved[Keeper].log, log)
  BY <1>3, <1>4, LeadsOn DEF log
<1>7. Leads'
  <2>1. \A t \in RunIds : Before(runs'[t].known, log) /\ \A o \in runs'[t].mail : Before(o.log, log)
    <3>1. Before(runs[s].known, log) /\ \A o \in runs[s].mail : Before(o.log, log)
      BY <1>6 DEF RunsBefore
    <3> QED BY <1>1, <1>6, <3>1, RunLeads
  <2>2. /\ \A d \in Mailed : \A o \in boxes'[d] : Before(o.log, log)
        /\ \A p \in pushes' : Before(p.m.log, log)
    BY <1>2, <1>6 DEF BoxesBefore
  <2>3. (\A g \in Guests : Before(saved'[g].log, log)) /\ Before(live'.log, log)
    BY <1>2, <1>5, <1>6 DEF CopiesBefore
  <2> QED BY <1>5, <2>1, <2>2, <2>3, LeadsParts
<1>8. Alone'
  <2>1. /\ \A t \in RunIds : t # s => runs'[t] = runs[t]
        /\ runs'[s].pc = "mail" /\ runs'[s].snap = runs[s].snap
    BY <1>1 DEF Becomes
  <2>2. \A t \in RunIds : HostRun(t)' => t = s
    <3>1. \A t \in RunIds : t # s /\ HostRun(t)' => HostRun(t)
      BY <2>1 DEF HostRun
    <3> QED BY <3>1, <1>3 DEF Orderly, Alone
  <2>3. ASSUME NEW t \in RunIds, t # s PROVE runs'[t].pc \notin Acting
    <3>1. runs'[t] = runs[t] /\ ~HostRun(t)
      BY <2>1, <2>3, <1>3 DEF Orderly, Alone
    <3>2. runs[t].pc \in OnKeeper => runs[t].at = Keeper
      BY DEF Orderly, SoundNow, Sound, MailShapes, RunShape
    <3> QED BY <3>1, <3>2 DEF HostRun, Acting, OnKeeper
  <2>4. ASSUME NEW t \in RunIds
        PROVE  /\ runs'[t].pc \in {"apply", "mail"} => runs'[t].snap = saved'[Keeper]
               /\ runs'[t].pc = "put" => Before(saved'[Keeper].log, runs'[t].snap.log)
    BY <1>5, <2>1, <2>3 DEF Acting
  <2> QED BY <1>2, <1>3, <2>2, <2>4 DEF Alone
<1> QED BY <1>5, <1>6, <1>7, <1>8 DEF OrderlyNext

LEMMA MailViewsOrder ==
    ASSUME Orderly, NEW s \in RunIds, MailViews(s)
    PROVE  OrderlyNext
<1>1. runs[s].at = Keeper /\ runs[s].pc = "mail" /\ ((\E g \in Guests : MailedTo(s, g)) \/ Fail(s))
  BY MailViewsFacts DEF Orderly, SoundNow
<1>2. UNCHANGED <<saved, live>>
  BY DEF MailViews
<1>3. HostRun(s) /\ ~live.on /\ runs[s].snap = saved[Keeper]
  BY <1>1 DEF HostRun, Acting, Orderly, Alone
<1>4. ASSUME NEW g \in Guests, MailedTo(s, g) PROVE OrderlyNext
  <2>1. PICK v \in Letters : v.log = runs[s].snap.log /\ SentTo(g, v)
    BY <1>4 DEF MailedTo
  <2>2. PICK pc \in {"mail", "ack"} :
          Becomes(s, Keeper, runs[s].page, pc, runs[s].mail, runs[s].known, runs[s].snap,
                  runs[s].done \cup Ids(runs[s].mail))
    BY <1>4 DEF MailedTo
  <2>3. Alone'
    BY <1>2, <1>3, <2>2, AloneRun
  <2> DEFINE all == saved[Keeper].log
  <2>4. BoxesBefore(all) /\ RunsBefore(all) /\ CopiesBefore(all) /\ Before(all, all)
    BY LeadsNow
  <2>5. v.log = all /\ all = saved'[Keeper].log
    BY <1>2, <1>3, <2>1
  <2> HIDE DEF all
  <2>6. /\ \A d \in Mailed : \A o \in boxes'[d] : Before(o.log, all)
        /\ \A p \in pushes' : Before(p.m.log, all)
    BY <2>1, <2>4, <2>5, SentLeads, Keepers
  <2>7. \A t \in RunIds : Before(runs'[t].known, all) /\ \A o \in runs'[t].mail : Before(o.log, all)
    <3>1. Before(runs[s].known, all) /\ \A o \in runs[s].mail : Before(o.log, all)
      BY <2>4 DEF RunsBefore
    <3> QED BY <2>2, <2>4, <3>1, RunLeads
  <2>8. Leads'
    BY <1>2, <2>4, <2>5, <2>6, <2>7, LeadsParts DEF CopiesBefore
  <2> QED BY <2>3, <2>4, <2>5, <2>8 DEF OrderlyNext, all
<1> QED BY <1>1, <1>2, <1>4, FailOrder

LEMMA AckOrder ==
    ASSUME Orderly, NEW s \in RunIds, Ack(s)
    PROVE  OrderlyNext
<1>1. UNCHANGED <<saved, live>>
  BY DEF Ack
<1>2. runs[s].pc = "ack"
  BY AckFacts DEF Orderly, SoundNow
<1>3. CASE /\ Ended(s) /\ UNCHANGED <<post, pushes, posted>>
           /\ boxes' \in [Mailed -> SUBSET Letters]
           /\ \A d \in Mailed : d # runs[s].at => boxes'[d] = boxes[d]
           /\ boxes'[runs[s].at] = {m \in boxes[runs[s].at] : m.id \notin runs[s].done}
  <2>1. \A d \in Mailed : boxes'[d] \subseteq boxes[d]
    BY <1>3
  <2>2. \A q \in pushes' : q \in pushes
    BY <1>3
  <2> QED BY <1>1, <1>3, <2>1, <2>2, EndOrder
<1>4. CASE /\ Becomes(s, runs[s].at, runs[s].page, "open", boxes[runs[s].at], << >>, Empty, {})
           /\ UNCHANGED <<post, boxes, pushes, posted>>
  <2>1. runs[s].at = Keeper => HostRun(s) /\ (live.on => runs[s].page)
    BY <1>2 DEF HostRun, Orderly, Alone
  <2>2. Alone'
    BY <1>1, <1>4, <2>1, AloneRun DEF Acting
  <2>3. \A m \in boxes[runs[s].at] : Before(m.log, saved[Keeper].log)
    BY LeadsNow, RunAt DEF BoxesBefore
  <2>4. Before(<< >>, saved[Keeper].log)
    BY LeadsNow, NoMoves
  <2>5. /\ \A d \in Mailed : boxes'[d] \subseteq boxes[d]
        /\ \A q \in pushes' : q \in pushes
    BY <1>4
  <2> QED BY <1>1, <1>4, <2>2, <2>3, <2>4, <2>5, QuietRun DEF OrderlyNext
<1>5. CASE Ended(s) /\ UNCHANGED <<post, boxes, pushes, posted>>
  <2>1. \A d \in Mailed : boxes'[d] \subseteq boxes[d]
    BY <1>5
  <2>2. \A q \in pushes' : q \in pushes
    BY <1>5
  <2> QED BY <1>1, <1>5, <2>1, <2>2, EndOrder
<1>6. CASE Fail(s)
  BY <1>1, <1>6, FailOrder
<1> QED BY <1>3, <1>4, <1>5, <1>6, AckFacts DEF Orderly, SoundNow

LEMMA DieOrder ==
    ASSUME Orderly, NEW s \in RunIds, Die(s)
    PROVE  OrderlyNext
<1>1. Ended(s) /\ UNCHANGED <<boxes, pushes, saved, live>>
  BY DieFacts DEF Die, Orderly, SoundNow, Sound
<1>2. \A d \in Mailed : boxes'[d] \subseteq boxes[d]
  BY <1>1
<1>3. \A q \in pushes' : q \in pushes
  BY <1>1
<1> QED BY <1>1, <1>2, <1>3, EndOrder

LEMMA TableOrder ==
    ASSUME Orderly, OpenTable \/ CloseTable \/ OwnMove
    PROVE  OrderlyNext
<1>1. /\ UNCHANGED <<boxes, pushes, runs>> /\ saved' \in [Mailed -> Copies]
      /\ OpenTable => /\ live'.on /\ live'.log = saved[Keeper].log /\ saved' = saved
                      /\ Keeper \in post.overlap \/ RunsAt(Keeper) = {}
      /\ CloseTable => ~live'.on /\ live'.log = live.log /\ saved' = saved
      /\ OwnMove => /\ live.on /\ live'.on /\ live'.log = saved'[Keeper].log
                    /\ \A d \in Mailed : d # Keeper => saved'[d] = saved[d]
                    /\ Before(live.log, live'.log)
  BY TableFacts DEF Orderly, SoundNow, Sound
<1>2. Alone /\ Single /\ \A t \in RunIds : HostRun(t)' <=> HostRun(t)
  BY <1>1 DEF Orderly, HostRun
<1>3. \A t \in RunIds : runs'[t] = runs[t]
  BY <1>1
<1>4. CASE OpenTable
  <2>1. \A t \in RunIds : ~HostRun(t)
    BY <1>1, <1>2, <1>4 DEF Single, RunsAt, HostRun
  <2>2. Alone'
    BY <1>1, <1>2, <1>3, <1>4, <2>1 DEF Alone
  <2>3. saved'[Keeper].log = saved[Keeper].log
    BY <1>1, <1>4
  <2>4. Leads'
    BY <1>1, <1>4, <2>3, LeadsNow, LeadsParts DEF BoxesBefore, RunsBefore, CopiesBefore
  <2> QED BY <2>2, <2>3, <2>4, LeadsNow DEF OrderlyNext
<1>5. CASE CloseTable
  <2>2. Alone'
    BY <1>1, <1>2, <1>3, <1>5 DEF Alone
  <2>3. saved'[Keeper].log = saved[Keeper].log
    BY <1>1, <1>5
  <2>4. Leads'
    BY <1>1, <1>5, <2>3, LeadsNow, LeadsParts DEF BoxesBefore, RunsBefore, CopiesBefore
  <2> QED BY <2>2, <2>3, <2>4, LeadsNow DEF OrderlyNext
<1>6. CASE OwnMove
  <2>1. live.on /\ live.log = saved[Keeper].log /\ live'.log = saved'[Keeper].log
    BY <1>1, <1>2, <1>6 DEF Alone
  <2>2. \A t \in RunIds : runs[t].pc \notin Acting
    <3> TAKE t \in RunIds
    <3>1. runs[t].pc \in OnKeeper => runs[t].at = Keeper
      BY DEF Orderly, SoundNow, Sound, MailShapes, RunShape
    <3>2. HostRun(t) => runs[t].pc \notin Acting
      BY <1>2, <2>1 DEF Alone
    <3> QED BY <3>1, <3>2 DEF HostRun, Acting, OnKeeper
  <2>3. Alone'
    BY <1>1, <1>2, <1>3, <1>6, <2>1, <2>2 DEF Alone, Acting
  <2> DEFINE log == saved'[Keeper].log
  <2>4. log \in MailLogs /\ Before(saved[Keeper].log, log)
    BY <1>1, <1>6, <2>1, Keepers DEF Copies
  <2>5. BoxesBefore(log) /\ RunsBefore(log) /\ CopiesBefore(log)
    <3> HIDE DEF log
    <3> QED BY <2>4, LeadsOn
  <2>6. (\A g \in Guests : Before(saved'[g].log, log)) /\ Before(live'.log, log)
    <3>1. \A g \in Guests : saved'[g] = saved[g]
      BY <1>1, <1>6, Keepers
    <3>2. live'.log = log
      BY <2>1
    <3> HIDE DEF log
    <3> QED BY <2>4, <2>5, <3>1, <3>2, BeforeSelf DEF CopiesBefore
  <2>7. log = saved'[Keeper].log
    OBVIOUS
  <2> HIDE DEF log
  <2>8. Leads'
    BY <1>1, <2>5, <2>6, <2>7, LeadsParts DEF BoxesBefore, RunsBefore
  <2> QED BY <2>3, <2>4, <2>7, <2>8 DEF OrderlyNext
<1> QED BY <1>4, <1>5, <1>6

LEMMA OrderlyStep ==
    ASSUME Orderly, [MailNext]_mailVars
    PROVE  OrderlyNext
<1>1. CASE MailNext
  BY <1>1, GuestMoveOrder, MailAbsentOrder, CheckOrder, OnPushOrder, OpenOrder, StoreViewOrder,
     MovesOrder, DeliverOrder, ApplyOrder, MarkOrder, PutCopyOrder, MailViewsOrder, AckOrder,
     DieOrder, TableOrder DEF MailNext
<1>2. CASE UNCHANGED mailVars
  <2>1. UNCHANGED <<boxes, pushes, saved, runs, live>>
    BY <1>2 DEF mailVars
  <2>2. Alone'
    BY <2>1, AloneSame
  <2>3. saved'[Keeper].log = saved[Keeper].log
    BY <2>1
  <2>4. Leads'
    BY <2>1, <2>3, LeadsNow, LeadsParts DEF BoxesBefore, RunsBefore, CopiesBefore
  <2> QED BY <2>2, <2>3, <2>4, LeadsNow DEF OrderlyNext
<1> QED BY <1>1, <1>2

-----------------------------------------------------------------------------
(* No move is lost. *)

(* A letter in the host's mailbox is the one its pushes and runs hold.      *)
OneLetter ==
    \A b \in boxes[Keeper] :
        /\ \A p \in pushes : p.to = Keeper /\ p.m.id = b.id => p.m.move = b.move
        /\ \A s \in RunIds : runs[s].at = Keeper =>
              \A m \in runs[s].mail : m.id = b.id => m.move = b.move

MoveSettled(move) == Within(move, saved[Keeper].log) \/ move \in denied
Soon(move) == \E s \in RunIds : runs[s].pc = "put" /\ \E m \in runs[s].mail : m.move = move

(* What a run did, and what is marked as handled, is settled, or about to be; what
   is not settled waits in the mailbox.                                     *)
RunKept(s) ==
    /\ runs[s].pc = "put" => \A m \in runs[s].mail : Within(m.move, runs[s].snap.log) \/ m.move \in denied
    /\ runs[s].pc = "mail" => \A m \in runs[s].mail : MoveSettled(m.move)
    /\ HostRun(s) => \A b \in boxes[Keeper] : b.id \in runs[s].done => MoveSettled(b.move)
MarksKept == \A b \in boxes[Keeper] : b.id \in handled => MoveSettled(b.move) \/ Soon(b.move)
MoveKept(move) == MoveSettled(move) \/ Soon(move) \/ Waiting(move)
Kept == (\A s \in RunIds : RunKept(s)) /\ MarksKept /\ \A move \in Mine : MoveKept(move)

Full == Orderly /\ OneLetter /\ Kept

LEMMA OneLetterRun ==
    ASSUME Orderly, OneLetter, NEW s \in RunIds, NEW at, NEW page, NEW pc, NEW mail, NEW known,
           NEW snap, NEW done, Becomes(s, at, page, pc, mail, known, snap, done),
           boxes'[Keeper] \subseteq boxes[Keeper],
           \A p \in pushes' : p.to = Keeper => \E q \in pushes : q.to = Keeper /\ q.m = p.m,
           at = Keeper => \A b \in boxes[Keeper] : \A m \in mail : m.id = b.id => m.move = b.move
    PROVE  OneLetter'
<1>1. /\ \A t \in RunIds : t # s => runs'[t] = runs[t]
      /\ runs'[s].at = at /\ runs'[s].mail = mail
  BY DEF Becomes
<1>2. ASSUME NEW b \in boxes'[Keeper], NEW p \in pushes', p.to = Keeper, p.m.id = b.id
      PROVE  p.m.move = b.move
  BY <1>2 DEF OneLetter
<1>3. ASSUME NEW b \in boxes'[Keeper], NEW t \in RunIds, runs'[t].at = Keeper,
             NEW m \in runs'[t].mail, m.id = b.id
      PROVE  m.move = b.move
  <2>1. CASE t = s
    BY <1>1, <1>3, <2>1
  <2>2. CASE t # s
    BY <1>1, <1>3, <2>2 DEF OneLetter
  <2> QED BY <2>1, <2>2
<1> QED BY <1>2, <1>3 DEF OneLetter

LEMMA OneLetterSame ==
    ASSUME Orderly, OneLetter, UNCHANGED runs, boxes'[Keeper] \subseteq boxes[Keeper],
           \A p \in pushes' : p.to = Keeper => \E q \in pushes : q.to = Keeper /\ q.m = p.m
    PROVE  OneLetter'
BY DEF OneLetter

(* What was settled stays so.                                               *)
LEMMA SettledStays ==
    ASSUME Orderly, OrderlyNext, saved' \in [Mailed -> Copies], denied \subseteq denied'
    PROVE  \A move : MoveSettled(move) => Within(move, saved'[Keeper].log) \/ move \in denied'
<1>1. saved[Keeper].log \in MailLogs /\ saved'[Keeper].log \in MailLogs
  BY LeadsNow, Keepers DEF Copies
<1> QED BY <1>1, WithinOn DEF OrderlyNext, MoveSettled

(* One run changes that is not about to put its copy.                       *)
MoveSettledNext(move) == Within(move, saved'[Keeper].log) \/ move \in denied'
SoonNext(move) == \E s \in RunIds : runs'[s].pc = "put" /\ \E m \in runs'[s].mail : m.move = move

LEMMA KeptRun ==
    ASSUME Full, OrderlyNext, saved' \in [Mailed -> Copies], denied \subseteq denied',
           NEW s \in RunIds, NEW at, NEW page, NEW pc, NEW mail, NEW known, NEW snap, NEW done,
           Becomes(s, at, page, pc, mail, known, snap, done), runs[s].pc # "put",
           boxes'[Keeper] \subseteq boxes[Keeper], Mine' = Mine,
           \A b \in boxes[Keeper] : b \notin boxes'[Keeper] => MoveSettledNext(b.move),
           \A b \in boxes'[Keeper] : b.id \in handled' /\ b.id \notin handled =>
               MoveSettledNext(b.move) \/ SoonNext(b.move),
           pc = "put" => \A m \in mail : Within(m.move, snap.log) \/ m.move \in denied',
           pc = "mail" => \A m \in mail : MoveSettledNext(m.move),
           at = Keeper /\ pc # "off" =>
               \A b \in boxes'[Keeper] : b.id \in done => MoveSettledNext(b.move)
    PROVE  Kept'
<1>1. /\ \A t \in RunIds : t # s => runs'[t] = runs[t]
      /\ runs'[s].at = at /\ runs'[s].pc = pc /\ runs'[s].mail = mail
      /\ runs'[s].snap = snap /\ runs'[s].done = done
  BY DEF Becomes
<1>2. \A move : MoveSettled(move) => MoveSettledNext(move)
  BY SettledStays DEF Full, MoveSettledNext
<1>3. \A move : Soon(move) => SoonNext(move)
  <2> TAKE move
  <2> HAVE Soon(move)
  <2>1. PICK t \in RunIds : runs[t].pc = "put" /\ \E m \in runs[t].mail : m.move = move
    BY DEF Soon
  <2>2. runs'[t] = runs[t]
    BY <1>1, <2>1
  <2> QED BY <2>1, <2>2 DEF SoonNext
<1>4. \A move : MoveSettledNext(move) <=> MoveSettled(move)'
  BY DEF MoveSettledNext, MoveSettled
<1>5. \A move : SoonNext(move) <=> Soon(move)'
  BY DEF SoonNext, Soon
<1>6. Kept
  BY DEF Full
<1>7. ASSUME NEW t \in RunIds PROVE RunKept(t)'
  <2>1. CASE t = s
    <3>1. pc = "put" => \A m \in mail : Within(m.move, snap.log) \/ m.move \in denied'
      OBVIOUS
    <3>2. runs'[t].pc = "mail" => \A m \in runs'[t].mail : MoveSettled(m.move)'
      BY <1>1, <1>4, <2>1
    <3>3. HostRun(t)' => at = Keeper /\ pc # "off"
      BY <1>1, <2>1 DEF HostRun
    <3>4. HostRun(t)' => \A b \in boxes'[Keeper] : b.id \in runs'[t].done => MoveSettled(b.move)'
      BY <1>1, <1>4, <2>1, <3>3
    <3> QED BY <1>1, <2>1, <3>1, <3>2, <3>4 DEF RunKept
  <2>2. CASE t # s
    <3>1. runs'[t] = runs[t] /\ RunKept(t) /\ (HostRun(t)' => HostRun(t))
      BY <1>1, <1>6, <2>2 DEF Kept, HostRun
    <3>2. runs[t].pc = "mail" => \A m \in runs[t].mail : MoveSettled(m.move)'
      BY <1>2, <1>4, <3>1 DEF RunKept
    <3>3. HostRun(t)' => \A b \in boxes'[Keeper] : b.id \in runs[t].done => MoveSettled(b.move)'
      BY <1>2, <1>4, <3>1 DEF RunKept
    <3>4. runs[t].pc = "put" =>
            \A m \in runs[t].mail : Within(m.move, runs[t].snap.log) \/ m.move \in denied'
      BY <3>1 DEF RunKept
    <3> QED BY <3>1, <3>2, <3>3, <3>4 DEF RunKept
  <2> QED BY <2>1, <2>2
<1>8. MarksKept'
  <2>1. ASSUME NEW b \in boxes'[Keeper], b.id \in handled' PROVE MoveSettledNext(b.move) \/ SoonNext(b.move)
    <3>1. CASE b.id \in handled
      BY <1>2, <1>3, <1>6, <3>1 DEF Kept, MarksKept
    <3>2. CASE b.id \notin handled
      BY <2>1, <3>2
    <3> QED BY <3>1, <3>2
  <2> QED BY <1>4, <1>5, <2>1 DEF MarksKept
<1>9. ASSUME NEW move \in Mine' PROVE MoveKept(move)'
  <2>1. MoveKept(move)
    BY <1>6, <1>9 DEF Kept
  <2>2. CASE MoveSettled(move) \/ Soon(move)
    BY <1>2, <1>3, <1>4, <1>5, <2>2 DEF MoveKept
  <2>3. CASE Waiting(move)
    <3>1. PICK b \in boxes[Keeper] : b.move = move /\ b.id \notin handled
      BY <2>3 DEF Waiting
    <3>2. CASE b \notin boxes'[Keeper]
      BY <1>4, <3>1, <3>2 DEF MoveKept
    <3>3. CASE b \in boxes'[Keeper] /\ b.id \in handled'
      BY <1>4, <1>5, <3>1, <3>3 DEF MoveKept
    <3>4. CASE b \in boxes'[Keeper] /\ b.id \notin handled'
      BY <3>1, <3>4 DEF MoveKept, Waiting
    <3> QED BY <3>2, <3>3, <3>4
  <2> QED BY <2>1, <2>2, <2>3 DEF MoveKept
<1> QED BY <1>7, <1>8, <1>9 DEF Kept

(* No run changes, nor what is marked.                                      *)
LEMMA KeptSame ==
    ASSUME Full, OrderlyNext, saved' \in [Mailed -> Copies], UNCHANGED <<runs, handled, denied>>,
           boxes'[Keeper] = boxes[Keeper], Mine' = Mine
    PROVE  Kept'
<1>2. \A move : MoveSettled(move) => MoveSettled(move)'
  BY SettledStays DEF Full, MoveSettled
<1>3. \A move : Soon(move) => Soon(move)'
  BY DEF Soon
<1>4. \A move : Waiting(move) => Waiting(move)'
  BY DEF Waiting
<1>6. Kept
  BY DEF Full
<1>7. ASSUME NEW t \in RunIds PROVE RunKept(t)'
  <2>1. RunKept(t) /\ runs'[t] = runs[t] /\ (HostRun(t)' => HostRun(t))
    BY <1>6 DEF Kept, HostRun
  <2>2. runs'[t].pc = "mail" => \A m \in runs'[t].mail : MoveSettled(m.move)'
    BY <1>2, <2>1 DEF RunKept
  <2>3. HostRun(t)' => \A b \in boxes'[Keeper] : b.id \in runs'[t].done => MoveSettled(b.move)'
    BY <1>2, <2>1 DEF RunKept
  <2>4. runs'[t].pc = "put" =>
            \A m \in runs'[t].mail : Within(m.move, runs'[t].snap.log) \/ m.move \in denied'
    BY <2>1 DEF RunKept
  <2> QED BY <2>2, <2>3, <2>4 DEF RunKept
<1>8. MarksKept'
  BY <1>2, <1>3, <1>6 DEF Kept, MarksKept
<1>9. ASSUME NEW move \in Mine' PROVE MoveKept(move)'
  BY <1>2, <1>3, <1>4, <1>6 DEF Kept, MoveKept
<1> QED BY <1>7, <1>8, <1>9 DEF Kept

(* The situation: what a step leaves alone.                                 *)
PostKeeps == /\ post'.moves = post.moves /\ post'.overlap = post.overlap
             /\ post.dies = "did" => post'.dies = "did"
Further == OrderlyNext /\ saved' \in [Mailed -> Copies] /\ post'.moves = post.moves
Tidy == Orderly /\ OneLetter
TidyNext == OneLetter' /\ (Kept => Kept')

LEMMA PostStep ==
    ASSUME SoundNow, [MailNext]_mailVars
    PROVE  PostKeeps
<1>1. Sound /\ MailTypes
  BY DEF SoundNow, Sound
<1>2. ASSUME UNCHANGED post PROVE PostKeeps
  BY <1>2 DEF PostKeeps
<1>3. ASSUME NEW s \in RunIds, Fail(s) PROVE PostKeeps
  BY <1>1, <1>3, FailFacts DEF PostKeeps
<1>4. ASSUME NEW s \in RunIds, Deliver(s) PROVE PostKeeps
  <2>1. UNCHANGED post \/ Fail(s)
    BY <1>4 DEF Deliver
  <2> QED BY <1>2, <1>3, <2>1
<1>5. ASSUME NEW s \in RunIds, MailViews(s) PROVE PostKeeps
  <2>1. UNCHANGED post \/ Fail(s)
    BY <1>5 DEF MailViews
  <2> QED BY <1>2, <1>3, <2>1
<1>6. ASSUME NEW s \in RunIds, Ack(s) PROVE PostKeeps
  <2>1. UNCHANGED post \/ Fail(s)
    BY <1>6 DEF Ack
  <2> QED BY <1>2, <1>3, <2>1
<1>7. ASSUME NEW s \in RunIds, Die(s) PROVE PostKeeps
  BY <1>1, <1>7, DieFacts DEF PostKeeps
<1>8. ASSUME OpenTable \/ CloseTable \/ OwnMove PROVE PostKeeps
  BY <1>1, <1>8, TableFacts DEF PostKeeps
<1>9. ASSUME NEW g \in Guests, GuestMove(g) \/ MailAbsent(g) PROVE PostKeeps
  BY <1>2, <1>9 DEF GuestMove, MailAbsent
<1>10. ASSUME NEW s \in RunIds, NEW d, NEW page, Check(s, d, page) \/ OnPush(s, d, page) PROVE PostKeeps
  BY <1>2, <1>10 DEF Check, OnPush
<1>11. ASSUME NEW s \in RunIds, Open(s) \/ StoreView(s) \/ Moves(s) PROVE PostKeeps
  BY <1>2, <1>11 DEF Open, StoreView, Moves
<1>12. ASSUME NEW s \in RunIds, Apply(s) \/ Mark(s) \/ PutCopy(s) PROVE PostKeeps
  BY <1>2, <1>12 DEF Apply, Mark, PutCopy
<1>13. CASE UNCHANGED mailVars
  BY <1>2, <1>13 DEF mailVars
<1>14. CASE MailNext
  BY <1>4, <1>5, <1>6, <1>7, <1>8, <1>9, <1>10, <1>11, <1>12, <1>14 DEF MailNext
<1> QED BY <1>13, <1>14

LEMMA MineSame ==
    ASSUME Further, UNCHANGED sent
    PROVE  Mine' = Mine
BY DEF Further, Mine, MovesOf

(* What is new that a step does not put in its place: letters to others.    *)
LEMMA SentAway ==
    ASSUME NEW g \in Guests, NEW m, SentTo(g, m)
    PROVE  /\ boxes'[Keeper] = boxes[Keeper]
           /\ \A p \in pushes' : p.to = Keeper => \E q \in pushes : q.to = Keeper /\ q.m = p.m
<1>1. g # Keeper /\ Keeper \in Mailed
  BY Keepers
<1>2. boxes'[Keeper] = boxes[Keeper]
  BY <1>1 DEF SentTo
<1>3. \A p \in pushes' : p \in pushes \/ p.to = g
  BY DEF SentTo
<1> QED BY <1>1, <1>2, <1>3

LEMMA MailAbsentTidy ==
    ASSUME Tidy, Further, NEW g \in Guests, MailAbsent(g)
    PROVE  TidyNext
<1>1. PICK m \in Letters : SentTo(g, m)
  BY MailAbsentFacts DEF Tidy, Orderly, SoundNow, Sound
<1>2. UNCHANGED <<handled, runs, sent, denied>>
  BY DEF MailAbsent
<1>3. OneLetter'
  BY <1>1, <1>2, SentAway, OneLetterSame DEF Tidy
<1>4. ASSUME Kept PROVE Kept'
  <2>1. Mine' = Mine
    BY <1>2, MineSame
  <2> QED BY <1>1, <1>2, <1>4, <2>1, SentAway, KeptSame DEF Tidy, Full, Further
<1> QED BY <1>3, <1>4 DEF TidyNext

LEMMA CheckTidy ==
    ASSUME Tidy, Further, NEW s \in RunIds, NEW d \in Mailed, NEW page \in BOOLEAN, Check(s, d, page)
    PROVE  TidyNext
<1>1. Becomes(s, d, page, "open", boxes[d], << >>, Empty, {}) /\ runs[s].pc = "off"
  BY CheckFacts DEF Tidy, Orderly, SoundNow, Sound
<1>2. UNCHANGED <<boxes, pushes, handled, sent, denied>>
  BY DEF Check
<1>3. d = Keeper => \A b \in boxes[Keeper] : \A m \in boxes[d] : m.id = b.id => m.move = b.move
  BY Keepers DEF Tidy, Orderly, SoundNow, Sound, MailShapes, BoxShape
<1>4. OneLetter'
  BY <1>1, <1>2, <1>3, OneLetterRun DEF Tidy
<1>5. ASSUME Kept PROVE Kept'
  <2>1. Mine' = Mine
    BY <1>2, MineSame
  <2> QED BY <1>1, <1>2, <1>5, <2>1, KeptRun DEF Tidy, Full, Further
<1> QED BY <1>4, <1>5 DEF TidyNext

LEMMA OnPushTidy ==
    ASSUME Tidy, Further, NEW s \in RunIds, NEW p \in pushes, NEW page \in BOOLEAN, OnPush(s, p, page)
    PROVE  TidyNext
<1>1. /\ Becomes(s, p.to, page, "open", {p.m}, << >>, Empty, {}) /\ runs[s].pc = "off"
      /\ \A q \in pushes' : q \in pushes \/ (q.to = p.to /\ q.m = p.m)
  BY OnPushFacts DEF Tidy, Orderly, SoundNow, Sound
<1>2. UNCHANGED <<boxes, handled, sent, denied>>
  BY DEF OnPush
<1>3. p.to = Keeper => \A b \in boxes[Keeper] : \A m \in {p.m} : m.id = b.id => m.move = b.move
  BY DEF Tidy, OneLetter
<1>6. \A q \in pushes' : q.to = Keeper => \E o \in pushes : o.to = Keeper /\ o.m = q.m
  BY <1>1
<1>4. OneLetter'
  BY <1>1, <1>2, <1>3, <1>6, OneLetterRun DEF Tidy
<1>5. ASSUME Kept PROVE Kept'
  <2>1. Mine' = Mine
    BY <1>2, MineSame
  <2>2. boxes'[Keeper] \subseteq boxes[Keeper] /\ Full /\ denied \subseteq denied'
    BY <1>2, <1>5 DEF Tidy, Full
  <2> QED BY <1>1, <1>2, <1>5, <2>1, <2>2, KeptRun DEF Further
<1> QED BY <1>4, <1>5 DEF TidyNext

(* The only run of the host's device: no other is about to put its copy.    *)
LEMMA NotSoon ==
    ASSUME Tidy, NEW s \in RunIds, HostRun(s), runs[s].pc # "put", NEW move
    PROVE  ~Soon(move)
<1>1. SUFFICES ASSUME Soon(move) PROVE FALSE
  OBVIOUS
<1>2. PICK t \in RunIds : runs[t].pc = "put"
  BY <1>1 DEF Soon
<1>3. runs[t].at = Keeper
  BY <1>2 DEF Tidy, Orderly, SoundNow, Sound, MailShapes, RunShape, OnKeeper
<1>4. t = s
  BY <1>2, <1>3 DEF HostRun, Tidy, Orderly, Alone
<1> QED BY <1>2, <1>4

LEMMA OpenTidy ==
    ASSUME Tidy, Further, NEW s \in RunIds, Open(s)
    PROVE  TidyNext
<1>s. Sound
  BY DEF Tidy, Orderly, SoundNow
<1>o. PICK pc \in {"moves", "ack", "store"}, mail \in SUBSET Letters, done \in SUBSET Nat :
        Opening(s, pc, mail, done)
  BY <1>s, OpenFacts
<1>1. /\ Becomes(s, runs[s].at, runs[s].page, pc, mail, saved[runs[s].at].log,
                 saved[runs[s].at], done)
      /\ mail = {Rebuilt(saved[runs[s].at].log, m) : m \in OpenedMail(s)}
      /\ handled' \subseteq handled /\ done \subseteq handled
      /\ runs[s].pc = "open"
  BY <1>o DEF Opening
<1>2. UNCHANGED <<boxes, pushes, saved, live, sent, denied>>
  BY DEF Open
<1>3. ASSUME runs[s].at = Keeper, NEW b \in boxes[Keeper], NEW m \in mail, m.id = b.id
      PROVE  m.move = b.move
  <2>1. PICK o \in OpenedMail(s) : m = Rebuilt(saved[runs[s].at].log, o)
    BY <1>1
  <2>2. o \in runs[s].mail
    BY <2>1 DEF OpenedMail
  <2>3. o.base = -1
    BY <1>3, <2>2, RunLetters DEF LetterTo, LetterOf, Tidy, Orderly, SoundNow
  <2>4. m = o
    BY <2>1, <2>3 DEF Rebuilt
  <2> QED BY <1>3, <2>2, <2>4 DEF Tidy, OneLetter
<1>4. OneLetter'
  BY <1>1, <1>2, <1>3, OneLetterRun DEF Tidy
<1>5. ASSUME Kept PROVE Kept'
  <2>1. Mine' = Mine
    BY <1>2, MineSame
  <2>2. boxes'[Keeper] \subseteq boxes[Keeper] /\ Full /\ denied \subseteq denied'
    BY <1>2, <1>5 DEF Tidy, Full
  <2>3. ASSUME runs[s].at = Keeper, NEW b \in boxes[Keeper], b.id \in done PROVE MoveSettledNext(b.move)
    <3>1. HostRun(s) /\ b.id \in handled
      BY <1>1, <2>3 DEF HostRun
    <3>2. MoveSettled(b.move)
      BY <1>1, <1>5, <3>1, NotSoon DEF Kept, MarksKept
    <3> QED BY <1>2, <3>2 DEF MoveSettled, MoveSettledNext
  <2> QED BY <1>1, <1>2, <2>1, <2>2, <2>3, KeptRun DEF Further
<1> QED BY <1>4, <1>5 DEF TidyNext

LEMMA StoreViewTidy ==
    ASSUME Tidy, Further, NEW s \in RunIds, StoreView(s)
    PROVE  TidyNext
<1>1. PICK m \in runs[s].mail :
             /\ runs[s].at # Keeper
             /\ Becomes(s, runs[s].at, runs[s].page, "ack", runs[s].mail, runs[s].known,
                        runs[s].snap, runs[s].done \cup {m.id})
  BY StoreViewFacts DEF Tidy, Orderly, SoundNow
<1>2. UNCHANGED <<boxes, pushes, handled, sent, denied>> /\ runs[s].pc = "store"
  BY DEF StoreView
<1>3. OneLetter'
  BY <1>1, <1>2, OneLetterRun DEF Tidy
<1>4. ASSUME Kept PROVE Kept'
  <2>1. Mine' = Mine
    BY <1>2, MineSame
  <2>2. boxes'[Keeper] \subseteq boxes[Keeper] /\ Full /\ denied \subseteq denied'
    BY <1>2, <1>4 DEF Tidy, Full
  <2> QED BY <1>1, <1>2, <2>1, <2>2, KeptRun DEF Further
<1> QED BY <1>3, <1>4 DEF TidyNext

LEMMA MovesTidy ==
    ASSUME Tidy, Further, NEW s \in RunIds, Moves(s)
    PROVE  TidyNext
<1>1. PICK pc \in {"ack", "deliver", "apply"}, known \in {runs[s].known, saved[Keeper].log} :
             /\ Becomes(s, Keeper, runs[s].page, pc, runs[s].mail, known, saved[Keeper],
                        runs[s].done)
             /\ runs[s].at = Keeper /\ runs[s].pc = "moves"
  BY MovesFacts DEF Tidy, Orderly, SoundNow
<1>2. UNCHANGED <<boxes, pushes, saved, handled, sent, denied>>
  BY DEF Moves
<1>3. OneLetter'
  BY <1>1, <1>2, OneLetterRun DEF Tidy, OneLetter
<1>4. ASSUME Kept PROVE Kept'
  <2>1. Mine' = Mine
    BY <1>2, MineSame
  <2>2. boxes'[Keeper] \subseteq boxes[Keeper] /\ Full /\ denied \subseteq denied'
    BY <1>2, <1>4 DEF Tidy, Full
  <2>3. \A b \in boxes'[Keeper] : b.id \in runs[s].done => MoveSettledNext(b.move)
    BY <1>1, <1>2, <1>4 DEF Kept, RunKept, HostRun, MoveSettled, MoveSettledNext
  <2> QED BY <1>1, <1>2, <2>1, <2>2, <2>3, KeptRun DEF Further
<1> QED BY <1>3, <1>4 DEF TidyNext

(* A run ends; what it collected is settled.                                *)
LEMMA EndTidy ==
    ASSUME Tidy, Further, NEW s \in RunIds, Ended(s), boxes'[Keeper] \subseteq boxes[Keeper],
           UNCHANGED <<pushes, handled, sent>>
    PROVE  /\ OneLetter'
           /\ Kept /\ denied \subseteq denied' /\ runs[s].pc # "put"
              /\ (\A b \in boxes[Keeper] : b \notin boxes'[Keeper] => MoveSettledNext(b.move)) => Kept'
<1>1. PICK mail, known, snap, done, page :
        mail = {} /\ done = {} /\ Becomes(s, Keeper, page, "off", mail, known, snap, done)
  BY DEF Ended
<1>2. OneLetter'
  BY <1>1, OneLetterRun DEF Tidy
<1>3. ASSUME Kept, denied \subseteq denied', runs[s].pc # "put",
             \A b \in boxes[Keeper] : b \notin boxes'[Keeper] => MoveSettledNext(b.move)
      PROVE  Kept'
  <2>1. Mine' = Mine
    BY MineSame
  <2>2. Full
    BY <1>3 DEF Tidy, Full
  <2> QED BY <1>1, <1>3, <2>1, <2>2, KeptRun DEF Further
<1> QED BY <1>2, <1>3

LEMMA FailTidy ==
    ASSUME Tidy, Further, NEW s \in RunIds, Fail(s), UNCHANGED <<handled, sent>>,
           denied \subseteq denied', runs[s].pc # "put"
    PROVE  TidyNext
<1>1. Ended(s) /\ UNCHANGED <<boxes, pushes>>
  BY FailFacts DEF Tidy, Orderly, SoundNow, Sound
<1> QED BY <1>1, EndTidy DEF TidyNext

(* The browser ends a run: nothing is promised from then on.                *)
LEMMA DieTidy ==
    ASSUME Tidy, Further, NEW s \in RunIds, Die(s)
    PROVE  OneLetter'
<1>1. Ended(s) /\ UNCHANGED <<boxes, pushes, handled, sent>>
  BY DieFacts DEF Die, Tidy, Orderly, SoundNow, Sound
<1>2. boxes'[Keeper] \subseteq boxes[Keeper]
  BY <1>1
<1> QED BY <1>1, <1>2, EndTidy

LEMMA TableTidy ==
    ASSUME Tidy, Further, OpenTable \/ CloseTable \/ OwnMove
    PROVE  TidyNext
<1>1. UNCHANGED <<boxes, pushes, posted, handled, runs, sent, denied>>
  BY TableFacts DEF Tidy, Orderly, SoundNow, Sound
<1>2. OneLetter'
  BY <1>1 DEF Tidy, OneLetter
<1>3. ASSUME Kept PROVE Kept'
  <2>1. Mine' = Mine
    BY <1>1, MineSame
  <2> QED BY <1>1, <1>3, <2>1, KeptSame DEF Tidy, Full, Further
<1> QED BY <1>2, <1>3 DEF TidyNext

(* A run of the host's device goes on, having done more: what it did is settled. *)
LEMMA DidMore ==
    ASSUME Tidy, Further, Kept, denied \subseteq denied', NEW s \in RunIds, HostRun(s),
           NEW did \in SUBSET runs[s].mail, \A m \in did : MoveSettledNext(m.move),
           boxes'[Keeper] \subseteq boxes[Keeper]
    PROVE  \A b \in boxes'[Keeper] : b.id \in runs[s].done \cup Ids(did) => MoveSettledNext(b.move)
<1> SUFFICES ASSUME NEW b \in boxes'[Keeper], b.id \in runs[s].done \cup Ids(did)
             PROVE  MoveSettledNext(b.move)
  OBVIOUS
<1>1. CASE b.id \in runs[s].done
  <2>1. MoveSettled(b.move)
    BY <1>1 DEF Kept, RunKept
  <2> QED BY <2>1, SettledStays DEF Tidy, Further, MoveSettledNext
<1>2. CASE b.id \in Ids(did)
  <2>1. PICK m \in did : m.id = b.id
    BY <1>2 DEF Ids
  <2>2. m.move = b.move
    BY <2>1 DEF Tidy, OneLetter, HostRun
  <2> QED BY <2>1, <2>2
<1> QED BY <1>1, <1>2

LEMMA DeliverTidy ==
    ASSUME Tidy, Further, NEW s \in RunIds, Deliver(s)
    PROVE  TidyNext
<1>1. PICK m \in runs[s].mail :
             /\ runs[s].pc = "deliver" /\ runs[s].at = Keeper /\ m \in Letters
             /\ Accepted(s, m) \/ SentBack(s, m) \/ Dropped(s, m)
  BY DeliverFacts DEF Tidy, Orderly, SoundNow
<1>2. LetterTo(Keeper, m) /\ m.move \in Turns /\ m.from \in Guests
  BY <1>1, RunLetters, MoveLetters DEF Tidy, Orderly, SoundNow, Sound
<1>3. HostRun(s) /\ {m} \in SUBSET runs[s].mail /\ Ids({m}) = {m.id}
  BY <1>1 DEF HostRun, Ids
<1>4. CASE Dropped(s, m)
  BY <1>1, <1>4, FailTidy DEF Dropped
<1>5. ASSUME Delivered(s, m), boxes'[Keeper] = boxes[Keeper], denied \subseteq denied',
             \A p \in pushes' : p.to = Keeper => \E q \in pushes : q.to = Keeper /\ q.m = p.m,
             UNCHANGED <<handled, sent>>, MoveSettledNext(m.move)
      PROVE  TidyNext
  <2>1. PICK pc \in {"deliver", "mark", "ack"} :
          Becomes(s, Keeper, runs[s].page, pc, runs[s].mail \ {m}, runs[s].known,
                  runs[s].snap, runs[s].done \cup {m.id})
    BY <1>5 DEF Delivered
  <2>2. boxes'[Keeper] \subseteq boxes[Keeper]
    BY <1>5
  <2>3. \A b \in boxes[Keeper] : \A o \in runs[s].mail \ {m} : o.id = b.id => o.move = b.move
    BY <1>1 DEF Tidy, OneLetter
  <2>4. OneLetter'
    BY <1>5, <2>1, <2>2, <2>3, OneLetterRun DEF Tidy
  <2>5. ASSUME Kept PROVE Kept'
    <3>1. Mine' = Mine
      BY <1>5, MineSame
    <3>2. Full
      BY <2>5 DEF Tidy, Full
    <3>3. \A b \in boxes'[Keeper] : b.id \in runs[s].done \cup {m.id} => MoveSettledNext(b.move)
      BY <1>3, <1>5, <2>2, <2>5, DidMore
    <3> QED BY <1>1, <1>5, <2>1, <2>2, <3>1, <3>2, <3>3, KeptRun DEF Further
  <2> QED BY <2>4, <2>5 DEF TidyNext
<1>6. CASE Accepted(s, m)
  <2>1. /\ Delivered(s, m) /\ UNCHANGED <<boxes, pushes, denied, handled, sent>>
        /\ saved' = [saved EXCEPT ![Keeper].log = Append(live.log, m.move)]
    BY <1>6 DEF Accepted
  <2>2. live.log \in MailLogs /\ saved \in [Mailed -> Copies] /\ Keeper \in Mailed
    BY Keepers DEF Tidy, Orderly, SoundNow, Sound, MailTypes
  <2>3. Within(m.move, Append(live.log, m.move))
    BY <1>2, <2>2, OneMore
  <2>4. saved'[Keeper].log = Append(live.log, m.move)
    BY <2>1, <2>2 DEF Copies
  <2>5. MoveSettledNext(m.move)
    BY <2>3, <2>4 DEF MoveSettledNext
  <2> QED BY <1>5, <2>1, <2>5
<1>7. CASE SentBack(s, m)
  <2>1. /\ Delivered(s, m) /\ denied' = denied \cup {m.move} /\ UNCHANGED <<handled, sent>>
        /\ \E v \in Letters : SentTo(m.from, v)
    BY <1>7 DEF SentBack
  <2>2. MoveSettledNext(m.move) /\ denied \subseteq denied'
    BY <2>1 DEF MoveSettledNext
  <2>3. /\ boxes'[Keeper] = boxes[Keeper]
        /\ \A p \in pushes' : p.to = Keeper => \E q \in pushes : q.to = Keeper /\ q.m = p.m
    BY <1>2, <2>1, SentAway
  <2> QED BY <1>5, <2>1, <2>2, <2>3
<1> QED BY <1>1, <1>4, <1>6, <1>7

LEMMA ApplyTidy ==
    ASSUME Tidy, Further, NEW s \in RunIds, Apply(s)
    PROVE  TidyNext
<1>1. PICK no \in SUBSET runs[s].mail, more \in MailLogs :
             /\ Becomes(s, Keeper, runs[s].page, "put", runs[s].mail, runs[s].known,
                        [log |-> runs[s].snap.log \o more, push |-> runs[s].snap.push],
                        runs[s].done)
             /\ \A m \in runs[s].mail : Within(m.move, more) \/ m.move \in denied'
             /\ denied' = denied \cup {m.move : m \in no}
             /\ handled' \subseteq handled \cup Ids(runs[s].mail)
             /\ runs[s].at = Keeper /\ runs[s].pc = "apply"
  BY ApplyFacts DEF Tidy, Orderly, SoundNow
<1>2. UNCHANGED <<boxes, pushes, sent>>
  BY DEF Apply
<1> DEFINE copy == [log |-> runs[s].snap.log \o more, push |-> runs[s].snap.push]
<1>3. copy.log = runs[s].snap.log \o more /\ runs[s].snap.log \in MailLogs
  BY RunTypes DEF Tidy, Orderly, SoundNow, Sound
<1>4. Becomes(s, Keeper, runs[s].page, "put", runs[s].mail, runs[s].known, copy, runs[s].done)
  BY <1>1
<1>5. \A m \in runs[s].mail : Within(m.move, copy.log) \/ m.move \in denied'
  <2> HIDE DEF copy
  <2>1. \A move : Within(move, more) => Within(move, copy.log)
    BY <1>3, ManyMore
  <2> QED BY <1>1, <2>1
<1> HIDE DEF copy
<1>6. boxes'[Keeper] \subseteq boxes[Keeper]
  BY <1>2
<1>7. OneLetter'
  <2>1. \A b \in boxes[Keeper] : \A m \in runs[s].mail : m.id = b.id => m.move = b.move
    BY <1>1 DEF Tidy, OneLetter
  <2>2. \A p \in pushes' : p.to = Keeper => \E q \in pushes : q.to = Keeper /\ q.m = p.m
    BY <1>2
  <2> QED BY <1>4, <1>6, <2>1, <2>2, OneLetterRun DEF Tidy
<1>8. ASSUME Kept PROVE Kept'
  <2>1. Mine' = Mine
    BY <1>2, MineSame
  <2>2. Full /\ denied \subseteq denied'
    BY <1>1, <1>8 DEF Tidy, Full
  <2>3. HostRun(s) /\ {} \in SUBSET runs[s].mail /\ Ids({}) = {}
    BY <1>1 DEF HostRun, Ids
  <2>4. \A b \in boxes'[Keeper] : b.id \in runs[s].done => MoveSettledNext(b.move)
    <3>1. \A b \in boxes'[Keeper] : b.id \in runs[s].done => MoveSettled(b.move)
      BY <1>2, <1>8, <2>3 DEF Kept, RunKept
    <3> QED BY <2>2, <3>1, SettledStays DEF Tidy, Further, MoveSettledNext
  <2>5. ASSUME NEW b \in boxes'[Keeper], b.id \in handled', b.id \notin handled
        PROVE  SoonNext(b.move)
    <3>1. PICK m \in runs[s].mail : m.id = b.id
      BY <1>1, <2>5 DEF Ids
    <3>2. m.move = b.move
      BY <1>1, <1>2, <3>1 DEF Tidy, OneLetter
    <3>3. runs'[s].pc = "put" /\ runs'[s].mail = runs[s].mail
      BY <1>4 DEF Becomes
    <3> QED BY <3>1, <3>2, <3>3 DEF SoonNext
  <2>6. \A b \in boxes[Keeper] : b \notin boxes'[Keeper] => MoveSettledNext(b.move)
    BY <1>2
  <2> QED BY <1>1, <1>4, <1>5, <1>6, <2>1, <2>2, <2>4, <2>5, <2>6, KeptRun DEF Further
<1> QED BY <1>7, <1>8 DEF TidyNext

LEMMA MarkTidy ==
    ASSUME Tidy, Further, NEW s \in RunIds, Mark(s)
    PROVE  TidyNext
<1>1. /\ Becomes(s, Keeper, runs[s].page, "ack", runs[s].mail, runs[s].known,
                 runs[s].snap, runs[s].done)
      /\ handled' = handled \cup runs[s].done /\ runs[s].at = Keeper /\ runs[s].pc = "mark"
  BY MarkFacts DEF Tidy, Orderly, SoundNow
<1>2. UNCHANGED <<boxes, pushes, saved, sent, denied>>
  BY DEF Mark
<1>3. OneLetter'
  BY <1>1, <1>2, OneLetterRun DEF Tidy, OneLetter
<1>4. ASSUME Kept PROVE Kept'
  <2>1. Mine' = Mine
    BY <1>2, MineSame
  <2>2. boxes'[Keeper] \subseteq boxes[Keeper] /\ Full /\ denied \subseteq denied'
    BY <1>2, <1>4 DEF Tidy, Full
  <2>3. \A b \in boxes'[Keeper] : b.id \in runs[s].done => MoveSettledNext(b.move)
    BY <1>1, <1>2, <1>4 DEF Kept, RunKept, HostRun, MoveSettled, MoveSettledNext
  <2>4. \A b \in boxes'[Keeper] : b.id \in handled' /\ b.id \notin handled => MoveSettledNext(b.move)
    BY <1>1, <2>3
  <2> QED BY <1>1, <1>2, <2>1, <2>2, <2>3, <2>4, KeptRun DEF Further
<1> QED BY <1>3, <1>4 DEF TidyNext

LEMMA PutCopyTidy ==
    ASSUME Tidy, Further, NEW s \in RunIds, PutCopy(s)
    PROVE  TidyNext
<1>1. /\ Becomes(s, Keeper, runs[s].page, "mail", runs[s].mail, runs[s].known,
                 runs[s].snap, runs[s].done)
      /\ saved' = [saved EXCEPT ![Keeper] = runs[s].snap]
      /\ runs[s].at = Keeper /\ runs[s].pc = "put"
  BY PutCopyFacts DEF Tidy, Orderly, SoundNow
<1>2. UNCHANGED <<boxes, pushes, handled, sent, denied>>
  BY DEF PutCopy
<1>3. OneLetter'
  BY <1>1, <1>2, OneLetterRun DEF Tidy, OneLetter
<1>4. ASSUME Kept PROVE Kept'
  <2>1. Mine' = Mine
    BY <1>2, MineSame
  <2>2. saved'[Keeper].log = runs[s].snap.log
    BY <1>1, Keepers DEF Tidy, Orderly, SoundNow, Sound, MailTypes
  <2>3. \A m \in runs[s].mail : MoveSettled(m.move)'
    BY <1>1, <1>2, <1>4, <2>2 DEF Kept, RunKept, MoveSettled
  <2>4. \A move : MoveSettled(move) => MoveSettled(move)'
    <3>1. denied \subseteq denied'
      BY <1>2
    <3> QED BY <3>1, SettledStays DEF Tidy, Further, MoveSettled
  <2>5. \A move : Soon(move) => MoveSettled(move)'
    <3> TAKE move
    <3> HAVE Soon(move)
    <3>1. PICK t \in RunIds : runs[t].pc = "put" /\ \E m \in runs[t].mail : m.move = move
      BY DEF Soon
    <3>2. runs[t].at = Keeper
      BY <3>1 DEF Tidy, Orderly, SoundNow, Sound, MailShapes, RunShape, OnKeeper
    <3>3. t = s
      BY <1>1, <3>1, <3>2 DEF HostRun, Tidy, Orderly, Alone
    <3> QED BY <2>3, <3>1, <3>3
  <2>6. /\ \A t \in RunIds : t # s => runs'[t] = runs[t]
        /\ runs'[s].pc = "mail" /\ runs'[s].mail = runs[s].mail /\ runs'[s].done = runs[s].done
    BY <1>1 DEF Becomes
  <2>7. ASSUME NEW t \in RunIds PROVE RunKept(t)'
    <3>1. RunKept(t) /\ (HostRun(t)' => HostRun(t))
      BY <1>1, <1>4, <2>6 DEF Kept, HostRun
    <3>2. runs'[t].done = runs[t].done
      BY <2>6
    <3>3. HostRun(t)' => \A b \in boxes'[Keeper] : b.id \in runs'[t].done => MoveSettled(b.move)'
      BY <1>2, <2>4, <3>1, <3>2 DEF RunKept
    <3>4. runs'[t].pc = "mail" => \A m \in runs'[t].mail : MoveSettled(m.move)'
      <4>1. CASE t = s
        BY <2>3, <2>6, <4>1
      <4>2. CASE t # s
        BY <2>4, <2>6, <3>1, <4>2 DEF RunKept
      <4> QED BY <4>1, <4>2
    <3>5. runs'[t].pc = "put" =>
            \A m \in runs'[t].mail : Within(m.move, runs'[t].snap.log) \/ m.move \in denied'
      <4>1. CASE t = s
        BY <2>6, <4>1
      <4>2. CASE t # s
        BY <1>2, <2>6, <3>1, <4>2 DEF RunKept
      <4> QED BY <4>1, <4>2
    <3> QED BY <3>3, <3>4, <3>5 DEF RunKept
  <2>8. MarksKept'
    BY <1>2, <1>4, <2>4, <2>5 DEF Kept, MarksKept
  <2>9. \A move \in Mine' : MoveKept(move)'
    <3>1. \A move : Waiting(move) => Waiting(move)'
      BY <1>2 DEF Waiting
    <3> QED BY <1>4, <2>1, <2>4, <2>5, <3>1 DEF Kept, MoveKept
  <2> QED BY <2>7, <2>8, <2>9 DEF Kept
<1> QED BY <1>3, <1>4 DEF TidyNext

LEMMA MailViewsTidy ==
    ASSUME Tidy, Further, NEW s \in RunIds, MailViews(s)
    PROVE  TidyNext
<1>1. runs[s].at = Keeper /\ runs[s].pc = "mail" /\ ((\E g \in Guests : MailedTo(s, g)) \/ Fail(s))
  BY MailViewsFacts DEF Tidy, Orderly, SoundNow
<1>2. UNCHANGED <<saved, handled, sent, denied>>
  BY DEF MailViews
<1>3. ASSUME NEW g \in Guests, MailedTo(s, g) PROVE TidyNext
  <2>1. PICK pc \in {"mail", "ack"} :
          Becomes(s, Keeper, runs[s].page, pc, runs[s].mail, runs[s].known, runs[s].snap,
                  runs[s].done \cup Ids(runs[s].mail))
    BY <1>3 DEF MailedTo
  <2>2. /\ boxes'[Keeper] = boxes[Keeper]
        /\ \A p \in pushes' : p.to = Keeper => \E q \in pushes : q.to = Keeper /\ q.m = p.m
    BY <1>3, SentAway DEF MailedTo
  <2>3. \A b \in boxes[Keeper] : \A m \in runs[s].mail : m.id = b.id => m.move = b.move
    BY <1>1 DEF Tidy, OneLetter
  <2>4. boxes'[Keeper] \subseteq boxes[Keeper]
    BY <2>2
  <2>5. OneLetter'
    BY <2>1, <2>2, <2>3, <2>4, OneLetterRun DEF Tidy
  <2>6. ASSUME Kept PROVE Kept'
    <3>1. Mine' = Mine
      BY <1>2, MineSame
    <3>2. Full /\ denied \subseteq denied'
      BY <1>2, <2>6 DEF Tidy, Full
    <3>3. \A m \in runs[s].mail : MoveSettledNext(m.move)
      BY <1>1, <1>2, <2>6 DEF Kept, RunKept, MoveSettled, MoveSettledNext
    <3>4. HostRun(s) /\ runs[s].mail \in SUBSET runs[s].mail
      BY <1>1 DEF HostRun
    <3>5. \A b \in boxes'[Keeper] : b.id \in runs[s].done \cup Ids(runs[s].mail) => MoveSettledNext(b.move)
      BY <2>4, <2>6, <3>2, <3>3, <3>4, DidMore
    <3> QED BY <1>1, <1>2, <2>1, <2>2, <2>4, <3>1, <3>2, <3>3, <3>5, KeptRun DEF Further
  <2> QED BY <2>5, <2>6 DEF TidyNext
<1> QED BY <1>1, <1>2, <1>3, FailTidy

LEMMA AckTidy ==
    ASSUME Tidy, Further, NEW s \in RunIds, Ack(s)
    PROVE  TidyNext
<1>1. UNCHANGED <<saved, handled, sent, denied>>
  BY DEF Ack
<1>2. runs[s].pc = "ack" /\ runs[s].at \in Mailed /\ Keeper \in Mailed
  BY AckFacts, RunAt, Keepers DEF Tidy, Orderly, SoundNow
<1>3. CASE /\ Ended(s) /\ UNCHANGED <<post, pushes, posted>>
           /\ boxes' \in [Mailed -> SUBSET Letters]
           /\ \A d \in Mailed : d # runs[s].at => boxes'[d] = boxes[d]
           /\ boxes'[runs[s].at] = {m \in boxes[runs[s].at] : m.id \notin runs[s].done}
  <2>1. boxes'[Keeper] \subseteq boxes[Keeper]
    BY <1>2, <1>3
  <2>2. ASSUME Kept, NEW b \in boxes[Keeper], b \notin boxes'[Keeper] PROVE MoveSettledNext(b.move)
    <3>1. HostRun(s) /\ b.id \in runs[s].done
      BY <1>2, <1>3, <2>2 DEF HostRun
    <3>2. MoveSettled(b.move)
      BY <2>2, <3>1 DEF Kept, RunKept
    <3> QED BY <1>1, <3>2 DEF MoveSettled, MoveSettledNext
  <2> QED BY <1>1, <1>2, <1>3, <2>1, <2>2, EndTidy DEF TidyNext
<1>4. CASE /\ Becomes(s, runs[s].at, runs[s].page, "open", boxes[runs[s].at], << >>, Empty, {})
           /\ UNCHANGED <<post, boxes, pushes, posted>>
  <2>1. PICK done : done = {} /\ Becomes(s, runs[s].at, runs[s].page, "open", boxes[runs[s].at], << >>, Empty, done)
    BY <1>4
  <2>2. runs[s].at = Keeper =>
          \A b \in boxes[Keeper] : \A m \in boxes[runs[s].at] : m.id = b.id => m.move = b.move
    BY <1>2 DEF Tidy, Orderly, SoundNow, Sound, MailShapes, BoxShape
  <2>3. boxes'[Keeper] \subseteq boxes[Keeper]
        /\ \A p \in pushes' : p.to = Keeper => \E q \in pushes : q.to = Keeper /\ q.m = p.m
    BY <1>4
  <2>4. OneLetter'
    BY <2>1, <2>2, <2>3, OneLetterRun DEF Tidy
  <2>5. ASSUME Kept PROVE Kept'
    <3>1. Mine' = Mine
      BY <1>1, MineSame
    <3>2. Full /\ denied \subseteq denied'
      BY <1>1, <2>5 DEF Tidy, Full
    <3> QED BY <1>1, <1>2, <1>4, <2>1, <2>3, <3>1, <3>2, KeptRun DEF Further
  <2> QED BY <2>4, <2>5 DEF TidyNext
<1>5. CASE Ended(s) /\ UNCHANGED <<post, boxes, pushes, posted>>
  <2>1. boxes'[Keeper] \subseteq boxes[Keeper]
        /\ \A b \in boxes[Keeper] : b \notin boxes'[Keeper] => MoveSettledNext(b.move)
    BY <1>5
  <2> QED BY <1>1, <1>2, <1>5, <2>1, EndTidy DEF TidyNext
<1>6. CASE Fail(s)
  BY <1>1, <1>2, <1>6, FailTidy
<1> QED BY <1>3, <1>4, <1>5, <1>6, AckFacts DEF Tidy, Orderly, SoundNow

(* A guest's move: a letter no one has seen, with a move no one had mailed.   *)
LEMMA GuestMoveTidy ==
    ASSUME Tidy, Further, NEW g \in Guests, GuestMove(g)
    PROVE  TidyNext
<1>1. PICK m \in Letters :
             /\ m.id = posted + 1 /\ m.kind = "cmd"
             /\ m.move = <<g, sent[g] + 1>> /\ SentTo(Keeper, m)
             /\ sent' = [sent EXCEPT ![g] = sent[g] + 1]
  BY GuestMoveFacts DEF Tidy, Orderly, SoundNow, Sound
<1>2. UNCHANGED <<post, saved, handled, runs, live, denied>>
  BY DEF GuestMove
<1>3. /\ m \in boxes'[Keeper] /\ boxes[Keeper] \subseteq boxes'[Keeper]
      /\ \A o \in boxes'[Keeper] : o \in boxes[Keeper] \/ o = m
      /\ \A p \in pushes' : p \in pushes \/ (p.m.id = m.id /\ p.m.move = m.move)
  BY <1>1 DEF SentTo, Copied
<1>4. posted \in Nat /\ sent \in [Guests -> Nat]
  BY DEF Tidy, Orderly, SoundNow, Sound, MailTypes
<1>5. /\ \A b \in boxes[Keeper] : b.id \in 1 .. posted
      /\ \A p \in pushes : p.m.id \in 1 .. posted
      /\ \A s \in RunIds : runs[s].done \subseteq 1 .. posted
      /\ \A s \in RunIds : \A o \in runs[s].mail : o.id \in 1 .. posted
      /\ handled \subseteq 1 .. posted
  BY Keepers DEF Tidy, Orderly, SoundNow, Sound, MailShapes, BoxShape, PushShape, RunShape, LetterTo,
     LetterOf
<1>6. m.id \notin 1 .. posted
  BY <1>1, <1>4
<1>7. OneLetter'
  <2>1. ASSUME NEW b \in boxes'[Keeper], NEW p \in pushes', p.to = Keeper, p.m.id = b.id
        PROVE  p.m.move = b.move
    <3>1. CASE b \in boxes[Keeper] /\ p \in pushes
      BY <2>1, <3>1 DEF Tidy, OneLetter
    <3>2. CASE b \in boxes[Keeper] /\ p \notin pushes
      BY <1>3, <1>5, <1>6, <2>1, <3>2
    <3>3. CASE b = m
      BY <1>3, <1>5, <1>6, <2>1, <3>3
    <3> QED BY <1>3, <3>1, <3>2, <3>3
  <2>2. ASSUME NEW b \in boxes'[Keeper], NEW s \in RunIds, runs'[s].at = Keeper,
               NEW o \in runs'[s].mail, o.id = b.id
        PROVE  o.move = b.move
    <3>1. runs'[s] = runs[s]
      BY <1>2
    <3>2. b # m
      BY <1>5, <1>6, <2>2, <3>1
    <3> QED BY <1>3, <2>2, <3>1, <3>2 DEF Tidy, OneLetter
  <2> QED BY <2>1, <2>2 DEF OneLetter
<1>8. ASSUME Kept PROVE Kept'
  <2>1. \A move : (MoveSettled(move) => MoveSettled(move)') /\ (Soon(move) => Soon(move)')
    BY <1>2 DEF MoveSettled, Soon
  <2>2. \A move : Waiting(move) => Waiting(move)'
    BY <1>2, <1>3 DEF Waiting
  <2>3. Waiting(m.move)'
    BY <1>2, <1>3, <1>5, <1>6 DEF Waiting
  <2>4. \A move \in Mine' : move \in Mine \/ move = m.move
    <3> TAKE move \in Mine'
    <3>1. /\ move \in Guests \X (1 .. post.moves) /\ move[2] <= sent'[move[1]]
      BY <1>2 DEF Mine, MovesOf
    <3>2. PICK h \in Guests, k \in 1 .. post.moves : move = <<h, k>>
      BY <3>1
    <3>3. CASE h # g
      BY <1>1, <1>4, <3>1, <3>2, <3>3 DEF Mine, MovesOf
    <3>4. CASE h = g
      <4>1. k <= sent[g] + 1 /\ k \in Int
        BY <1>1, <1>4, <3>1, <3>2, <3>4
      <4>2. k <= sent[g] \/ k = sent[g] + 1
        BY <1>4, <4>1
      <4> QED BY <1>1, <3>1, <3>2, <3>4, <4>2 DEF Mine, MovesOf
    <3> QED BY <3>3, <3>4
  <2>5. ASSUME NEW t \in RunIds PROVE RunKept(t)'
    <3>1. RunKept(t) /\ runs'[t] = runs[t] /\ (HostRun(t)' => HostRun(t))
      BY <1>2, <1>8 DEF Kept, HostRun
    <3>2. HostRun(t)' => \A b \in boxes'[Keeper] : b.id \in runs'[t].done => MoveSettled(b.move)'
      BY <1>3, <1>5, <1>6, <2>1, <3>1 DEF RunKept
    <3>3. runs'[t].pc = "mail" => \A o \in runs'[t].mail : MoveSettled(o.move)'
      BY <2>1, <3>1 DEF RunKept
    <3>4. runs'[t].pc = "put" =>
            \A o \in runs'[t].mail : Within(o.move, runs'[t].snap.log) \/ o.move \in denied'
      BY <1>2, <3>1 DEF RunKept
    <3> QED BY <3>2, <3>3, <3>4 DEF RunKept
  <2>6. MarksKept'
    BY <1>2, <1>3, <1>5, <1>6, <1>8, <2>1 DEF Kept, MarksKept
  <2>7. \A move \in Mine' : MoveKept(move)'
    BY <1>8, <2>1, <2>2, <2>3, <2>4 DEF Kept, MoveKept
  <2> QED BY <2>5, <2>6, <2>7 DEF Kept
<1> QED BY <1>7, <1>8 DEF TidyNext

LEMMA TidyStep ==
    ASSUME Tidy, SoundNow', [MailNext]_mailVars
    PROVE  OneLetter' /\ (Kept /\ post'.dies # "did" => Kept')
<1>1. OrderlyNext /\ PostKeeps
  BY OrderlyStep, PostStep DEF Tidy, Orderly
<1>2. Further
  BY <1>1 DEF Further, PostKeeps, SoundNow, Sound, MailTypes
<1>3. ASSUME NEW s \in RunIds, Die(s) PROVE OneLetter' /\ post'.dies = "did"
  BY <1>2, <1>3, DieTidy, DieFacts DEF Tidy, Orderly, SoundNow, Sound
<1>4. CASE MailNext
  BY <1>2, <1>3, <1>4, GuestMoveTidy, MailAbsentTidy, CheckTidy, OnPushTidy, OpenTidy, StoreViewTidy,
     MovesTidy, DeliverTidy, ApplyTidy, MarkTidy, PutCopyTidy, MailViewsTidy, AckTidy,
     TableTidy DEF MailNext, TidyNext
<1>5. CASE UNCHANGED mailVars
  <2>1. UNCHANGED <<boxes, pushes, runs, handled, denied, sent>>
    BY <1>5 DEF mailVars
  <2>2. OneLetter'
    BY <2>1, OneLetterSame DEF Tidy
  <2>3. Mine' = Mine
    BY <1>2, <2>1, MineSame
  <2>4. Kept => Kept'
    BY <1>2, <2>1, <2>3, KeptSame DEF Tidy, Full, Further
  <2> QED BY <2>2, <2>4
<1> QED BY <1>4, <1>5

-----------------------------------------------------------------------------
(* The invariant: shapes and types in every situation; with one run at a time on the
   host's device, every copy on the way to its copy; and what is mailed kept until
   the browser ends a run.                                                  *)
MailInv ==
    /\ SoundNow
    /\ Single => Alone /\ Leads /\ OneLetter
    /\ Single /\ post.dies # "did" => Kept

LEMMA MailBegins == MailInit => MailInv
<1> SUFFICES ASSUME MailInit PROVE MailInv
  OBVIOUS
<1>1. SoundNow
  BY SoundInit
<1>2. /\ boxes = [d \in Mailed |-> {}] /\ pushes = {} /\ handled = {}
      /\ saved = [d \in Mailed |-> [log |-> << >>, push |-> FALSE]]
      /\ runs = [s \in RunIds |-> NoRun]
      /\ live = [on |-> FALSE, mails |-> FALSE, log |-> << >>, mailed |-> [g \in Guests |-> -1]]
      /\ sent = [g \in Guests |-> 0]
  BY DEF MailInit
<1>3. /\ \A d \in Mailed : boxes[d] = {} /\ saved[d].log = << >>
      /\ boxes[Keeper] = {} /\ saved[Keeper].log = << >> /\ \A g \in Guests : saved[g].log = << >>
  BY <1>2, Keepers
<1>4. \A s \in RunIds : runs[s].pc = "off" /\ runs[s].mail = {} /\ runs[s].known = << >>
  BY <1>2 DEF NoRun
<1>5. Before(<< >>, << >>)
  BY NoMoves
<1>6. Alone
  BY <1>2, <1>4 DEF Alone, HostRun
<1>7. Leads
  BY <1>2, <1>3, <1>4, <1>5 DEF Leads, BoxesBefore, RunsBefore, CopiesBefore
<1>8. OneLetter
  BY <1>3 DEF OneLetter
<1>9. Kept
  <2>1. \A s \in RunIds : RunKept(s)
    BY <1>4 DEF RunKept, HostRun
  <2>2. MarksKept
    BY <1>3 DEF MarksKept
  <2>3. Mine = {}
    <3>1. \A move \in MovesOf : move[1] \in Guests /\ move[2] \in Int /\ move[2] >= 1
      BY <1>1 DEF MovesOf, SoundNow, Sound, MailTypes, MailConf
    <3> QED BY <1>2, <3>1 DEF Mine
  <2> QED BY <2>1, <2>2, <2>3 DEF Kept
<1> QED BY <1>1, <1>6, <1>7, <1>8, <1>9 DEF MailInv

LEMMA MailGoesOn == MailInv /\ [MailNext]_mailVars => MailInv'
<1> SUFFICES ASSUME MailInv, [MailNext]_mailVars PROVE MailInv'
  OBVIOUS
<1>1. SoundNow /\ SoundNow' /\ PostKeeps
  BY SoundStep, PostStep DEF MailInv
<1>2. Single' => Single
  BY <1>1 DEF Single, PostKeeps
<1>3. ASSUME Single' PROVE Alone' /\ Leads' /\ OneLetter' /\ (Kept /\ post'.dies # "did" => Kept')
  <2>1. Tidy /\ Orderly
    BY <1>2, <1>3 DEF MailInv, Tidy, Orderly
  <2>2. OrderlyNext
    BY <2>1, OrderlyStep
  <2> QED BY <1>1, <2>1, <2>2, TidyStep DEF OrderlyNext
<1>4. post'.dies # "did" => post.dies # "did"
  BY <1>1 DEF PostKeeps
<1> QED BY <1>1, <1>2, <1>3, <1>4 DEF MailInv

(* In every situation the mailbox keeps its shapes; with one run at a time on the
   host's device (inbox.ts, the lock around processInbox) every copy there is leads
   to the copy of that device, and what was mailed is kept until a run is ended. *)
THEOREM MailKept == MailSpec => []MailInv
<1>1. MailInit => MailInv
  BY MailBegins
<1>2. MailInv /\ [MailNext]_mailVars => MailInv'
  BY MailGoesOn
<1> QED BY <1>1, <1>2, PTL DEF MailSpec

(* Types: the letters of a mailbox have ids of their own, of those given; every
   move that is marked or was refused had been mailed.                      *)
THEOREM MailTyped == MailSpec => []MailTypeOK
<1>1. MailInv => MailTypeOK
  <2> SUFFICES ASSUME MailInv PROVE MailTypeOK
    OBVIOUS
  <2>1. MailTypes /\ MailShapes
    BY DEF MailInv, SoundNow, Sound
  <2>2. \A d \in Mailed : \A m, o \in boxes[d] : m.id \in 1 .. posted /\ (m.id = o.id => m = o)
    BY <2>1 DEF MailShapes, BoxShape, LetterTo, LetterOf
  <2>3. \A p \in pushes : p.to \in Mailed /\ p.m.id \in 1 .. posted
    BY <2>1 DEF MailTypes, MailShapes, PushShape, LetterTo, LetterOf
  <2>4. \A g \in Guests : sent[g] \in 0 .. post.moves
    BY <2>1 DEF MailTypes, MailShapes, MailConf
  <2>5. denied \subseteq MovesOf /\ handled \subseteq 1 .. posted /\ ~saved[Keeper].push
    BY <2>1 DEF MailShapes, Mine
  <2> QED BY <2>2, <2>3, <2>4, <2>5 DEF MailTypeOK
<1> QED BY <1>1, MailKept, PTL

(* What a guest's device saves is a position the table was in (inbox.ts
   processMessages, applyDelta): however late, doubled or lost the pushes.  *)
THEOREM PositionsTrue == MailSpec => []CopiesTrue
<1>1. MailInv => CopiesTrue
  <2> SUFFICES ASSUME MailInv, Keeper \notin post.overlap, NEW g \in Guests
               PROVE  IsPrefix(saved[g].log, saved[Keeper].log)
    BY DEF CopiesTrue
  <2>1. Before(saved[g].log, saved[Keeper].log)
    BY DEF MailInv, Single, Leads, CopiesBefore
  <2>2. saved[g].log \in MailLogs /\ saved[Keeper].log \in MailLogs
    BY Keepers DEF MailInv, SoundNow, Sound, MailTypes, Copies
  <2> QED BY <2>1, <2>2, BeforePrefix
<1> QED BY <1>1, MailKept, PTL

(* No move that was mailed is lost (inbox.ts processMessages, handled.ts, apply.ts):
   it is in the copy of the host's device, was refused, waits in the mailbox, or is
   about to be put into the copy.                                           *)
THEOREM MovesNotLost == MailSpec => []MovesKept
<1>1. MailInv => MovesKept
  <2> SUFFICES ASSUME MailInv, post.dies # "did", Keeper \notin post.overlap, NEW move \in Mine
               PROVE  OnTable(move) \/ move \in denied \/ Waiting(move) \/ InHand(move)
    BY DEF MovesKept
  <2>1. MoveKept(move)
    BY DEF MailInv, Single, Kept
  <2>2. ASSUME Soon(move) PROVE InHand(move)
    <3>1. PICK s \in RunIds : runs[s].pc = "put" /\ \E m \in runs[s].mail : m.move = move
      BY <2>2 DEF Soon
    <3>2. runs[s].at = Keeper
      BY <3>1 DEF MailInv, SoundNow, Sound, MailShapes, RunShape, OnKeeper
    <3> QED BY <3>1, <3>2 DEF InHand, RunsAt
  <2> QED BY <2>1, <2>2 DEF MoveKept, MoveSettled, OnTable, Within
<1> QED BY <1>1, MailKept, PTL
=============================================================================
