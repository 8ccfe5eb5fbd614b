------------------------------ MODULE Dealers ------------------------------
(***************************************************************************)
(* The dealer process: packages/dealer.  One process hosts many tables and   *)
(* takes calls from the console: create, resume, stop, remove.  A table is  *)
(* saved after every action; tables.json says which tables are running, so  *)
(* that they can be resumed when the process died.  Everything happens in   *)
(* steps at the awaits, and the process may die between any two of them.    *)
(*                                                                         *)
(* A table is its seq.  The console makes one call for a table at a time.   *)
(***************************************************************************)
EXTENDS Integers, Sequences, FiniteSets, SequencesExt

CONSTANTS
    TableIds,
    Slots,          \* calls that may be under way at a time
    DealerConfs     \* the situations considered, a subset of DealerConf

(* overlap: tables.json may be written by two at a time.  Bounds: calls; actions
   at the tables; hosts the transport refuses; times the process dies.      *)
DealerConf == [overlap : BOOLEAN, calls : Nat, actions : Nat, refusals : Nat, deaths : Nat]
NoSlot == 0                      \* nobody waits
ASSUME DealerAssumption ==
    TableIds # {} /\ NoSlot \notin Slots /\ DealerConfs \subseteq DealerConf

VARIABLES
    serve,     \* the situation, its bounds being used up
    alive,     \* the process is up
    entries,   \* DealerManager.registry: the status of every table
    dealers,   \* all that were created, in order
    managed,   \* DealerManager.running: the dealer of a table, 0 when none
    requests,  \* the calls under way
    writes,    \* the writes of tables.json under way
    files      \* what is on disk

dealerVars == <<serve, alive, entries, dealers, managed, requests, writes, files>>

Torn == [t \in {} |-> "none"]    \* a file that does not parse
NoFile == [t \in TableIds |-> "absent"]
Absent == -1                     \* a table with no file

Idle == [op |-> "idle", table |-> CHOOSE t \in TableIds : TRUE, pc |-> "done", dealer |-> 0,
         todo |-> {}, purge |-> FALSE]
Dealer(t, seq) == [table |-> t, seq |-> seq, up |-> FALSE, heard |-> TRUE, saves |-> << >>]
Spends(bound) == serve[bound] > 0 /\ serve' = [serve EXCEPT ![bound] = @ - 1]

About(t) == {s \in Slots : requests[s].op # "idle" /\ t \in {requests[s].table} \cup requests[s].todo}
Hosted(t) == {d \in DOMAIN dealers : dealers[d].up /\ dealers[d].table = t}

-----------------------------------------------------------------------------
(* tables.json: written beside itself, under one name, and renamed. *)

(* What a writer wrote to may be renamed by another; to names what it is now. *)
Writer(s) == [by |-> s, pc |-> "open", to |-> "tmp", content |-> Torn]
MayWrite == serve.overlap \/ writes = << >>
Begin(s) == writes' = Append(writes, Writer(s))

Put(to, content) ==
    files' = CASE to = "tmp"  -> [files EXCEPT !.tmp = content]
               [] to = "json" -> [files EXCEPT !.json = content]
               [] OTHER       -> files

(* writeFile opens the file, which empties it, and writes the registry as it was. *)
WriteOpens(i) ==
    /\ writes[i].pc = "open"
    /\ Put("tmp", Torn)
    /\ writes' = [writes EXCEPT ![i] = [@ EXCEPT !.pc = "write", !.content = entries]]
    /\ UNCHANGED <<serve, alive, entries, dealers, managed, requests>>
Written(i) ==
    /\ writes[i].pc = "write"
    /\ Put(writes[i].to, writes[i].content)
    /\ writes' = [writes EXCEPT ![i] = [@ EXCEPT !.pc = "rename"]]
    /\ UNCHANGED <<serve, alive, entries, dealers, managed, requests>>

(* The call that waits goes on, or throws; nobody waits for the write of an
   action (touch), and its failure ends the process.                        *)
RenamedTo(to) == CASE to = "tmp" -> "json" [] OTHER -> "nothing"
Renames(i) ==
    LET w == writes[i]
        rest == RemoveAt(writes, i)
        after(pc) == IF w.by = NoSlot THEN UNCHANGED requests
                     ELSE requests' = [requests EXCEPT ![w.by].pc = pc]
    IN  /\ w.pc = "rename"
        /\ IF files.tmp # NoFile
           THEN /\ files' = [files EXCEPT !.json = files.tmp, !.tmp = NoFile]
                /\ writes' = [j \in DOMAIN rest |-> [rest[j] EXCEPT !.to = RenamedTo(@)]]
                /\ after("wrote") /\ UNCHANGED alive
           ELSE /\ writes' = rest
                /\ after("failed")
                /\ alive' = (w.by # NoSlot)
                /\ UNCHANGED files
        /\ UNCHANGED <<serve, entries, dealers, managed>>

-----------------------------------------------------------------------------
(* Dealers. *)

Persisted(d) == [d EXCEPT !.saves = Append(@, d.seq)]

(* Mutation: saves do not wait for each other.                              *)
SavesAny(d) ==
    \E i \in DOMAIN dealers[d].saves :
        /\ files' = [files EXCEPT !.tables[dealers[d].table] = dealers[d].saves[i]]
        /\ dealers' = [dealers EXCEPT ![d].saves = RemoveAt(@, i)]
        /\ UNCHANGED <<serve, alive, entries, managed, requests, writes>>

(* persist: saves wait for each other.                                      *)
Saves(d) ==
    /\ dealers[d].saves # << >>
    /\ files' = [files EXCEPT !.tables[dealers[d].table] = Head(dealers[d].saves)]
    /\ dealers' = [dealers EXCEPT ![d].saves = Tail(@)]
    /\ UNCHANGED <<serve, alive, entries, managed, requests, writes>>

Acted(d) == Persisted([d EXCEPT !.seq = @ + 1])

(* An action at a table: saved, and told to the manager, which touches the entry
   and writes the registry.  The dealer's own client plays from when it is
   attached, also where the table is not hosted yet or its start was refused. *)
DealerActs(d) ==
    LET t == dealers[d].table
        touched == entries[t] # "none"
    IN  /\ managed[t] = d /\ dealers[d].heard /\ Spends("actions")
        /\ touched => MayWrite
        /\ dealers' = [dealers EXCEPT ![d] = Acted(@)]
        /\ IF touched THEN Begin(NoSlot) ELSE UNCHANGED writes
        /\ UNCHANGED <<alive, entries, managed, requests, files>>

-----------------------------------------------------------------------------
(* Calls. *)

(* create makes a table that never was; the others are about one there is.  *)
Calls(s, op, t) ==
    /\ requests[s].op = "idle" /\ About(t) = {} /\ Spends("calls")
    /\ op = "create" => entries[t] = "none" /\ files.tables[t] = Absent
                        /\ \A d \in DOMAIN dealers : dealers[d].table # t
    /\ \E purge \in BOOLEAN :
          /\ purge => op = "remove"
          /\ requests' = [requests EXCEPT ![s] = [Idle EXCEPT !.op = op, !.table = t,
                                                      !.pc = "called", !.purge = purge]]
    /\ UNCHANGED <<alive, entries, dealers, managed, writes, files>>

Goes(s, pc) == requests' = [requests EXCEPT ![s].pc = pc]
Makers(s, pc) == requests[s].op \in {"create", "resume", "resumeAll"} /\ requests[s].pc = pc

(* resume: the saved table, unless it runs.                                 *)
Loads(s) ==
    LET t == requests[s].table
    IN  /\ requests[s].op \in {"resume", "resumeAll"} /\ requests[s].pc = "called"
        /\ Goes(s, IF files.tables[t] = Absent THEN "failed"
                   ELSE IF managed[t] # 0 THEN "done" ELSE "make")
        /\ UNCHANGED <<serve, alive, entries, dealers, managed, writes, files>>

(* Mutation: what the entry says is not written.                            *)
RegistersLater(s, d) ==
    /\ requests' = [requests EXCEPT ![s].pc = "wrote", ![s].dealer = d]
    /\ UNCHANGED writes
Registers(s, d) ==
    /\ requests' = [requests EXCEPT ![s].pc = "writing", ![s].dealer = d]
    /\ Begin(s)

(* createDealer, and the entry that says that it runs.                      *)
Makes(s) ==
    LET t == requests[s].table
        new == requests[s].op = "create"
    IN  /\ Makers(s, IF new THEN "called" ELSE "make") /\ MayWrite
        /\ dealers' = Append(dealers, Dealer(t, IF new THEN 0 ELSE files.tables[t]))
        /\ entries' = [entries EXCEPT ![t] = "running"]
        /\ Registers(s, Len(dealers'))
        /\ UNCHANGED <<serve, alive, managed, files>>

(* attach: from now on the manager has it, and it is hosted.                *)
Attaches(s) ==
    /\ Makers(s, "wrote")
    /\ managed' = [managed EXCEPT ![requests[s].table] = requests[s].dealer]
    /\ Goes(s, "start")
    /\ UNCHANGED <<serve, alive, entries, dealers, writes, files>>
Starts(s) ==
    LET d == requests[s].dealer
    IN  /\ requests[s].pc = "start"
        /\ \/ /\ dealers' = [dealers EXCEPT ![d] = Persisted([@ EXCEPT !.up = TRUE])]
              /\ Goes(s, "done") /\ UNCHANGED serve
           \/ Spends("refusals") /\ Goes(s, "failed") /\ UNCHANGED dealers
        /\ UNCHANGED <<alive, entries, managed, writes, files>>

(* dealer.stop, by stop or by close: it is saved a last time.               *)
Shut(d) == [Persisted(dealers[d]) EXCEPT !.up = FALSE, !.heard = FALSE]
Stops(s) ==
    LET t == requests[s].table
    IN  /\ requests[s].op = "stop" /\ requests[s].pc = "called"
        /\ IF managed[t] = 0 THEN Goes(s, "failed") /\ UNCHANGED dealers
           ELSE /\ dealers' = [dealers EXCEPT ![managed[t]] = Shut(managed[t])]
                /\ requests' = [requests EXCEPT ![s].pc = "saving", ![s].dealer = managed[t]]
        /\ UNCHANGED <<serve, alive, entries, managed, writes, files>>

IsSaved(d) == d \in DOMAIN dealers /\ dealers[d].saves = << >>
Stopped(s) ==
    LET t == requests[s].table
    IN  /\ requests[s].op = "stop" /\ requests[s].pc = "saving"
        /\ IsSaved(requests[s].dealer) /\ MayWrite
        /\ managed' = [managed EXCEPT ![t] = 0]
        /\ entries' = IF entries[t] = "none" THEN entries ELSE [entries EXCEPT ![t] = "stopped"]
        /\ Goes(s, "writing") /\ Begin(s)
        /\ UNCHANGED <<serve, alive, dealers, files>>

(* remove: the entry, and the file if it is to be purged.                   *)
Removes(s) ==
    LET t == requests[s].table
    IN  /\ requests[s].op = "remove" /\ requests[s].pc = "called"
        /\ IF managed[t] # 0 \/ (entries[t] = "none" /\ files.tables[t] = Absent)
           THEN Goes(s, "failed") /\ UNCHANGED <<entries, writes>>
           ELSE /\ MayWrite /\ entries' = [entries EXCEPT ![t] = "none"]
                /\ Goes(s, "writing") /\ Begin(s)
        /\ UNCHANGED <<serve, alive, dealers, managed, files>>
Purges(s) ==
    /\ requests[s].op = "remove" /\ requests[s].pc = "wrote"
    /\ files' = IF requests[s].purge THEN [files EXCEPT !.tables[requests[s].table] = Absent] ELSE files
    /\ Goes(s, "done")
    /\ UNCHANGED <<serve, alive, entries, dealers, managed, writes>>

(* A call returns or throws; resumeAll goes on with the next table, after marking
   one that failed, and writes the registry in the end.                     *)
Returns(s) ==
    LET j == requests[s]
    IN  /\ j.pc \in {"done", "failed"} \/ (j.op = "stop" /\ j.pc = "wrote")
        /\ j.op \in {"create", "resume", "stop", "remove"}
        /\ requests' = [requests EXCEPT ![s] = Idle]
        /\ UNCHANGED <<serve, alive, entries, dealers, managed, writes, files>>
OnTo(j, t) == [j EXCEPT !.table = t, !.todo = @ \ {t}, !.pc = "called"]
ResumesNext(s) ==
    LET j == requests[s]
    IN  /\ j.op = "resumeAll" /\ j.pc \in {"done", "failed"}
        /\ entries' = IF j.pc = "failed" THEN [entries EXCEPT ![j.table] = "stopped"] ELSE entries
        /\ \/ \E t \in j.todo :
                 requests' = [requests EXCEPT ![s] = OnTo(@, t)]
              /\ UNCHANGED writes
           \/ /\ j.todo = {} /\ MayWrite
              /\ requests' = [requests EXCEPT ![s] = Idle] /\ Begin(NoSlot)
        /\ UNCHANGED <<serve, alive, dealers, managed, files>>

-----------------------------------------------------------------------------
(* The process. *)

Dies ==
    /\ alive /\ Spends("deaths")
    /\ alive' = FALSE
    /\ UNCHANGED <<entries, dealers, managed, requests, writes, files>>

(* close: every table is saved and shut, none is marked as stopped.         *)
Closes ==
    /\ alive /\ Spends("deaths") /\ \A s \in Slots : requests[s].op = "idle"
    /\ alive' = FALSE
    /\ files' = [files EXCEPT !.tables =
          [t \in TableIds |-> IF managed[t] = 0 THEN @[t] ELSE dealers[managed[t]].seq]]
    /\ UNCHANGED <<entries, dealers, managed, requests, writes>>

(* open, which registers tables it finds, and resumeAll.                    *)
Found(t) == IF t \in DOMAIN files.json /\ files.json[t] # "none" THEN files.json[t]
            ELSE IF files.tables[t] # Absent THEN "stopped" ELSE "none"
Opens(s) ==
    LET all == {t \in TableIds : Found(t) = "running"}
    IN  /\ ~alive /\ alive' = TRUE
        /\ entries' = [t \in TableIds |-> Found(t)]
        /\ dealers' = << >> /\ writes' = << >>
        /\ managed' = [t \in TableIds |-> 0]
        /\ requests' = [r \in Slots |-> IF r # s \/ all = {} THEN Idle
                                    ELSE [Idle EXCEPT !.op = "resumeAll", !.todo = all]]
        /\ UNCHANGED <<serve, files>>

-----------------------------------------------------------------------------
DealerInit ==
    /\ serve \in DealerConfs
    /\ alive = TRUE /\ dealers = << >> /\ writes = << >>
    /\ entries = [t \in TableIds |-> "none"]
    /\ managed = [t \in TableIds |-> 0]
    /\ requests = [s \in Slots |-> Idle]
    /\ files = [json |-> [t \in TableIds |-> "none"], tmp |-> NoFile,
                tables |-> [t \in TableIds |-> Absent]]

DealerNext ==
    \/ /\ alive
       /\ \/ \E i \in DOMAIN writes : WriteOpens(i) \/ Written(i) \/ Renames(i)
          \/ \E d \in DOMAIN dealers : Saves(d) \/ DealerActs(d)
          \/ \E s \in Slots :
                \/ \E t \in TableIds, op \in {"create", "resume", "stop", "remove"} : Calls(s, op, t)
                \/ Loads(s) \/ Makes(s) \/ Attaches(s) \/ Starts(s)
                \/ Stops(s) \/ Stopped(s) \/ Removes(s) \/ Purges(s) \/ Returns(s) \/ ResumesNext(s)
    \/ Dies \/ Closes
    \/ \E s \in Slots : Opens(s)

DealerSpec == DealerInit /\ [][DealerNext]_dealerVars

-----------------------------------------------------------------------------
(* Properties. *)

DealerTypeOK ==
    /\ \A t \in TableIds : entries[t] \in {"none", "running", "stopped"}
                           /\ managed[t] \in 0 .. Len(dealers) /\ files.tables[t] >= Absent
    /\ \A t \in TableIds : managed[t] # 0 => dealers[managed[t]].table = t
    /\ \A d \in DOMAIN dealers : dealers[d].up => managed[dealers[d].table] = d

(* "dealer serve --resume-all brings back every table that was running when the
   process last stopped" (README.md): whenever the process dies, a table that is
   hosted and that no call is about can be resumed: tables.json says that it runs,
   and its saves are in its file, as far as they were made.  Not kept, when two
   writes of tables.json overlap, as those of two actions may.              *)
TablesComeBack ==
    \A t \in TableIds : \A d \in Hosted(t) :
        alive /\ About(t) = {} =>
            /\ t \in DOMAIN files.json /\ files.json[t] = "running"
            /\ dealers[d].saves = << >> => files.tables[t] = dealers[d].seq

(* "Stopped tables keep their saved state and resume under the same room code"
   (README.md): however a table is stopped, resumed and crashed, what was saved
   of it is never replaced by something older.                              *)
SavedForward ==
    [][\A t \in TableIds : files'.tables[t] < files.tables[t] => files'.tables[t] = Absent]_dealerVars
=============================================================================
