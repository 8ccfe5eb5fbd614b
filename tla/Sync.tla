-------------------------------- MODULE Sync --------------------------------
(***************************************************************************)
(* The devices of one player keep each other up to date: SyncManager and   *)
(* the protocol of apps/web/src/session/sync.  The device that gets the    *)
(* player's address is the hub, the others join it; each pair proves it    *)
(* holds the key, compares manifests and sends what the other lacks, and   *)
(* pushes what changes from then on.                                       *)
(*                                                                         *)
(* One document, a match copied to every device, stands for all: a copy is *)
(* the number of its version.  A message is handled in one step, except    *)
(* that the copy is read and written with an await between (applyData).    *)
(***************************************************************************)
EXTENDS Integers, Sequences, FiniteSets, FiniteSetsExt, SequencesExt

CONSTANTS
    Devices,
    NoDevice,     \* not a device
    SyncConfs     \* the situations considered, a subset of SyncConf

(* plays: the devices the match is played on.  cap: MAX_SYNC_PEERS.  Bounds:
   versions, connections that break, addresses that are lost, devices that stop. *)
SyncConf == [devices : SUBSET Devices, plays : SUBSET Devices, cap : Nat, versions : Nat,
             breaks : Nat, losses : Nat, stops : Nat]
ASSUME SyncConfsAssumption == SyncConfs \subseteq SyncConf /\ NoDevice \notin Devices

VARIABLES
    setup,    \* the situation, its bounds being used up
    copy,     \* the version of the match each device has, 0 for none
    running,  \* the devices that sync
    hubs,     \* those that host (listener is set)
    address,  \* who the address leads to
    loop,     \* what the connection loop of a device does
    peer,     \* peer[d][e]: how far d is with its peer e
    net,      \* net[d][e]: the messages under way from d to e
    push,     \* the devices with a change to push (pending)
    jobs,     \* data that are being applied at each device
    seen      \* for the properties: the newest version each device had, and
              \* whether something overlapped with data being applied

syncVars == <<setup, copy, running, hubs, address, loop, peer, net, push, jobs, seen>>

-----------------------------------------------------------------------------
(* Links. *)

Message(kind, version) == [kind |-> kind, version |-> version]
Closed == Message("closed", 0)

PeersOf(d)  == {e \in Devices : peer[d][e] # "none"}
AuthedBy(d) == {e \in Devices : peer[d][e] = "authed"}
Linked(d, e)  == /\ peer[d][e] # "none" /\ peer[e][d] # "none"
               /\ ~Contains(net[d][e], Closed) /\ ~Contains(net[e][d], Closed)

(* What is under way once d sent m to each of S, in channels n.             *)
Sent(n, d, S, m) ==
    [n EXCEPT ![d] = [e \in Devices |-> IF e \in S /\ Linked(d, e) THEN Append(@[e], m) ELSE @[e]]]

(* Mutation: the handlers of a peer's messages do not wait for each other. *)
DueAny(q) == DOMAIN q

(* Messages of a peer are handled strictly in order.                        *)
Due(q) == DOMAIN q \cap {1}

(* detach: d forgets its peer e and closes the connection, saying bye or not;
   a client without hub looks for one again, unless it closed on purpose.   *)
Orphan(js, e) == {IF j.from = e THEN [j EXCEPT !.from = NoDevice] ELSE j : j \in js}
Detach(d, e, closing) ==
    /\ peer' = [peer EXCEPT ![d][e] = "none"]
    /\ net' = [net EXCEPT ![e][d] = << >>,
                          ![d][e] = IF peer[e][d] = "none" THEN << >>
                                    ELSE IF ~Linked(d, e) THEN @
                                    ELSE IF closing THEN @ \o <<Message("bye", 0), Closed>>
                                    ELSE Append(@, Closed)]
    /\ jobs' = [jobs EXCEPT ![d] = Orphan(@, e)]
    /\ loop' = IF closing \/ d \in hubs \/ d \notin running THEN loop
               ELSE [loop EXCEPT ![d] = "retry"]

-----------------------------------------------------------------------------
(* The connection loop. *)

Use(bound) == setup[bound] > 0 /\ setup' = [setup EXCEPT ![bound] = @ - 1]

StartSync(d) ==
    /\ d \in setup.devices \ running
    /\ running' = running \cup {d} /\ loop' = [loop EXCEPT ![d] = "host"]
    /\ UNCHANGED <<setup, copy, hubs, address, peer, net, push, jobs, seen>>

(* stop: says bye to every peer and gives the address back.  What is being
   applied goes on.                                                         *)
StopSync(d) ==
    /\ d \in running /\ Use("stops")
    /\ running' = running \ {d} /\ hubs' = hubs \ {d} /\ push' = push \ {d}
    /\ address' = IF address = d THEN NoDevice ELSE address
    /\ loop' = [loop EXCEPT ![d] = "off"]
    /\ peer' = [peer EXCEPT ![d] = [e \in Devices |-> "none"]]
    /\ net' = [f \in Devices |-> [e \in Devices |->
                 IF f = d THEN IF Linked(d, e) THEN net[d][e] \o <<Message("bye", 0), Closed>>
                               ELSE IF peer[e][d] = "none" THEN << >> ELSE net[d][e]
                 ELSE IF e = d THEN << >> ELSE net[f][e]]]
    /\ jobs' = [jobs EXCEPT ![d] = {[j EXCEPT !.from = NoDevice] : j \in @}]
    /\ UNCHANGED <<copy, seen>>

(* loop: host the address; if it is taken, join who has it; else try later. *)
Host(d) ==
    /\ loop[d] = "host"
    /\ \/ /\ address = NoDevice /\ address' = d /\ hubs' = hubs \cup {d}
          /\ loop' = [loop EXCEPT ![d] = "connected"]
       \/ address # NoDevice /\ loop' = [loop EXCEPT ![d] = "join"] /\ UNCHANGED <<address, hubs>>
       \/ loop' = [loop EXCEPT ![d] = "retry"] /\ UNCHANGED <<address, hubs>>
    /\ UNCHANGED <<setup, copy, running, peer, net, push, jobs, seen>>

(* attach, at both ends, each of which says hello; or the join fails; or the hub
   closes it, having too many peers.                                        *)
Hello == Message("hello", 0)
Join(d) ==
    /\ loop[d] = "join"
    /\ \/ loop' = [loop EXCEPT ![d] = "retry"] /\ UNCHANGED <<peer, net>>
       \/ /\ address \notin {NoDevice, d} /\ net[d][address] = << >> /\ net[address][d] = << >>
          /\ LET h == address
                 full == Cardinality(PeersOf(h)) >= setup.cap
             IN  /\ peer' = [peer EXCEPT ![d][h] = "attached",
                                         ![h][d] = IF full THEN "none" ELSE "attached"]
                 /\ net' = [net EXCEPT ![h][d] = IF full THEN <<Closed>> ELSE <<Hello>>,
                                       ![d][h] = IF full THEN << >> ELSE <<Hello>>]
          /\ loop' = [loop EXCEPT ![d] = "connected"]
    /\ UNCHANGED <<setup, copy, running, hubs, address, push, jobs, seen>>

RetryTimer(d) ==
    /\ loop[d] = "retry" /\ loop' = [loop EXCEPT ![d] = "host"]
    /\ UNCHANGED <<setup, copy, running, hubs, address, peer, net, push, jobs, seen>>

(* A connection breaks, with what is under way; both ends are told.         *)
Break(d, e) ==
    /\ Linked(d, e) /\ Use("breaks")
    /\ net' = [net EXCEPT ![d][e] = <<Closed>>, ![e][d] = <<Closed>>]
    /\ UNCHANGED <<copy, running, hubs, address, loop, peer, push, jobs, seen>>

(* While a hub sleeps its address is given up.  The hub does not listen to that
   (onLost) and stays hub.                                                  *)
LoseAddress ==
    /\ address # NoDevice /\ Use("losses") /\ address' = NoDevice
    /\ UNCHANGED <<copy, running, hubs, loop, peer, net, push, jobs, seen>>

-----------------------------------------------------------------------------
(* handle: the messages of a peer. *)

Busy(d, e) == \E j \in jobs[d] : j.from = e
Received(d, e, kind, Then(_, _)) ==
    /\ d \in running /\ peer[d][e] # "none" /\ ~Busy(d, e)
    /\ \E i \in Due(net[e][d]) :
         LET m == net[e][d][i]
         IN  m.kind = kind /\ Then(m, [net EXCEPT ![e][d] = RemoveAt(@, i)])

(* sync-hello is answered with proof of the key.                            *)
HandleHello(d, e) ==
    /\ Received(d, e, "hello", LAMBDA m, rest :
         /\ peer' = [peer EXCEPT ![d][e] = IF @ = "authed" THEN @ ELSE "greeted"]
         /\ net' = Sent(rest, d, {e}, Message("auth", 0)))
    /\ UNCHANGED <<setup, copy, running, hubs, address, loop, push, jobs, seen>>

(* Mutation: a manifest that was made before anything was loaded. *)
ManifestEmpty(d) == Message("manifest", 0)

(* buildManifest. *)
Manifest(d) == Message("manifest", copy[d])

(* sync-auth: the peer may send and is sent data from now on.  A proof before
   the hello, and anything else before a proof, closes the connection.      *)
HandleAuth(d, e) ==
    /\ Received(d, e, "auth", LAMBDA m, rest :
         IF peer[d][e] = "attached" THEN Detach(d, e, TRUE)
         ELSE /\ peer' = [peer EXCEPT ![d][e] = "authed"]
              /\ net' = Sent(rest, d, {e}, Manifest(d))
              /\ UNCHANGED <<jobs, loop>>)
    /\ UNCHANGED <<setup, copy, running, hubs, address, push, seen>>
Proven(d, e, kind, Then(_, _)) ==
    /\ Received(d, e, kind, LAMBDA m, rest :
         IF peer[d][e] # "authed" THEN Detach(d, e, TRUE)
         ELSE Then(m, rest) /\ UNCHANGED <<loop, peer>>)
    /\ UNCHANGED <<setup, copy, running, hubs, address, push, seen>>

(* bye, and the end of the connection.                                      *)
HandleBye(d, e) ==
    /\ \E kind \in {"bye", "closed"} :
         Received(d, e, kind, LAMBDA m, rest : Detach(d, e, FALSE))
    /\ UNCHANGED <<setup, copy, running, hubs, address, push, seen>>

(* diffManifests, collectData.                                              *)
HandleManifest(d, e) == Proven(d, e, "manifest", LAMBDA m, rest :
    /\ net' = IF m.version > copy[d] THEN Sent(rest, d, {e}, Message("want", 0)) ELSE rest
    /\ UNCHANGED jobs)
HandleWant(d, e) == Proven(d, e, "want", LAMBDA m, rest :
    net' = Sent(rest, d, {e}, Message("data", copy[d])) /\ UNCHANGED jobs)

(* data: the device's copy is read and compared (mergeMatch) ...            *)
HandleData(d, e) == Proven(d, e, "data", LAMBDA m, rest :
    /\ net' = rest
    /\ jobs' = [jobs EXCEPT ![d] = @ \cup
         {[version |-> m.version, put |-> m.version > copy[d], from |-> e]}])

(* "The hub is the star's centre: pass it on to every other device."        *)
Forward(d, j) == IF d \in hubs THEN AuthedBy(d) \ {j.from} ELSE {}

(* ... and written, if it was older then.                                   *)
Newest(d, version) == [seen EXCEPT !.best[d] = Max({@, version})]
Writing(js) == \E k \in js : k.put
FinishJob(d, j) ==
    /\ j \in jobs[d] /\ jobs' = [jobs EXCEPT ![d] = @ \ {j}]
    /\ copy' = IF j.put THEN [copy EXCEPT ![d] = j.version] ELSE copy
    /\ seen' = [Newest(d, copy'[d]) EXCEPT
                   !.overlap = @ \/ (j.put /\ (j.from = NoDevice \/ Writing(jobs[d] \ {j})))]
    /\ net' = Sent(net, d, Forward(d, j), Message("data", j.version))
    /\ UNCHANGED <<setup, running, hubs, address, loop, peer, push>>

-----------------------------------------------------------------------------
(* A device plays on: a change of its copy, to be pushed, unless data are being
   applied, when it is taken for their echo (onLocalChange).  The data may also
   overwrite it.                                                            *)
Change(d) ==
    /\ \E version \in copy[d] + 1 .. setup.versions :
         /\ copy' = [copy EXCEPT ![d] = version]
         /\ seen' = [Newest(d, version) EXCEPT !.overlap = @ \/ jobs[d] # {}]
    /\ push' = IF d \in running /\ jobs[d] = {} THEN push \cup {d} ELSE push
    /\ d \in setup.plays
    /\ UNCHANGED <<setup, running, hubs, address, loop, peer, net, jobs>>

(* flushPush, when the debounce timer ends; without a peer it is dropped.   *)
FlushPush(d) ==
    /\ d \in push /\ push' = push \ {d}
    /\ net' = Sent(net, d, AuthedBy(d), Message("data", copy[d]))
    /\ UNCHANGED <<setup, copy, running, hubs, address, loop, peer, jobs, seen>>

SyncInit ==
    /\ setup \in SyncConfs
    /\ copy = [d \in Devices |-> 0] /\ running = {} /\ hubs = {} /\ address = NoDevice
    /\ loop = [d \in Devices |-> "off"]
    /\ peer = [d \in Devices |-> [e \in Devices |-> "none"]]
    /\ net = [d \in Devices |-> [e \in Devices |-> << >>]]
    /\ push = {} /\ jobs = [d \in Devices |-> {}]
    /\ seen = [best |-> [d \in Devices |-> 0], overlap |-> FALSE]

Handle(d, e) ==
    \/ HandleHello(d, e) \/ HandleAuth(d, e) \/ HandleBye(d, e)
    \/ HandleManifest(d, e) \/ HandleWant(d, e) \/ HandleData(d, e)
SyncNext ==
    \/ LoseAddress
    \/ \E d \in Devices :
         \/ StartSync(d) \/ StopSync(d) \/ Host(d) \/ Join(d) \/ RetryTimer(d) \/ Change(d)
         \/ FlushPush(d)
         \/ \E j \in jobs[d] : FinishJob(d, j)
         \/ \E e \in Devices \ {d} : Handle(d, e) \/ Break(d, e)
SyncSpec == SyncInit /\ [][SyncNext]_syncVars

-----------------------------------------------------------------------------
(* Properties. *)

(* Every variable has its type; the connection is known at one end only while
   the other end still has to hear of it.                                   *)
SyncTypeOK ==
    /\ setup \in [devices : SUBSET Devices, plays : SUBSET Devices, cap : Nat,
                 versions : Nat, breaks : Nat, losses : Nat, stops : Nat]
    /\ copy \in [Devices -> 0 .. setup.versions] /\ hubs \subseteq running
    /\ address \in hubs \cup {NoDevice} /\ push \subseteq running
    /\ loop \in [Devices -> {"off", "host", "join", "retry", "connected"}]
    /\ \A d, e \in Devices :
         /\ peer[d][e] \in {"none", "attached", "greeted", "authed"}
         /\ peer[d][e] # "none" /\ peer[e][d] = "none" => Contains(net[e][d], Closed)
    /\ \A d \in Devices : \A j \in jobs[d] : j.from \in Devices \cup {NoDevice} /\ j.put \in BOOLEAN

(* "A client that lost its hub goes looking again (and may become the hub
   itself)": however hubs stop, connections break and messages cross, a running
   device is a hub, has a peer, or is about to try again.  None of a player's own
   devices is ever turned away for good.                                    *)
StillLooking ==
    \A d \in running : d \in hubs \/ PeersOf(d) # {} \/ loop[d] \in {"host", "join", "retry"}

(* Devices converge: when nothing is under way, being applied or waiting to be
   pushed, two devices that proved themselves to each other have the same
   version, the newest either ever had; whichever played while apart, whatever
   came while they met, through the hub as well.  Except where the device's copy
   changed while data compared with it before were still being applied, or data
   were applied after their connection had ended.                           *)
Quiet == push = {} /\ \A d, e \in Devices : jobs[d] = {} /\ net[d][e] = << >>
Converged ==
    Quiet /\ ~seen.overlap =>
        \A d, e \in Devices :
            peer[d][e] = "authed" /\ peer[e][d] = "authed" =>
                copy[d] = copy[e] /\ copy[d] = Max({seen.best[d], seen.best[e]})
=============================================================================
