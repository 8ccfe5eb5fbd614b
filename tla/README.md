# Formal models of p2p-gaming

TLA+ models of the parts of this repository that carry its own logic: game tables hosted by a
player or a dealer, the two games, clubs that keep chips, the devices of a player, play by mail,
and the process that hosts tables. They are checked with TLC on small instances, and the safety of
a table's command pipeline, of its seats, of the dealer process, of a club's books, of its
matchmaking, of what its door lets be written, of play by mail, of a player's devices and of the
poker table is proved with TLAPS for every instance.

| Module | What it models | Checked by | Proved (section 4) |
| --- | --- | --- | --- |
| `TableFlow` | commands, draws in flight, seeds, beacon bindings, autopilot, restart | `MCTableFlow*.cfg` | all its safety |
| `CommandService` | what `TableFlow` promises: each command is answered once, in order | as a property of `MCTableFlow*.cfg` | `TableFlow` implements it |
| `TableSeats` | connections, challenges, seats, keys, reservations, presence | `MCTableSeats.cfg` | all its properties |
| `Club` | ledger, stakes, settlement, retries, admin writes | `MCClub*.cfg` | all its properties |
| `ClubMatching` | tickets, sweeps, the seating of groups | `MCClubMatching.cfg` | all its properties |
| `ClubDoor` | a club's connections, members, invites, certificates, requests | `MCParts.cfg` | both its properties |
| `OfcTable` | open-face Chinese poker: hands, Fantasyland, scoring, settlement | `MCParts.cfg`, `MCParts_deck.cfg` | all its properties |
| `Backgammon` | matches, dice and plays, cube, resignation, the free board | `MCParts.cfg` | – |
| `Sync` | the devices of a profile keeping each other up to date | `MCParts.cfg` | both its properties |
| `Grants` | pairing, renewal, sign-out and revocation of devices | `MCParts.cfg` | both its properties |
| `Mailbox` | playing while apart | `MCParts.cfg` | both its properties |
| `Reopen` | reopening a table from two devices, over PeerJS | `MCParts.cfg` | both its properties |
| `Dealers` | the process that hosts tables, its files, its crashes | `MCParts.cfg`, `MCParts_registry.cfg` | both its properties |

The proofs are in modules of their own:

| Module | What it proves |
| --- | --- |
| `ProofLemmas` | facts about sequences, functions, least numbers and steps in a row that the others cite |
| `TableFlow_proofs` | `TableFlow`: types, bindings of beacon rounds, freshness; what randomness a log has used, and that it can be verified; that it implements `CommandService`; the autopilot |
| `TableSeats_proofs` | `TableSeats`: devices, keys, seats, reservations |
| `Hosting_proofs` | `Dealers`: saves and the registry; `Reopen`: types, the room code, the newer copy; `Mailbox`: types, copies, moves |
| `Club_proofs` | `Club`: types, the ledger, operations, stakes, chips on a table, chips promised |
| `ClubMatching_proofs` | `ClubMatching`: the lock, tickets and their answers, sweeps, groups, seats |
| `ClubRooms_proofs` | `ClubDoor`: members, invites, certificates and grants, as stored; who is inside, and what is paid; `OfcTable`: types, the deck, a hand that goes on, the ledger and its settlements |
| `Devices_proofs` | `Grants`: sign-outs are published, and stop a device on the day that was told; `Sync`: devices look for each other, and converge |

`MCParts` runs the eight modules that share no state with each other in one run, a part at a time.
`PROJECT.json` lists components, runs, mutants, the definition-to-code map, findings, hazards and
theorems. Paths below are relative to `src/`.

    tlc -workers 2 -config MCTableFlow.cfg MCTableFlow
    for m in ProofLemmas TableFlow_proofs TableSeats_proofs Hosting_proofs \
             Club_proofs ClubMatching_proofs ClubRooms_proofs Devices_proofs; do tlapm $m.tla; done

## 1. Inventory

### Table (`packages/table`, `packages/server`)

`TableServer.ts` is the authority of one table, in the browser of the hosting player or in a
dealer process. State: the snapshot (roster, action log with the origin of its randomness, public
segment records and pending beacon bindings, readiness), private seeds, the beacon counter, a
`busy` flag and a queue, the connections and what they claim, reservations, the autopilot's timer.

* Operations: accept, hello, challenge, auth, command, ready, chat, bye, reserveSeat/releaseSeat,
  deliver (a mailed command), close; and the continuations of entropy fetches, seeds and rounds.
* Hard: every asynchronous source is an await during which connections come, go, are admitted, may
  bring a longer copy of the table, change readiness and queue commands. A host dies with its
  private seeds and comes back on an older snapshot.
* Correct when: commands are applied in arrival order, each answered, on the state they were
  computed from; no randomness serves twice, none is public while still used, every draw can be
  verified afterwards; a bound seat stays with its player and key, a reserved one goes to its
  holder; presence is told as it is; the autopilot misses nothing.

### Games (`packages/ofc-engine`, `packages/engine`)

Pure reducers with a state of their own: hands, turns, placed and pending cards, Fantasyland owed,
scores and a ledger of points; a board, dice, a cube, a match score.

* Hard: seats that owe fantasy cards act together while the others take turns; a hand ends when
  the last card lies, wherever that comes from; settlement plans with buy-ins and busts; both dice
  must be played when they can, the larger one when only one can; cube, Crawford and Jacoby rules
  meet in the scoring; rule sets are data exchanged between players.
* Correct when: the game always goes on or is over, the ledger explains the balances, what
  Fantasyland owes is what the hands earned, checkers and dice are used by the rules.

### Club (`packages/club`, `packages/club-spec`)

`ClubServer.ts` keeps members, a hash-chained signed ledger, stakes (seat commitments), operation
records, invites, rooms, requests and matchmaking tickets in one copy-on-write state. It calls a
table registry (`tables.sit`, `tables.leave`), which may settle a table and so call back.

* Operations: sit, leave, settle, recordResult, transfer, cashOut, grant/adjust/mint/redeem, lobby
  (which reclaims expired stakes), ban, approve, roles, invites, chip requests, queue, unqueue and
  the sweep of the matchmaker.
* Hard: a signature is an await between reading and writing the state; `serialised` orders ledger
  appends but not everything that writes; clients retry with operation ids; the process may die
  between two writes; stakes expire while calls wait; a sweep seats a group one member at a time
  and everything else goes on meanwhile.
* Correct when: entries are never lost, a result and its rake stay together, a retry moves
  nothing twice, the same chips are not promised twice, a stake is settled once, chips on a table
  can be taken off it; a ticket is answered once, nobody waits for a pass that nothing triggers,
  nobody plays against their criteria; who is inside was let in and is not banned.

### Sessions (`apps/web/src/session`, `packages/transport-peerjs`, `packages/client`)

Each device saves a copy of every table. Opening a table again means hosting its room code, or, if
that is taken, joining whoever has it and offering one's own copy.

* Hard: two devices racing for one code; registrations that outlive a page; sockets that drop
  unnoticed; flows a player left while they were awaited; a budget of retries.
* Correct when: a player who hosts or plays can be found, and an action somebody was told of is
  not undone by an older copy.

### Devices of a player (`session/sync`, `session/pairing`, `grants`, `revocations`, `packages/wallet`)

A hub and spokes that exchange manifests, wants and data, with debounced pushes; and devices that
act for the player with a grant that has a serial and an end, and may be revoked by a list.

* Hard: hubs that stop, addresses that are lost, messages that cross, edits while data are being
  applied; a sign-out that meets a renewal, a publication that fails, a list that lags.
* Correct when: devices converge on the newest version, none is left without a way to look for a
  peer; a signed-out device stops, at the latest on the date it was told.

### Mailbox (`apps/web/src/mailbox`)

Sealed messages in a box per player, of moves to the host's device and positions back, collected
by pages and by the service worker, and sent again by push.

* Hard: duplicates (push and box), positions as changes on a base, runs that overlap or die, a
  host that opens the table meanwhile.
* Correct when: a move is applied once or refused, on the position it was made in; a position is
  never replaced by something its table was not in.

### Dealer process (`packages/dealer`)

Hosts tables for the console, saves each after every action, and keeps `tables.json` so that the
running ones can be resumed.

* Hard: calls, actions and crashes between the awaits of create, stop, resume and remove; writes
  of one file that overlap.
* Correct when: what ran is running again after a restart, saved tables never go back.

### The rest

| Component | Why it has no module of its own |
| --- | --- |
| Entropy sources (`packages/entropy`) | HTTP clients; a source that answers, fails or loses a round is in `TableFlow` |
| Club clients and wire | calls matched to answers by id; the server's handshake is in `ClubDoor` |
| Transfer, recovery, secrets, passkeys | one exchange of an encrypted file; cryptography around a store |
| Server functions | revocations and mailbox are in `Grants` and `Mailbox`; the others are thin key-value handlers |
| Web and console UI | React components and their stores: most of the lines, no protocol |
| Prototypes (`mp-proto`, `gitstore-proto`), soak bots | unused experiments, a load test |

### How components interact

A device reaches a `TableServer` through a transport: messages in order, one handler per message.
The server tells its owner of each new snapshot through `onChange`, and the owner persists it. A
club calls its table registry and is called back with tallies. In `TableFlow` the interface to the
seats is the set `present`, in `TableSeats` the interface to the pipeline is the action `Play`; the
games are what `TableFlow` asks of a game (legal, draws, boundary, decision) and are modelled on
their own in `OfcTable` and `Backgammon`. `Club` and `ClubMatching` model the same lock
(`serialised`), the one with the entries it protects, the other with the seating it delays;
`ClubDoor` is about who may call at all. `Reopen` and `Mailbox` take a table to be its log, which
is what they store and send.

## 2. Models

A JavaScript task runs to completion; an `await` is where other tasks come in. All modules are
written on that grain: one action per task, or per part of a handler between two awaits.
Situations (modes, policies, who is there, which bounds) are records chosen in `Init` from a set
the MC modules give; the counters in them are the bounds, used up by the actions they limit.

### TableFlow and CommandService

`snap` has what is public (log, segments, bindings, readiness), `secrets` the private segments,
`flight` is `busy` together with the locals of the draw in flight, `queue` the waiting commands.
`calls` is the stack of what the running task still does (`drain`, `evaluate`), so `drain`'s loop,
`evaluateAutopilot`'s loop and their mutual calls are steps, and the environment moves only when
the stack is empty. A log entry records `base`, the length of the log its actions were computed
from, and `draw`, where its randomness came from; these two are what the properties compare.

| Code | Action |
| --- | --- |
| `apply`, `applyWith`, `commit` | `Arrive`, `ApplyNow`, `CommitOk` / `CommitThrows` / `CommitRefused` |
| `drain` | `DrainStep`, `DrainEnd`, `Finally` |
| `applyJustInTime` | `BeginFlight`, then `FetchOk` or `SourceFails` |
| `beginSegment`, `applySeededSegmentStart` | `SeedOk`, `SeededRun` |
| `beaconDraw`, `applyBeacon` | `Bind`, then `RoundOk` or `RoundFails` |
| `evaluateAutopilot`, `firePendingAutopilot` | `Evaluate`, `Fire` |
| `maybeAdopt` | `Adopt` |
| `close`, constructor on a snapshot | `Close`, `Crash`, `Restart` (`Restored`, `NextCounter`) |

Abstracted: a seed is a number and its commitment the same number; the game is what the pipeline
asks of it. `createSeeded` and `restoreSegments` are modelled, hashes and byte streams are not.
Chat and push flags do not occur.

`CommandService` is what a player may rely on, without draws, segments, timers and autopilot:
commands arrive, wait, and are answered once, oldest first, by an entry of the log or a refusal; a
host that dies forgets those that wait and may restore an older log. What the table adds by itself
(a start of the autopilot) answers nobody and has the id 0. `TableFlow` implements it
under the mapping `Service == INSTANCE CommandService WITH resumes <- ..., waiting <- ...,
applied <- ...`: the command in flight and the queue are `waiting`, the ids of the log `applied`.
`ServesInOrder` is the abstract specification, `EveryCommandAnswered` its liveness.

### TableSeats

`phase` and `claim` are a connection's life: closed, open, pending (challenged), verifying (in the
await of the signature check), admitted. `Resolve` is a set: `resolve` reads a Map in insertion
order, which is abstracted to any order when several pending claims name a seat. `HandleAuth` and
`Verified` are `handleAuth` before and after its await. `told` records what each device was last
told of presence. A hello carries the key its device can sign with (`holds`), and `Signed`
compares it with the key that has to sign, so a device that names another's key is not admitted.

### Club, ClubMatching, ClubDoor

`Club`: one variable `club` is the state that is copied on write and persisted (the commitments are
a set, whose nonces have the order in which they were issued), `call` has the
program counter and the locals of each call, `line` the chain of `serialised`. `Proceed` runs a
call from one await to the next: it validates the next draft against the state of now and keeps the
state that will be stored (`next`) until the signature arrives (`Signed`), when it replaces
whatever the state is by then, as `appendNow` does. `createInvite` does the same outside the line
(`Inviting`, `Invited`). A crash ends the calls under way; the state is the last one persisted.

`ClubMatching`: `run` is the sweep under way (`runMatchmaking`): it reads the seated players, asks
the policy for groups, deletes the tickets of a group and seats its members, each by the steps of
`sit`, with the ledger's lock, the registry and the signatures as waits; `lock` is the queue of
`serialised`. The policy is `proposeMatches`, or one that answers anything. The registry is code
outside the repository, taken to do what the club's tests have it do; a registry that settles a
table when somebody stands up calls back into the club.

`ClubDoor`: a connection goes from challenge to `authenticated` to `admit`, through an invite or as
the policy has it, with the signature of a welcome grant as a wait; admins mint, resolve requests,
invite, revoke, approve, ban and change roles. Chips are counted in grants. What is written on the
ledger keeps the state it read (`base`) and stores it with the entry added.

Abstracted: hashes and signatures of the ledger (they hold); in `Club` the balances are carried
along; fees, redemptions, adjustments, join rosters and chip cards are single appends under the
same queue; rooms and templates are one synchronous write each; in-process sessions
(`authenticate`), chat, statements and policy changes are left out.

### OfcTable and Backgammon

Every command and every rule of the reducers, with the games' own numbers in `OfcTable` and with
the size of board and dice as parameters in `Backgammon`. Cards are counted, not named: what a
finished hand is worth is chosen at the showdown from a set of evaluated rows (fouls, royalties,
comparisons and Fantasyland are computed from them as in the code); previews and rule texts are
left out. The lists of transfers and of a settlement's payments are matrices of what one seat pays
another, which is all that is read of them. `LegalPlays` is the engine's search, written as a recursive set of positions.

### Sync, Grants

`Sync`: `loop` is a device's connection loop, `peer` how far it is with each peer, `net` the
messages under way, `jobs` data between the read and the write of `applyData`. One document, a
match, stands for all of them. Profile and settings documents are applied in one step; malformed
peers, wrong keys and retry delays are left out, and a device joins a hub again only when the hub
has noticed the end of the old connection.

`Grants`: `listed` is the list of paired devices in a root's profile, `held` the grants, the
renewals and the publications are split at their awaits, and a table's check (`verifyDelegation`
with the list it fetched) is an operator the properties use. Days are counted in tens. Clock skew,
HTTP caches, `minSerial`, scopes and several tabs are left out.

### Mailbox

`boxes` are the messages of each player, as sets, which are read in the order of their ids
(`Earliest`, `ById`); `pushes` those that may arrive again by push; `runs` are
runs of `processMessages`, split at their awaits; `live` the table the host has open, with what its
mailer sent. A copy is the sequence of its moves. One OFC table, one device per player. Left out:
the stand-in table a guest plays on, chat, sealing, redaction, quotas, several devices of a player.

### Reopen, Dealers

`Reopen`: `screen` is the flow a player's page is in (`openHosted`, `hostTable`, `joinTable`, with
their awaits), `code` whose registration holds the address, `chans` the channels. A registration
outlives its page; a socket may drop unnoticed. Rules are enforced (one player acts at a time), one
device per player, saves are immediate. Delays and the budget of two minutes are left to chance.
Tables of a dealer, redacted tables and resuming by mail are left out.

`Dealers`: `requests` are the console's calls, split at their awaits, `managed` the `running` map,
`files` what is on disk: `tables.json`, its temporary file (which two overlapping writes may leave
torn), and each table, written through a queue of saves. A table acts from when the manager has
attached its client to it, also while its start is under way and after it was refused. A crash leaves the files and the
registrations. The console makes one call for a table at a time, which is an assumption on the
callers; that writes of `tables.json` do not overlap is one of the situations (`overlap`). Bots,
settings and club pages are left out.

## 3. Runs

Passing runs:

* `table_flow` – every mode of randomness with both games, the three flows, one restart. Two seats
  (everybody present or not, everybody ready or not), two commands (one in flight and one queued;
  the autopilot's starts come on top), two hands (a second segment, a second binding), one restart
  and one lost round. Seats are interchangeable (symmetry).
* `table_flow_live` – liveness, one configuration per asynchronous source, no restart, no symmetry.
* `table_seats` – three connections (a device, a rival claim, a second device or a spectator of
  presence), two seats, three players, at most two devices per seat (so that the cap drops one),
  one action, one restart; a host that plays, a dealer, a table with unkeyed devices, an
  invitation-only table. Devices are interchangeable.
* `club` – up to four overlapping calls of two members at one table, in both modes of settlement;
  three calls with the clock, with a crash, and with admins. A club may be opened on a stored state
  in which both sit. Every call ends and the number of calls is bounded, so the instance really
  stops: deadlock is not checked. Call slots are interchangeable.
* `club_matching` – three members (a group and one left over), two table types of two seats, three
  or four tickets, a seat taken or given up and one event (ban, expiry, a lost device, a pause) at
  any time in a sweep; with the club's policy and with one that answers anything, with a registry
  that settles and one that does not, and with members some of whom have no chips, so that a table
  stays part full while another group of the same type is formed. Members are interchangeable.
* `parts` – the eight independent modules, a part at a time, each with the situations listed in
  `MCParts` (bounds below). Every part stops when its bounds are used up: deadlock is not checked.

| Part | Bounds, and why they are enough |
| --- | --- |
| poker | 2–3 seats, two hands (what one owes is dealt in the next), finished hands with entries into Fantasyland, stays, fouls and ties; a buy-in both can bust |
| backgammon | 4 points, home boards of 2, 2 checkers a side, dice of 2 faces: hits, the bar, blocked dice, doubles, bearing off; a match to 2 has a Crawford game, the cube turns twice; on the free board, where anything goes, one game |
| sync | two devices with two versions and a break, with a stop as well; three with forwarding; a hub that takes one peer and loses its address |
| mailbox | a guest and the host, two moves (the second on the first's position), a table opened meanwhile, one failing call, a table that refuses, a run that dies |
| reopen | two players, up to three actions, four openings, one each of: page dies, socket drops, channel breaks, flow left |
| dealers | two tables, two calls at a time: three calls and a crash, or two with an action, a refused host and a crash |
| grants | a root and one or two devices, or two roots; two publications at a time, three days where a grant lasts three |
| door | two or three connections of a founder, a player with two keys and another; one invite, certificate and request; a restart |

The properties of these runs:

* ServesInOrder, FreshState – no command is lost, answered twice, overtaken or applied to a state
  it was not computed from.
* DrawsVerifiable, NoDrawReuse, SecretWhileDrawn, NoOrphanBinding – the log verifies, across
  restarts; bytes serve once; seeds are public only when spent; bindings are exact.
* AutopilotKeepsUp, AutopilotDeals, EveryCommandAnswered – nobody waits for a decision or an answer
  that nothing is going to produce.
* DevicesConsistent, AdmittedProvesKey, BoundSeatKept, ReservedForHolder – seats, keys, device
  lists and presence, whatever admissions overlap.
* HandWhole, OpOnce, StakesCovered, NothingStranded, SettledOnce – the club's books.
* LedgerFree, OneAnswer, NothingMissed, TablesGetAlong, SeatedOnce – the lock is free when nobody
  works; each ticket is answered once; no request waits without a sweep to come; those whom
  matchmaking brings to one table could play each other, also where groups are broken up and tables
  stay part full; it seats nobody twice.
* TableGoesOn, LedgerTellsAll – a poker hand never gets stuck, the ledger is the balances.
* DiceUsed – a backgammon player plays as much of the dice as any order allows, and the larger one
  if either could be played but not both.
* StillLooking, Converged – devices find each other again and agree on the newest version.
* CaughtUp, StopsByDate – a device that is signed out is on the list once the settings say so, and
  stops on the date it was told.
* MovesKept, CopiesTrue – mailed moves are applied or refused, and every copy is a position of the
  table.
* HostFound, NothingUndone – an open table can be reached, no action known to others is undone.
* TablesComeBack, SavedForward – tables that ran are in the registry and saved tables do not go back.
* BooksLegal, DoorKept – a club's ledger stays legal; who is inside was let in and is not banned.

Type invariants are conjuncts of DevicesConsistent, StakesCovered and NothingMissed for the modules
named there; `PartsTypeOK` is that of the part that moves, with what the variables say of each
other (checkers are conserved, half-closed connections are being told, and so on).

Runs that show a disagreement between the code and what it says of itself (`findings`):

* `table_flow_stale` – "the state cannot have moved" during a draw (TableServer.ts:1429), but a
  peer's longer copy is adopted meanwhile.
* `table_flow_seed` – a hand's seed is "revealed when it ends" (server/src/definition.ts:106), but a
  start sent during the hand publishes it, and is refused afterwards.
* `club_invite` – concurrent writes "would otherwise lose one of the entries"
  (ClubServer.ts:540), and one outside the serialisation does.
* `club_retry` – a retry "moves no chips a second time" and the record "survives a restart"
  (idempotency.ts:4–7), but it is written after the entries it guards.
* `ofc_deck` – a rule set "cannot break the engine" (rules-presets.ts:263), but one that validates
  needs 53 cards.
* `dealer_registry` – every running table comes back (README.md:348), but overlapping writes of
  `tables.json` share one temporary file.

### Where a property stops

Several are guarded by name, where the code does not keep the unguarded statement, and models leave
some cases out that would need one:

* Tables. `~conf.resume` in NoOrphanBinding (an adopted copy replaces the log); restarts in
  BoundSeatKept (an older roster is restored); adoption in ReservedForHolder (a copy's roster goes
  before a reservation). AdmittedProvesKey: at a dealer's table whose peers hold full copies, a host
  that restarts on an older copy checks a newcomer's key before the newcomer's longer copy changes
  the roster (TableServer.ts:988–1033), so a seat can be taken without the key that copy binds it
  to; there, for the same reason, the newcomer's copy may list devices at seats their players no
  longer hold (DevicesConsistent). The run leaves that configuration out, and the theorems name it
  (`OneGuestSeat`).
* Clubs. `conf.admins` (a ban or an invite writes during an append), `crashes = 0` in OpOnce (see
  `club_retry`), `conf.clock` in NothingStranded (an hour after settling, `pruneCommitments` forgets
  the commitment that `leave` asks for). `checkTally` lets a tally through in which a member pays
  more rake than they won, up to their stake; in immediate settlement their stack may be smaller than
  that (a hand lost since), and then the burn is refused after the result was stored
  (ClubServer.ts:1353–1365): the result stands without its burn, its operation is not remembered, and
  a retry stores it again. The run has no such tally; the theorems name it (`WinnersPay`). In
  ClubMatching: a sit during a sweep can seat a member at a second table (ClubServer.ts:1623), and
  members who sit by themselves choose a table, whoever was matched to it, so SeatedOnce and
  TablesGetAlong say nothing once somebody sits or leaves by a call (`moves = 0`); a
  registry that settles on leave, with a ban during a sit, waits for the lock its caller holds (1244,
  against the comment at 1279); only immediate settlement.
* The door. `overlap` marks situations in which something else may be written while something is
  signed; a connection that closes during its welcome grant stays a member's device for good, and
  then the loop over `maxDevices` (ClubServer.ts:803) would not end, so that such situations allow
  a member as many devices as there are connections. A newcomer whom a writer loses, because it
  stores the state it read before (ClubServer.ts:557–581), is a newcomer again, and is welcomed
  again, so that BooksLegal says "nobody is welcomed twice" of `~door.overlap`. A member banned
  during its welcome grant is admitted with the record of before; two overlapping
  `requests.resolve` both grant (454–468).
* Sync. `seen.overlap`: a device's own change while data compared with it before are being applied
  is taken for their echo (SyncManager.ts:435), and reading and writing a match are two steps
  (protocol.ts:349–355), so the older may win.
* Mailbox. One run at a time on the host's device, and the table is not opened during one: two
  overlapping runs, or an opening, lose a move (inbox.ts:249–268), as does a run that dies between
  `markHandled` (265) and the save. A push that arrives after its move was collected and applied
  applies it again.
* Reopen. Two players (`TwoPlayers`). A player with two open pages may offer a copy of two minutes ago; copies may fork when an
  answer is lost, and then the longer one wins.
* Dealers. `overlap` (see `dealer_registry`). After a crash the old registration may refuse the
  resumed host ('address-taken'), which marks the table as stopped for good.
* Grants. Two roots that do not share their device lists give one serial to two devices; two
  overlapping approvals do so on one root; overlapping publications can mark a failed one as done;
  a renewal in flight at a sign-out signs the device back in. `overlap` is FALSE in the situations
  that are run.

### Fairness

`LiveSpec` of `TableFlow` assumes what the JavaScript event loop gives: a task runs on (weak
fairness of `Task`); a settled await and a due timer are served however many other events arrive
(strong fairness of `Completion` and `Fire`: they are disabled while a task runs); and that a source
asked again and again answers in the end (strong fairness of each success), because the drain asks
the autopilot and the autopilot the source again. Nothing is assumed of players: commands, presence
and readiness are unfair. The other modules state what must not be missed as safety: StillLooking,
NothingMissed, HostFound and TableGoesOn say that whatever has to come is scheduled.

## 4. Proofs

Each theorem below holds for every value of the constants that satisfies the module's assumptions
(configurations of the declared type, bounds that are naturals, at least one seat; a deferred club
that is opened with everybody seated has the chips of their stakes, as `seatMember` lets it come
about), for every interleaving, and without bounds on the behaviours. A proof has an invariant, a lemma per action or
group of actions that keeps it, and a last step of propositional temporal logic. Each invariant was
first checked by TLC as an invariant of the component's run.

A theorem of the form `Hypothesis => (Spec => ...)` has a hypothesis on the configurations, which
is where the statement stops being true of the code; each is a definition with its reason beside it.

| Hypothesis | What it says, and what fails without it |
| --- | --- |
| `ResumeWithoutDraws` | only tables with synchronous draws take a peer's copy back; otherwise `table_flow_stale` |
| `OneGuestSeat` | a table whose peers hold full copies has two seats, one of them the host's (backgammon, not hosted by a dealer); see "Where a property stops" |
| `KeyedCopies` | at a table whose peers hold full copies every client has a key, and a player one key; clients without keys are bound to none, and what a copy says of them cannot be checked |
| `HolderKeys` | who signs with the key a seat is reserved for says they are that player; a key is otherwise let in by its own profile id |
| `OneWriteAtATime` | writes of `tables.json` do not overlap; otherwise `dealer_registry` |
| `WinnersPay` | no tally's rake is more than what was won, and the club takes at most all of it; otherwise see "Where a property stops" |
| `TwoPlayers` | (in `NewerCopyWins`) two players share a table that is opened again this way: only games without hidden information keep full copies at their players, and the one there is, backgammon, has two seats (server/src/definition.ts:29–31). The argument is one about two: the player at whose action two copies part and the host, who are the same or the only ones |
| `DeckHolds` | (in `GoesOn`, `LastsToTheEnd`) the seats may not be owed more cards than a deck has; rules with three seats and 18 cards are accepted, and stop the table: `ofc_deck` |
| no club in `Confs` has `admins` | (in `LedgerKept`) no invite or ban writes during an append; otherwise `club_invite` |

### TableFlow: a table's command pipeline

* `TypeCorrect`: `Spec => []TypeOK`. TypeOK alone is not inductive: after `SeedOk` the continuation
  draws from the last secret, so `SeedThere` (a seed in hand exists) is carried along. Lemmas show
  that the operators on segments (`RevealIn`, `Restored`, `SegmentDrawn`, …) stay in their types.
* `BindingsPublished`: `Spec => []NoOrphanBinding`, from `TypeInv`, `DownAtRest` (nothing is in
  flight while the process is down) and `BindingInv`; every commit leaves the bindings alone, `Bind`
  and the two ends of a round change them together with the flight.
* `Freshness`: `FreshState`. `FreshInv` adds that the logs on disk and in peers' copies are fresh
  too (they come back), and that the base of the draw in flight is the length of the log, which
  holds because nothing is appended while `Busy`.
* `NoReuse`, `Verifiable`, `SecretDraws`: `NoDrawReuse`, `DrawsVerifiable` and `SecretWhileDrawn`
  from `DrawInv`. Three logs (the table's, the one on disk, the one peers hold) each have draws that
  are distinct, come from the source of the mode, and lie in the range of the segment they name
  (`SoundLog`). For the next draw to be new, more is needed: the private seeds run parallel to the
  public records, the open one has handed out more draws than any entry of its segment has
  (`ActiveInv`), and the beacon counter is beyond every round an entry used and the one in flight
  (`CounterInv`). A restart keeps this only because what is on disk is an initial part of the log
  (`StoredInv`), and because `Restored` closes the open segment whose seed is lost.
* `InOrderOfArrival`: `Spec => ServesInOrder`, the refinement of `CommandService`. `ServiceInv` says
  what a step's image depends on: the task's stack has one of four forms (`CallsInv`), a command
  waits only behind a draw or a drain (`QueueInv`, which is why `Serve`, the answer on the spot,
  finds nobody waiting), what waits dies with the process, and logs answer in order (`OrderInv`, for
  the copy that replaces a log). One lemma per action names the abstract step it is: `Arrive` when a
  command is queued or its draw begins, `Serve` or `Answer` for a commit or a refusal, `Own` for an
  entry of the autopilot, `Forget`, `Restore`, `Replace`, and stuttering for seeds, rounds, timers
  and presence.
* `AutopilotMissesNothing`: `AutopilotKeepsUp`, with `DeadInv` (no timer and nobody present while
  the process is down) and `CallsInv`; the decision is a function of the log, readiness and
  presence, and each action that changes one of them leaves an evaluation on the stack.

### TableSeats: connections and seats

`SeatsInvariant` proves `SeatInv`: the device lists are exactly the admitted connections, within the
cap; who is admitted is the player of its place; claims under verification say a place that is
theirs; rosters, also those on disk and in peers' copies, have nobody twice (`RosterOK`); presence
is as told. All three admitting paths (a keyless hello, a signed claim, the end of a signature
check) go through the lemma `Admissions`, which says once what an admission changes. From there:

* `Devices`: `DevicesConsistent`; `Bound`: `BoundSeatKept`, an action property, without hypotheses.
* `Reserved`: `ReservedForHolder`, with the keys that reservations carry (`HeldByHolders`).
* `ProvesKey`: `AdmittedProvesKey`, from `KeyInv`: the keys on rosters, also those on disk and in
  peers' copies, are ones their players have shown, so that the copy a newcomer brings cannot bind
  its seat to a key other than the one it just signed with.

### Dealers: the dealer process

* `SavesSoundAlways`: the types, `ManagedInv` (what the manager holds for a table is a dealer of
  that table, and whatever is hosted is held) and `SavingInv`: calls under way are about different
  tables, what each may rely on at each of its awaits (`CallSound`), and the saves of a dealer that
  wait lead from what its file has to where the table is (`SavesSound`).
* `SavesGoForward`: `SavedForward`, an action property, whatever overlaps.
* `ComeBack`: `TablesComeBack`, from `RegistryInv`: with one write at a time, which some call waits
  for, every table that runs is in `entries`, in the content being written and in `tables.json`.

### Reopen: the room code and the copies

* `ReopeningTyped`, `CodeInHand`: ReopenTypeOK and HostFound. HostFound looks at the code and at the
  screen it belongs to; what keeps it is said of each device by itself (`Fits`): the code is held on
  behalf of a host, of a request that was granted, or of an aborted flow whose request was; requests
  are made by flows and hosts only; who was granted the code holds it; a host whose socket is up
  holds it, asks for nothing and has no timer; one that knows its socket is down has a timer or a
  request. `ChanInv` says that who has a channel is a guest or says hello, to somebody who hosts:
  whom a host's end cuts off held no code. A flow is aborted once before the first one ends, or two
  registrations of one page could meet; that is the guard of `Abort`, from the code's one `session`.
* `NewerCopyWins`: NothingUndone, an action property, for two players. `PlayedInv` is about every
  copy there is (`Around`: saved, hosted, on its way to a guest). Each action in it is of the player
  whose turn it was, so that the player who acts at a place is the same in two copies up to where
  they part. One action has one place, and two copies with different actions of a player at one
  place are only possible for a player in `unheard` (`OneAction`). That is kept because an action
  of anybody else is in their own copy, or in the table they are seated at (`OwnActions`), so a host
  that is offered a longer copy, or a player who acts on one, cannot do without it. What a guest is
  told only grows, from its own copy to the one hosted (`Growing`), who says hello offers what it
  has saved (`Offered`), and a host's table and copy are one (`HostSaves`).

### Mailbox: moves and positions by mail

`MailKept` proves one invariant, `MailInv`, in three parts.

* `MailTyped`: MailTypeOK, from `Sound`, which holds in every situation: types; what is addressed to
  the host is a move that its guest mailed, whole, and what is addressed to a guest a position
  (`LetterOf`); ids of a mailbox differ; and which steps only a run of the host's device takes.
* `PositionsTrue`: CopiesTrue, where one run at a time is under way on the host's device. `Alone`
  says what that run may rely on: the open table shows the saved copy; a run that applies moves to
  the saved copy, or mails positions, works on the copy of now, and no table is open meanwhile; what
  it is about to put goes on from that copy. `Leads`: every log there is, in a mailbox, a push, a
  run, a guest's copy or the table, is an initial part of the host's copy. So a change that is put on
  a copy of the length it was made for gives a position again (`ChangeTrue`), because two initial
  parts of one log that are of the same length are the same.
* `MovesNotLost`: MovesKept, as long as the browser ends no run. MovesKept alone is not inductive:
  moves are marked, acknowledged and removed by their ids. `OneLetter` says that a letter in the
  host's mailbox holds the move that pushes and runs with its id hold. `Kept` says that what a run has
  done is in the copy or refused (`RunKept`), and that what is marked is so too (`MarksKept`), or is
  in the hands of the run that is about to put the copy, the marks coming first (`Soon`). What the
  hypotheses leave out is listed under "Where a property stops".

### Club: a club's books

Every step is first shown to be one of a few kinds (`Steps`): the call at the head of the line works
on a state of its own until the next signature or its end (`Works`), takes a seat, leaves or takes
its stake; calls that do not hold the ledger step aside (`Apart`); admins, expiry and age write the
state outside the line (`Outside`); the process dies (`Dies`). `TypeInv` says with the types where
each call's locals come from and that `line` has each call with business at the ledger once, all but
the first waiting (`LineInv`). The invariants below are each kept by every kind, and so hold together
(`Books`).

* `BooksTyped`: `Spec => []TypeOK`; no account is ever negative, because an entry is validated
  against the very state it is added to.
* `LedgerKept`: `EntriesKept`, and `HandsWhole`: `HandWhole`, crashes included. `SignInv`: what a
  call that signs will store is the ledger of now and one entry more, and what it has left to append
  is at most a burn that its winner can pay. The burn follows because nobody else can append before
  it is signed (`HandInv`).
* `OperationsOnce`: `OpOnce`. `OpInv`: an entry's operation is remembered or its call is at work, and
  the operation of a call at work is not remembered and has no entry except the result whose burn is
  being signed. It rests on `Known` being asked while holding the ledger, and on `RecordOp` being in
  the same step as the last entry's storage.
* `StakesSettledOnce`: `SettledOnce`. `SettleInv`: a stake that a result names is closed, also in
  what is being signed, or the one call that settled it is about to close it; expiry, which closes
  stakes without waiting for the ledger, only ever closes more, and nonces are never issued again.
* `StacksHeld`: `NothingStranded`, without a hypothesis. `StrandInv`: also what is being signed gives
  a stack only to whoever has a stake at that table or is being seated there, and those whom a result
  or a tally that waits will pay keep theirs.
* `PromisesKept`: `StakesCovered`, for any number of members, tables and calls. StakesCovered alone is
  not inductive: it says nothing while an entry is being signed, and what is stored then was decided
  before. `CoverInv` adds that nonces are unique and bounded by `issued`; that no stack is on a table;
  that a tally that waits names stakes of its two players, whatever is closed meanwhile (`Names`); that
  a call that takes a seat or a stake still has the chips for it and for the member's other stakes;
  and, of a tally that is being signed, that its players can do without the stakes it names once what
  is left to sign is signed, while everybody else's promises are kept (`Enough`). The last is what
  `TallyOk` is for: nobody loses more than the stake which the tally closes. Sums of amounts are folds
  over sets; the lemmas before it (`AmountsAdd`, `AmountsLess`, `AmountsBound`) are proved from the
  fold's definition, by taking a smallest set on which they fail (`SmallestSet`).

### ClubMatching: the queue, the sweep and the seats

`Matchmaking` carries one invariant, `Always`. Its base are the types and what the line at the ledger
says (`LedgerInv`): only the first in line is beyond waiting, it works at a table that exists, and
it gives a seat back, or waits for a settlement, only for a member that was banned, because its
balance was looked at with the ledger in hand. `Stuck` is the one state the code does not leave (see
"Where a property stops"): the ledger is then held for good, which the invariants name where they
need it. `SweepInv`: a sweep waits exactly for its one task, and that is for the oldest ticket of the
group; nothing else in line is moved by the calls that come and go (`Shifted`).

* `LedgerIsFree`: LedgerFree, from `LedgerInv`.
* `AnsweredOnce`: OneAnswer. `BookInv`: no ticket is twice in the queue, nor there while it is being
  seated; what is answered leaves the queue or the group in the same step (`BookAnswered`).
* `TheyMeetWell`: TablesGetAlong. A group starts as one that `groupIsSeatable` let through, whatever
  the policy answered, only shrinks, and tickets keep their member and criteria (`ToldSame`); so the
  members of a group get along (`GroupInv`). That they meet nobody else takes `Companions`, as long
  as nobody sits down by a call: the sweep asks for a table of the group's own (`OwnTable`), whose
  first seat is given where nobody was matched to (`FirstAlone`); whoever was matched sits and is not
  the one being seated (`MatchedSit`), or somebody who queues again could be brought from one table
  to another; the one being seated has its seat at the table the task names (`NowSits`), so that a
  refused seat is given back there; and what is left of a group gets along with those of it who sit
  (`RestFits`), whoever was refused.
* `NothingIsMissed`: NothingMissed. `Coming`: a ticket that was not looked at has its caller about to
  ask, or another sweep wanted or starting. It needs that a member whose call waits for the ledger
  calls nothing else (`Callers`), or a later answer could take the kick away.
* `OneSeatEach`: SeatedOnce. `Arranged`: as long as nobody sits down by a call, whoever sits somewhere
  is known to the sweep: it sat when the sweep began, is of a group that was seated, of the one being
  seated once a table is open (`Known`), or is being seated just now (`Now`); and nobody else of the
  group sits. The code keeps a group's table as soon as one of it was granted a seat, and counts the
  whole group as seated afterwards, which covers everybody who was.

### ClubDoor: what a club stores, and who is inside

`LegalAlways`: BooksLegal, with and without overlap. A writer stores a state it read before its
signature, so it is not enough that the state of now is legal: every state that somebody will store
is (`LegalInv`), by itself, and with what validation found of it still true (`May`), because it is
that state, and not the one of now, that the entry is added to. A state is legal (`Legal`) if it is
well typed, has one owner, mints a certificate once, pays within what was minted, and each invite
has as many guests as uses. One lemma per kind of change keeps that: an entry (`AppendedLegal`), a
newcomer (`EnrolledLegal`), a role that changes hands (`RolesLegal`), a standing, or what touches
none of it (`LikeLegal`). `AloneInv` adds, when nothing happens during a signature, that the state
that was read is the state of now, and that whoever has a welcome, or waits for one, is a member.

`OnlyTheirDevices`: DoorKept. `KeptInv` has one part that holds always (`HeldInv`: a connection that
is in is one of the devices of the person it was admitted as) and three that hold as long as nothing
happens during a signature. `RoomInv`: a member's devices are connections that are in, each once, no
more than the cap, of an active member and with the key of the roster. An admission adds one at most
to devices within the cap, so closing one is enough, and there is an oldest to close: one with the
fewest others older than it (`OldestThere`, by the least number of a set). `WaitInv`: whoever waits
for a welcome to be written is an active member with that key. `PaidInv`: a request has one payment
if it is granted or about to be marked as that, none otherwise, and what is being written is for one
that still waits. The proof has one lemma for each action; those that close connections, admit one or
write an entry rest on `ClosingHeld`, `AdmittingHeld`, `RoomStays`, `RoomAdmits`, `PaidStays` and
`SignedPaid`. `DoorTyped` has the types.

### OfcTable: the poker table

`PlayInv` is the invariant of the play, for any rules, results and bounds. A seat in a hand
(`DealtSeat`) holds all the cards of its Fantasyland or has set its hand, or it holds its opening, or
has set as many cards as whole turns allow; what a seat is owed is what the rules can make it
(`Owable`). `Setting` is what keeps a hand going: the seat in turn is not in Fantasyland and holds
cards, and when it is nobody's turn, whoever is not in Fantasyland is done, and somebody is not.

* `TableTyped`: `OfcTypeOK`, with every card of the deck in a row, in a hand, among the discards or
  still in the deck. A seat's cards are the same before and after it places (`PutFacts`), and what is
  dealt is drawn (`DealtFacts`).
* `GoesOn`: TableGoesOn, from `Setting`: whose turn it is may place, and when it is nobody's, the seat
  that is not done is in Fantasyland and holds its cards (`DealtSeat`).
* `LastsToTheEnd`: DeckLasts. What the deck has beyond what the seats in turn still draw (`ToCome`)
  stays as it was dealt: a placing changes neither, and a draw both alike. Both theorems
  need `DeckHolds`; the run `ofc_deck` has rules without it, which the code accepts.
* `BooksBalance`: LedgerTellsAll. A ledger is followed entry by entry (`RunOf`); `BooksKept` says that
  the balances after its last entry are the scores, and that each settlement in it is `Squared`.
  A hand books the points it gives because what one seat wins of another the other loses
  (`WonFacts`). Payments make no points (`PayFacts`), so the balances since the last settlement make
  zero together where nothing was adjusted (`NothingMade`). The plan goes through the pairs of seats:
  what is left of the balances follows from the payments planned (`Tallies`), a pair that was gone
  through has no debtor left with a creditor, and stays so because settling turns no debtor into a
  creditor (`PairSettles`, `PlanGrows`). Balances that make zero with no debtor beside a creditor
  are zero (`NobodyOwes`).

### Grants: the devices of a player

* `PublishedInTheEnd`: `CaughtUp`. `PublishInv`: with one publication at a time at a root
  (`OneAtATime`), what is being published has everything signed out there, what is being stored has
  what is stored, and so the list only grows; and whatever is marked as signed out, and not on the
  list, was marked after the last publication that succeeded (`PubInv`).
* `StopsOnTheDay`: `StopsByDate`, for a player with one root and nothing overlapping. `Serials` (a
  serial is chosen with the approval, and is the grant's from then on) holds always; `ListedInv` for
  such a player: a serial is of one device, which is listed with it, once, as soon as its grant is
  signed (`Numbered`, which needs that nothing is being answered when the next serial is chosen); no
  grant, held or on its way, outlasts its entry (`Dated`); a grant being renewed is soon over and
  not signed out (`RenewalsDue`), so that the renewal's fresh entry neither shortens what a device
  holds nor undoes a sign-out (`Told`).

### Sync: the devices of a player, kept up to date

* `AlwaysLooking`: `StillLooking`. `PairInv` says of each two devices what their ends of a connection
  may rely on (`Orderly`): an end the peer does not know of is under way to it, the hello comes
  before the first message that is handled, a proof before anything that needs one. So no handler
  ever closes on one of the player's own devices (`NothingEarly`), and with `LoopInv` a device that
  is connected is a hub or has exactly one peer.
* `Converges`: `Converged`, for any number of devices and versions, any hubs that stop, connections
  that break and addresses that are lost. `ReachInv`, while nothing overlapped: a device tells no
  version it does not have (`Truthful`); data that are being applied are to be written exactly if
  they are newer than the copy, and the peer they came from has them (`JobsOk`); and of two devices
  that proved themselves, what one lacks of the other is still to be pushed, under way, being applied
  or wanted (`Brings`). The hub passes on what it writes to every peer but the one it came from, who
  has it; a device that is no hub has nobody else to pass it on to. That is where `LoopInv` and
  `JobInv` (data being applied came from a peer, or from one that is gone) are needed.

### What is checked by TLC only

* Liveness (`EveryCommandAnswered`, `AutopilotDeals`): fairness and ENABLED are out of the prover's
  reach.
* What recursive functions and folds compute for every input, which takes induction over data:
  `DiceUsed`, whose search goes through dice and positions, and that `proposeMatches` fills tables
  (that its groups get along is not needed, `groupIsSeatable` asks).
  `ProofLemmas` has the least number of a set, which is enough to reason about sequences element by
  element, and with it that steps in a row define a function (`Iterated`): ledgers and settlement
  plans need no more. The filter of `Sequences` (`SelectSeq`) has no definition the provers know; `TableSeats`
  removes a device from a list by its index instead (`Without`).

## 5. Not modelled

* The web application's screens, the console's pages and their stores: most of the implementation's
  lines. They hold no protocol state beyond what `Reopen`, `Mailbox` and `Dealers` model.
* The clients of external services: entropy and beacon sources, TURN, push delivery, backups. What
  the code in this repository makes of their answers and failures is modelled.
* Cryptography (signatures, sealing, hash chains, key wrapping) is taken to work; transfer,
  recovery, passkeys and locks are cryptography around a local store.
* The wire and the clients of a club, in-process transports, framing and ICE: calls matched with
  answers, messages in order.
* The verification of a finished table beyond what `DrawsVerifiable` asks, the conformance suite
  (tests of the operations `Club` models), prototypes and soak bots.

## 6. Plan

Done: the models; theorems for all safety properties of `TableFlow`, `TableSeats`, `ClubMatching`,
`Dealers`, `Grants`, `Sync`, `Mailbox`, `Reopen`, `Club`, `ClubDoor` and `OfcTable`, and the
refinement of `CommandService`.

No module of the project declares a RECURSIVE operator; sums are folds of the
community modules, or written out where they are over two or three seats.
