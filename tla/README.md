# Verification of magi-modules

TLA+ models of the agents in `vanikat/magi-modules`, their TLC instances, and
proofs checked by TLAPS. Paths are relative to the root of the repository
(`src/`).

## 1. Inventory

The repository holds agents for the MAGI testbed: Python 2 classes whose
methods are called by messages of an experiment procedure (`*.aal`), and two
C++ programs. The MAGI base classes are not in the repository. What matters of
them is how `src/` uses them: a `DispatchAgent` runs its methods one after the
other; a `NonBlockingDispatchAgent` runs every method in a thread of its own;
`messenger.send` is asynchronous and may deliver two messages in either order.

### The demand-response market (`dmm/`), the core

| part | state | operations |
|---|---|---|
| ISO (`dmm/iso/iso.py`) | round, `xi`, `statusGens`, `inactivePgLoad`, `lastHeardFromGenMap`, `grad_f_current`, matrices, `freqErrorStatus` | the loop `runSimulation`; `responseHandler` in a thread per client; `receiveRho`, `receiveFreqErrorNotice`, `removeGenerator`, `stopAgent`, `stop` |
| generator (`dmm/generator/generator.py`) | `P_G[k]`, `lastPgRcvdTs`, `currentGridTs`, multipliers, attack, `active` | `isoPgRequestHandler` in the thread of the stream; `sendPg` in a thread per request; `activate`, `deactivate`, start and stop of the deception |
| demand response (`dmm/demandResponse/demandResponse.py`) | as the generator, and the energy `E_D` | as the generator, and `receiveEdr` |
| grid (`dmm/gridDynamics/gridDynamics.py`) | latest power of every unit, `y`, `rho`, `E_D`, `freqErrorStatus` | `receiveTheta` (request, sleep, `compute`), `receivePg`, `receivePdr` |
| communication (`commServer.py`, `commClient.py`) | maps of clients, one TCP stream per client | connect, register, send, receive, stop |

In each round the ISO sends power to generators and units over TCP and angles
to the grid; the units answer with gradients; the grid asks every unit for its
power, computes the dynamics after a second, and sends prices, energies and
frequency notices. Nothing is acknowledged and nothing waits: the sleeps are
the only synchronisation. Hard behaviours: two unsynchronised threads in each
unit, late, lost and merged messages, a client that is not registered yet,
removal of silent generators by a loop that reads what other threads write.

Correct means: amounts outside the limits are not supplied; what the ISO was
told is what the unit keeps; replies arrive in the order of the rounds; a
generator is counted as supply or as lost load, never both; the matrices fit
the generators in the market; the loop ends.

### The BBB market (`iso_agents/bbb/`)

| part | state | operations |
|---|---|---|
| server service (`server_comm_service.py`) | per client a slot `valueOutMap`, a semaphore and a thread; `running` | accept, `serverSendValue` (write the slot, release), receive or flush in `ServerHandler`, `close` |
| client service (`client_comm_service.py`) | one slot and semaphore, `registered` | connect, `clientSendValue`, `ClientHandler`, `close` |
| server agent (`bbb_server_agent.py`) | `CIDList`, the loop | `initServer`, `startSimulation`, `runServer`, `replyHandler`, `sendAllExitMsg` |
| client agent (`bbb_client_agent.py`) | `running` | `registerWithServer`, `startClient`, `runClient`, `replyHandler` |
| dispatch (`bbb_iso.py`) and units | `unitList`, energy, power, agility of each unit | `agileBalancing`, `registerClient`, `deregisterClient` |

Two accesses of one slot by two threads, messages that merge, flags tested at
the wrong moment, exceptions that end a thread. Correct means: every value put
into a slot is shown to the client, or a newer one; a client that is told to
exit ends; energies stay within their limits and the buckets absorb the rest.

### Distributed Prony ADMM (`rls_distributed/`)

Clients send the parameters of a round, the server averages and broadcasts. A
client that cannot write, times out, or reads the end of the stream moves to
the next backup host, and starts the server there if it is its own. State: the
round and the number of attacks of each client, the connections and the
collected parameters of each server. Hard: a loss in the middle of a broadcast,
a timeout that races the answer. Correct means: averages are made of one round,
no old average is used, and the rounds go on after the loss of a server.

### Packet counters, DTN, and the rest

* **Packet counters** (`pktcounters/`): the rules of the kernel, the names the
  agent gave them, and a period that reads, deletes and sets them again while
  packets pass. Correct: no packet is counted twice.
* **DTN sender and receiver** (`dtn_send_recv/`): every method runs in a thread of
  its own and starts or waits for child processes. Correct: what was received is
  recorded once, a stop stops.
* **Centralised RLS** (`rls_centralized/`): streams of PMUs, and a list of the
  live ones that shrinks. Correct: exactly the disconnected ones are dropped.
* **Small agents**: agents that own a child process (flooder, hping, iperf,
  tcpdump, runcmd, attackreplay, http server, apache), HTTP traffic, links,
  statistics. Hard: a second start before a stop, a child that died.

`PROJECT.json` lists every component with its status, and every hazard at its
line with the properties that cover it.

## 2. Plan

In the order of importance; 1 to 8 are done.

1. `Generator`, `DemandResponse`: the units with their threads.
2. `MarketComm`, `ISO`: the service and the loop of the market.
3. `GeneratorProofs`: all safety properties of the generators, for every size.
4. `GridDynamics` and `GridDynamicsProofs`: the grid.
5. `BBBComm`, `LatestMailbox`, `BBBMailbox`: the service of the BBB agents, and the
   mailbox it implements; `BBB`: the agents over it; `BBBDispatch`.
6. `PronyADMM`: clients, servers, and the loss of servers.
7. `PktCounters`, `DTN`.
8. `DemandResponseProofs`, `ISOProofs`, `BBBProofs`, `PronyADMMProofs`,
   `PktCountersProofs`, `DTNProofs`: the safety properties of these modules, and the
   safety half of the refinement of the mailbox.
9. `Market`: the composition of ISO, generators and grid, with `Generator` as an
    instance whose specification the composition implements; the three records of
    a generator's power.
10. `RLS`, `ProcessAgents`.

## 3. Modules

**Generator** (`generator.py`). `ClientHandler` and `isoPgRequestHandler` are the
steps `recv -> check -> store -> mark -> grad -> send -> mu` of a program
counter per generator; every request of the grid is a thread `sendPg(k)` with
the steps `test -> load -> copy -> send`. A step ends where the other thread can
see or change something. Two reads of one field in one statement (`P_G[k]` in
`computeMu`, index and entry in line 160) are one step, and so are the three
fields of the deception attack. Amounts, gradients and multipliers are integers
instead of floats, and the gains `KMu`, `CG`, `BG` are parameters. The ISO and the
grid are environment actions: a dispatch per round at most, in order, with any
amount in `Power`; a request per round. They are not ordered with each other,
because the streams may delay either. `overlap` is a history variable: the
rounds in which both threads had work in progress on `P_G[k]`. Two fields of
messages are history too: `lie` of a reply, the part of the gradient that the
deception added, and `stored` of a report, whether the dispatch of its round was
stored when the report was sent.

**DemandResponse** (`demandResponse.py`). The same two threads; the handler stores
the raw amount (line 96) and clamps it in two more steps (98-101).

**MarketComm** (`commServer.py`, `commClient.py`). The halves of actions that touch
connections and streams: `InitCommClient` returns before `AcceptClient`
registers the client, several messages in one `recv` are dropped
(`ServerRecvMerged`), `stop` lets the threads leave. A thread tests `active` only
before it blocks in `recv`, so one that waits there when the server stops handles
one more message (`last`). `ISO` extends it and joins
its own half to each.

**ISO** (`iso.py`). One program counter for the loop (`top, pg, pdr, sleep, freq,
remove`), one step per message sent, because any send may raise and end the
thread (`died`). A reply is handled in three steps: gradient, power, heard. A
gradient is represented by the round it was made for; a dispatch is any amount
in `Power`, since the linear algebra decides it; of the matrices `config` keeps
which generators the loaded file leaves out, and `ShapesFit` says whether numpy
can multiply. `receiveRho` only feeds the price and is left out. `removedAt` is
history. Clients and grid are environment actions.

**GridDynamics** (`gridDynamics.py`). A thread `receiveTheta(k)` per round with the
steps `idle -> sleep -> test -> load -> store -> read -> notice -> rho -> energy ->
done`; `load` and `store` are the two accesses of `not self.freqErrorStatus` in line
197, `read` takes the status as an argument in line 198, and `notice` sends it in
line 242. In between `held[k]` is the value the thread has in hand.
Computing and sending `rho` are one step, and so are they for `E_D`, because no
other thread writes the entry sent. The angles are not kept: `compute` only logs
them. `y`, `rho` and `E_D` are integers per round, the matrices are gains, and
`Supply` is any function of the reported powers. `receivePg` and `receivePdr` are one
action over the units. The ISO's messages may come in any order, a report at any
time after its request. `early`, `met`, `overtaken` and `outside` are history
variables.

**BBBComm** (`server_comm_service.py`). The halves of actions that the service
takes: its accepting thread (`Accept`, `AcceptMerged`, `AcceptorLeaves`), the
owner's two statements of `serverSendValue` (`Assign`, `Release`), `close` (`CloseFlag`,
then `CloseRelease` for each client), and the thread of a client, whose program
counter `handler` goes `recv -> acquired -> sending -> recv`. A thread looks at
its semaphore only when a receive times out. `json.JSONDecodeError` does not exist
in Python 2, so where the code names it a thread dies; `ServerHandler` catches
everything there, and goes on. When the accepting thread has died its socket stays
open: clients still connect, and nobody accepts them.

**LatestMailbox** is what the service promises: `Put` a value, `Show` the latest one
as often as values were put, `Close` and show once more. **BBBMailbox** runs
`BBBComm` with any owner and any clients, and `IsMailbox` states that it
implements the mailbox (its own definitions have names such as `MailNext`, so that
`BBBProofs` can extend it together with `BBB`): `latest` is the slot, `due` counts the semaphore, a value
that was written and not released, and a permit that was taken, `shown` is what
the thread sends or has sent last.

**BBB** (`bbb_server_agent.py`, `bbb_client_agent.py`, `client_comm_service.py`) runs the
agents over `BBBComm`: `RegisterWithServer` and `StartClient` by the orchestrator,
the client's own thread (`ClientTimeout`, `ClientSend`, `ClientRecv`,
`ClientRecvFails`, `ClientLeaves`), `RegisterClient` and `ListClient` for the two
statements of the server's handler, and `runServer`. `probability` (line 16 of
`bbb_server_agent.py`) uses a module the file does not import, so the first round
raises and `finally` tells the clients to exit; the model follows the code in
this, and no dispatch is ever sent.

**BBBDispatch** (`bbb_iso.py` and the units) has `AgileBalancing(d)` as one action:
energies advance, agilities and forced powers are computed, batteries and
bakeries are served in the order of their agility, or given what they are forced
to, and buckets take or give the rest. Units with the same agility may come in
any order. The time step is 1 and energies are integers. Its names differ from those
of `BBB` where `BBBProofs` is about both: `units` is `unitList`, `RegisterUnit` and
`DeregisterUnit` are `registerClient` and `deregisterClient` of `bbb_iso.py`.

**PronyADMM** (`PronyADMM_Client.cpp`, `PronyADMM_Server.cpp`, `rDistributed.c`). A
client goes `connect -> write -> select -> read`; `Failover` is the part of
`attackResProtocol` before its loop around connect. A server goes `accept ->
collect -> broadcast -> ... -> finish -> closing -> closed`, and writes to one
client per step. `ConnectFails` is the first connect of a client to a main server
that is gone: it ends, since only a client that had a server looks for another.
Parameters are the round they belong to, an average the round of each
client. `Kill` ends the main server at any step. `SIGPIPE` is taken to be ignored,
so that writing to a closed connection returns an error, as the code expects.
A backup server is started in a thread of its client. A timeout that is no early
one comes when the server waits for a client that will never answer (`Hopeless`):
one that has ended, or that tries to connect to a server that is `Gone`. `unheard`
is a history variable: the clients that a message to finish was written to and
that will not see it.

**PktCounters** (`pktCountersAgent.py`, `pktcounters.py`). `Load`, `ClearLoaded`,
`AddNext` for each default counter, and `Store` are the steps of `periodic`; the
methods run one at a time and packets pass between any two steps. `missed` is a
history variable: the packets of which one can say why they are in no record.
`CountersAssumption` says that interfaces and filters are finite sets, that no
address of an interface is the name of one, and that a name `periodic` cannot parse
is not that of a default counter.

**DTN** (`DTN_send_recv.py`). Senders go `loop -> make -> send -> wait`, `stop_recv`
goes `sleep -> communicate -> wait -> poll`, one call at a time, and reads the
handle of the receiver again in each step, as the code does. Receivers write to a
pipe of `PipeSize` lines. Files are counted; contents and names are left out.

**MCGenerator**, **MCISO**, **MCGridDynamics**, **MCBBBDispatch** are instances for TLC.
`MCISO` reduces interleavings
that no property can tell apart: clients read at once what is sent (the delay is
the time an answer spends in the stream back), what only one step of the loop
reads changes just before it is read, and after a stop of the service the loop
goes on only when a thread has left, since until then the service does nothing
it would not do without the stop. `iso_live` has all interleavings.

## 4. Runs

| run | instance | what it shows |
|---|---|---|
| `gen` | 1 generator, 2 rounds, limits 2..3, amounts 1, 3, 4, one attack | `TypeOK`, `SuppliedInLimits`, `RepliesInOrder`, `RepliedIsKept`, `GradientFitsPower` |
| `dr` | 1 unit, 2 rounds, the same limits and amounts | `RawAmountIsTransient`, `RepliedIsKept` |
| `iso` | 2 generators, 3 rounds, silence after 1 round, files for both | `TypeOK`, `CountedOnce`, `GradientsAdvance`, `RemovedOnlyIfSilent`, `LoadIsKept`, `MatricesFitMarket` |
| `grid` | 1 unit, 3 rounds, powers 1 and 3, load 2 | `TypeOK`, `NoticesTellStatus`, `StatusIsCurrent`, `RhoMatchesEnergy` |
| `iso_live` | 1 generator, 1 unit, 2 rounds, no file, all interleavings | `LoopEnds` |
| `bbb_comm` | 2 clients, 2 puts, 1 message of a client | `MailTypeOK`, `IsMailbox` (refinement) |
| `bbb` | 2 clients | `ListedGetNoSentinel`, `ServerThreadsSurvive`, `ServerEnds`, `ListedClientEnds` |
| `bbb_dispatch` | 1 battery, 2 bakeries, 2 buckets, 4 steps, powers 0, 3, 5 | `EnergyInLimits`, `BucketsAbsorb`, `BucketsInOrder`, `UrgentFirst` |
| `admm` | 2 clients, 4 rounds of which the server does 3, 2 hosts, 2 early timeouts | `OwnRoundIsAveraged`, `AveragesDrift`, `LeftServerStops`, `FaultFreeRunEnds`, `SurvivesKill` |
| `pkt` | 1 interface, 1 counter of each kind, 2 packets, `MaxHandle` 8 | `TypeOK`, `CountedOnce`, `FailureCostsOnePeriod` |
| `pkt_remove` | the same | refutes `RemovesDefaults` |
| `dtn` | 1 keeper, 1 single sender, batches of 2, 2 rounds, 2 receivers, 2 stops | `OneFileAfterStop`, `RecordedOnce`, `StopRecords`, `StopRecvEnds` |

Why the bounds are enough. Generators and units do not interact, so one shows
all there is. Two rounds give a dispatch and a request of the same round, of an
earlier and of a later one; merged dispatches need two messages in the stream.
The amounts lie below, within and above the limits, and the 0 an entry starts
with lies outside them, so that it is told apart from every clamped amount. Two
generators and three rounds let both be removed, together or one after the
other, with replies of earlier rounds on the way; `Silence` is 1 instead of 10,
0 in `iso_live`. `Power = {1}` there: the properties ask only whether an amount is 0.

In `grid` three threads overlap in every order; the powers of several units only
matter as a sum, so one unit is enough, and with a load between its two powers
the frequency crosses the limit 0 in both directions.

In `bbb_comm` two puts are enough for a value that is overwritten in its slot and
a semaphore of 2, and closing adds a third release; the second client shows that
the loop of `close` may meet one that registers. `bbb` has no bound but the
clients. In `bbb_dispatch` the five units include two of the same kind with the same
agility, buckets of different size, bakeries that have to run and that may not
stop, and steps whose power is less than, equal to and more than what is forced.
In `admm` the two backup servers can both be lost, three rounds let clients come
to a server one round apart, and the fourth sample is one for which no server
averages. In `pkt` a flow may have its counter and one of the experimenter, and
`MaxHandle` 8, which lets seven handles be given, allows two periods of one
interface. In `dtn` a pipe of one line is
full with the second file.

Every run sets `CHECK_DEADLOCK FALSE`: rounds end, clients exit, children are told
to stop, and the bounds on packets, handles and calls are reached; then the system
stops. That something else stops it too early is what the liveness properties
exclude.

What the conditions in the properties mean. `RepliedIsKept` and `GradientFitsPower`
are not true of every round: a request of the grid that has tested
`lastPgRcvdTs` before the dispatch of the same round is marked copies an older
amount over the one stored. Both hold for all rounds outside `overlap`; dropped
conditions are refuted by TLC at once. That copy happens in the code, and so do
the other races named below: these properties do not exclude them, they show that
nothing else does the harm.

`SuppliedInLimits` says of a round whose dispatch was stored that the ISO and the
grid are told an amount within the limits. The 0 of an entry never written is told
in two cases only: for a round whose dispatch is not stored yet, and for one in
`overlap`, into which it can be copied. `RawAmountIsTransient` says the same of
demand-response units, where the raw amount is stored before it is clamped: only
a report of a round in `overlap` may be a raw amount, and what is kept once both
tests are done is not one. `RemovedOnlyIfSilent` names the one race in which a
generator that has just answered is taken out.

`NoticesTellStatus` holds until a thread toggles the status while another is between
reading it and sending it (`overtaken`): the older value may then be sent last.
`StatusIsCurrent` holds until a thread tests the frequency while another is between
its own test and the store (`met`), for then both toggle. `RhoMatchesEnergy` holds
for rounds that did not run ahead of an earlier one (`early`).

`LoopEnds` and `ServerEnds` count a loop that died of an exception as ended, as it
may: by a send to a client not registered yet (`commServer.py:106`), by
a missing file of matrices, or by a dictionary that changes while it is walked
(`server_comm_service.py:110`). They show that no loop waits for ever.

`FaultFreeRunEnds` excepts a client, and only that client, to which the main server
wrote the message to finish and which cannot see it, for one of three reasons: it
read it together with the last average; it had sent its next round, and closing a
socket with unread data took the message back; or it could not write its next
round any more and left the message unread. Such a client looks for a backup
server instead.

`ServerThreadsSurvive` allows a thread of the server to die for a client that
has stopped its service: the empty map such a client sends has no type.
`ListedClientEnds` names the three ways in which a listed client does not end: the
exit came before `startClient`, two exits were read at once, or the server's thread
tested the flag before it took the value. `AveragesDrift` says that only clients on
the main server are sure to be averaged in one round: each server lost in the
middle of its broadcast may set them apart by one more. `SurvivesKill` is about a
server lost while all clients wait; see the observations below for the other case.
`CountedOnce` names the windows in which packets are not counted.

The finding. `pkt_remove` shows that `removeDefaults`, "shortcut to remove default
counters added via addDefaults" (`pktCountersAgent.py:180`), removes none of them:
it asks for names made of the address of an interface (182-183), and they have
names made of its name (172-173). The trace is one call of `addCounter` that sets a
default counter under the name `setDefaults` gives it, and one of `removeDefaults`;
the rule is still there. `setDefaults` itself is not needed for it.

A second difference from a document is not a run of its own. The interface file
calls `filters` "the list of counters we should be keeping, only effective after
startCollection" (`pktCountersAgent.idl:9`). `periodic` deletes all counters of the
kernel (line 54) and sets only the default ones again (line 56), so those of the
configuration count during the first period and never again.
`FailureCostsOnePeriod` speaks of the default counters only, and of names that
`periodic` cannot parse; that a counter of the configuration goes as well is
neither required nor excluded by it.

Observations made while modelling, not claims of a document and so not findings:
the loop of the BBB server never gets through its first round; a main server that
is lost in the middle of its last broadcast lets client 1 finish without starting its backup
server, and the others then connect for ever; an average and the message to
finish that are read together lose the message; `start_recv` during `stop_recv`
makes it wait for a process nobody stops.

Fairness: `bbb_comm` assumes weak fairness of the thread of each client and of an
owner that has begun to send or close; receives have a time limit, and releasing
does not block. `bbb` assumes it of all threads together, of which every one is
runnable until it ends and takes finitely many steps; nothing is assumed of the
orchestrator's calls. `admm` assumes it of every client and server, without early
timeouts: `select` has a time limit, so that a timeout comes when nothing else
can. `dtn` assumes it of the senders and of a `stop_recv` that has begun; the child
that was told to terminate does. `iso_live` assumes weak fairness of the loop's steps only. The thread
sleeps with a time limit and never takes a lock, so the scheduler runs it
again. Nothing is assumed of clients, grid or operator.

Each property has a mutant in `PROJECT.json`: a variant of one action with a
plausible bug, defined just before the action, that makes TLC refute the
property.

## 5. Proofs

Every safety property of every run is proved, for every value of the constants,
and so is the safety half of the refinement. The proofs about a module are in
`<module>Proofs` (those about `BBBMailbox` and `BBBDispatch` in `BBBProofs`), and rest on
the assumption the module makes about its constants and on nothing else. In each,
one lemma or step per action shows that it keeps an inductive invariant, and the
theorem follows from it. TLC checked each of these invariants on the instance
of its run; for the one of `PronyADMM` with its two histories as variables.

`Generator`, for any set of generators, any number of rounds, limits and amounts,
from `GeneratorAssumption` (integers, `PMin <= PMax`, integer gains):

* `TypeCorrect`: `TypeOK` is inductive. The lemmas say that the indices `k`, `k + 1`
  and `Slot(lastPgRcvdTs)` are within the arrays.
* `SupplyIsLimited` (`SuppliedInLimits`): a report is read from `P_G` and an entry of
  `P_G` may have been copied from another one through `rpg`, so `LimitsInv` says of
  all three that they hold nothing outside the limits but 0. `StoredInLimits` says
  that the entry of a stored round outside `overlap` is not that 0 either; it needs
  `KeptInv` below, since a copy into such a round would bring it back.
* `OrderOfReplies` (`RepliesInOrder`): a reply is later than the ones before it
  because its dispatch was; `OrderInv` therefore orders the whole path: replies,
  then the message in hand, then the stream, then the ISO's round. Merged and
  stale messages leave gaps, so the order is all that can be said.
* `RepliedPowerKept` (`RepliedIsKept`): `sendPg(k)` copies only if `k` is later than
  `lastPgRcvdTs`, and `LastInv` says that every round replied to is not. A thread
  that decided earlier is the exception; `CopiesMet` in `KeptInv` says that it then
  met the store, and is in `overlap`.
* `GradientBelongs` (`GradientFitsPower`): `FitsInv` adds the moment between computing
  the gradient and sending it. The multipliers of a round are written while the
  round before is handled, which by `OrderInv` is before the first reply that uses
  them; `KeptInv` excludes a copy in between.

`DemandResponse`, from `DemandResponseAssumption` (the same of its limits and gains):

* `UnitTypeCorrect`: the types; only the proofs need them, so they are no run's.
* `RepliedPowerKept` (`RepliedIsKept`): as for generators, with a longer window: the
  amount of a round is being stored until both tests have passed. `LastInv` puts
  `lastPdrRcvdTs` between the rounds replied to and those still on the stream;
  `Met` in `KeptInv` says that a thread about to overwrite a stored amount, or to
  send while it is clamped, is in `overlap`.
* `RawAmountIsContained` (`RawAmountIsTransient`): `AllowedInv` says what is within the
  limits at each step of the handler: after the first test the lower limit holds,
  after the second both; everything else that is kept, copied or replied is within
  the limits or 0. `StoredInLimits` excludes the 0 for stored rounds outside `overlap`.

`ISO`, for any fleet, from `ISOAssumption` (a power that is sent is not 0; clients are
generators and units):

* `IsoTypeCorrect` (`TypeOK`): with `LoopInv`: inside a round there is a column
  `k + 1`, and the loop that removes visits generators only.
* `PowerCountedOnce` (`CountedOnce`): a late reply is stored even for a generator that
  is out. It does no harm because it belongs to a round up to the removal:
  `CountInv` bounds the rounds of all a client was sent, has in hand, and sent, by
  `LastRound`, and says that columns not computed yet are empty.
* `GradientsInOrder` (`GradientsAdvance`): `GradientInv` orders what is in both streams
  of a client, what was received last, and what was used.
* `RemovalsAreOfSilent` (`RemovedOnlyIfSilent`): a generator still to be visited was
  silent when it was listed, or its reply has reset the count since (`SilentInv`).
* `LoadNeverRebooked` (`LoadIsKept`): from the types; the loop leaves those alone that
  are out.
* `PricesFromRightMatrices` (`MatricesFitMarket`): `ConfigInv` says that while the loop
  runs the matrices leave out nobody, with everybody in the market, or one that is
  out; the shapes then tell whether there are more.

`GridDynamics`, for any units, rounds, load, gains and supply, from
`GridAssumption` (they are integers):

* `GridTypeCorrect`: `TypeOK` is inductive.
* `NoticesAreRight` (`NoticesTellStatus`): `NoticeInv`: as long as no thread was
  overtaken, what a thread is about to send is the status. A thread that toggles
  has still to read and send, so the property asks nothing before it has.
* `StatusIsRight` (`StatusIsCurrent`): `StatusInv` says that, until two threads met, at
  most one is between test and notice, and what the status is at each of its steps.
* `PriceFitsEnergy` (`RhoMatchesEnergy`): `SumInv` says that a round whose turn it is
  starts from entries that no thread writes again; the step is an identity between
  the two sums (`Proportion`).

`BBB`, for any set of clients:

* `ListedAreToldProperly` (`ListedGetNoSentinel`): a slot holds the filler until the
  exit is put into it, so the client must not be shown it before. `QuietInv`: until
  the first round nothing releases a semaphore. `ExitInv`: from then on, a listed
  client either has the exit in its slot or its thread sleeps and is still to be
  told; the exit is written before the release, and nothing is written after it.
  `ListedInv` ties both to the order of accepting and listing.
* `ThreadsOutliveClients` (`ServerThreadsSurvive`): `PermitInv` says that while a client
  serves it has at most the one permit of its registration, which
  `RegisterWithServer` gives, so that what it sends is never the empty map.

`BBBMailbox`, under any owner and any clients:

* `MailboxTypeCorrect` (`MailTypeOK`).
* `ImplementsMailbox`: `MailSpec` implies `Mailbox!Init` and `[][Mailbox!Next]` of the
  mailbox's variables, which is `IsMailbox` without its fairness. Every action is a
  `Put`, `Show`, `Close`, `LastCall`, `Join` or `Part` of the mailbox, or changes none of
  its variables.
  `MailInv` supplies what the mapping needs: nothing is kept for a client before
  it is accepted, so that joining shows nothing, and only `close` leaves
  semaphores to release, once each.

`BBBDispatch`, for any units, limits, agilities and powers to divide, from
`UnitAssumption` (integer limits around 0, a positive `pMax`, batteries and bakeries
that only take):

* `EnergyStaysInLimits` (`EnergyInLimits`): with `DispatchInv`: the types, and finitely
  many units, so that what they are given has a sum. `ForcedBounds`, `ShareBounds` and
  `BucketShareBounds` bound what a unit of each kind is given by its limits at the
  energy of the step, which the invariant says is within the limits.
* `BucketsTakeTheRest` (`BucketsAbsorb`), `BucketsServeInOrder` (`BucketsInOrder`),
  `UrgentAreServedFirst` (`UrgentFirst`): what is left is handed from unit to unit by a
  recursive function. `RestExists` and `RestStays` are inductions along the sequence
  of units: there is such a function, and what is left keeps its sign and, once
  used up, stays 0. `SumOfTurns` adds up what was taken: the residual is what is
  left after the last bucket. The orders follow from `Sorted` and `Reverse`.

`PronyADMM`, for any number of clients, hosts, rounds and early timeouts, from
`ADMMAssumption` (there are as many hosts as clients, or more):

* `ADMMInvariant`: `IInv`, from which the others follow. Rounds are counted by each
  client alone, so that nothing in the state says which round of client `c` the
  n-th average of server `s` belongs to. `RoundsInv(base, turn)` therefore speaks of
  two histories, the round `base[s][c]` in which `c` came to `s` and the number
  `turn[s]` of averages `s` has made, and `IInv` says that such histories exist; each
  action is shown to keep them or to extend one. `GotInv`: what a server has read
  is of its turn for all clients. `SeatInv`: a client is at its server's turn, or one
  behind with the average before it or still to be sent to it. `UpInv`: at most
  one message is on its way.
* `ADMMTypeCorrect`, `OwnRoundAveraged` (`OwnRoundIsAveraged`).
* `DriftIsBounded` (`AveragesDrift`): `BaseInv` bounds the differences at server `s` by
  `s`: a server that is lost has been left by each client after all of its averages
  or all but the last (`PairInv`).

`PktCounters`, for any interfaces, counters and packets, from `CountersAssumption`:

* `PacketsCountedOnce` (`CountedOnce`): `CountInv` adds that agent and kernel know the
  same counters with a name each, that the counter of a flow counts that flow, and
  that `periodic` holds counts only between reading and resetting.
* `FailureIsOver` (`FailureCostsOnePeriod`): `ResetInv`: while counters are reset, a
  default counter is set or to be set, and no other counter is.
* `CountersTypeCorrect` (`TypeOK`): the bound on an amount that is held needs that a
  rule counts no more than passed on its flow (`RulesInv`), and that what passed on
  one flow is no more than the sum over all, which `MaxPackets` bounds.

`DTN`, for any senders, receivers, files and pipes; the three follow from one `IInv`:

* `OneFileMore` (`OneFileAfterStop`): `KeeperInv`: while the flag is set nobody is
  charged, and after it one file, being made or sent.
* `NoFileRecordedTwice` (`RecordedOnce`): a receiver is collected once; the sum over
  the receivers changes by what one of them changes.
* `AllButOneRecorded` (`StopRecords`): `PipeInv`: what a receiver wrote is in its pipe
  but for the line it waits to write. `StopInv`: what `stop_recv` knows at each step
  of the receiver it read, as long as no other was started.

Sums over finite sets (`MapThenSumSet`), and what is left along a sequence of units,
are recursions that no induction theorem is at hand for: the lemmas on them
(`SumFcnIsSum`, `SumBounds`, `RestStays`) take the least size or index for which they
fail, and refute that.

Only model-checked:

* Liveness, and the fairness half of `IsMailbox`: `LoopEnds`, `ServerEnds`,
  `ListedClientEnds`, `LeftServerStops`, `FaultFreeRunEnds`, `SurvivesKill`,
  `StopRecvEnds`. They need `ENABLED`, which the prover does not reason about.

## 6. Not modelled

Floating point, the database inserts, logging, configuration files. The
deadlines of sleeps: a step after a sleep may come at any time. Errors of the
operating system other than those of sending, connecting and starting a child.

* `stopSimulation`, deregistration, `setParam` and the client's `updateUnit` in the
  BBB agents: nobody calls them, or no dispatch gets as far. The unit a client keeps.
* The numerics of the Prony algorithm and its database, and the stream of samples:
  a client starts when its samples are there.
* `sense` and the topology of the packet counters, which read only; the readers
  for FreeBSD and Windows, which differ in parsing.
* The daemons of the DTN agent, `random_send`, and the contents of its files.
* `rls_centralized` and the agents that own a process: next in the plan.
* HTTP traffic agents: the classes that hold their timing are not in the
  repository. Link, statistics and shell agents: system calls without state.
* `iso_agents/dmm`: unfinished, some of its files do not compile. MATPOWER, data,
  plots and scenario scripts: third-party or one-shot.
