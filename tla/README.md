# A TLA+ model of MeshSim

MeshSim simulates a wireless mesh access network with ns-3: it builds the
network from configuration files, installs applications on its nodes, runs
the simulation and writes statistics.  Scripts around it stage campaigns of
many simulations and collect their results in a database.  This directory holds TLA+ modules for
the parts of the repository that have state and control of their own, TLC
configurations that check them on small instances, and TLAPS proofs for some
of them.

    tlc -config RqRecover.cfg MCRqPipeline      # a run
    tlapm OnOffApplication_proofs.tla           # a proof

Paths below are relative to `src/`.

## 1. The system

MeshSim is one thread: ns-3 keeps a queue of events and runs each handler to
its end.  What is concurrent is *between* the handlers: timers, packets that
arrive, connections that are set up, send buffers that drain, applications
that start and stop may come in any order that time and the network permit.
The simulator persists nothing it reads again: an assertion or a null pointer
ends the simulation.  The scripts do: they leave directories, rules, captures
and a database on disk, and staging, `make` and the simulations may be
interrupted between any two steps and be called again.

| Part | State it keeps | Operations | Talks to |
|---|---|---|---|
| RQ encoder, `ns3_apps/rq-encoder.cc` | accepted sockets and byte counts per Rx slot, next slot to probe, block, symbol, symbols per stream | start, stop, accept, timer `SendPacket` | TCP peers; UDP to the decoder |
| RQ decoder, `ns3_apps/rq-decoder.cc` | current block, packets of it received, symbols known and without gap per stream, bytes buffered | start, stop, connected, `HandleRead`, `TryToSend`, `HandleSend`, trace `DecodeInfo` | encoder; TCP peers; decoding report |
| Proxy base, `ns3_apps/proxy-base.cc` | slots: sockets, accepted sockets, flag `connected`, totals | life cycle of the three proxies | the proxies extend it |
| Timed proxy, `ns3_apps/timed-proxy.cc` | stored packets, end of the last transmission, send event | `HandleRead`, `SendNextPacket` | UDP both sides |
| Streaming server, `ns3_apps/onoff-application.cc` | two events, residual bits, byte and sequence numbers | start, stop, start/stop sending, `SendPacket` | client |
| File server, `ns3_apps/bulk-send-application.cc` | connected, bytes sent | start, stop, connected/failed, `SendData`, `DataSend` | client over TCP |
| Client, `ns3_apps/packet-sink.cc` | sockets, bytes received | start, stop, accept, read | its Rx trace feeds the loss log |
| Loss log, `sim/app_rx_cb.cc` | heap of the last sequence numbers, largest popped | Rx trace, byte count timer, destructor | a log file |
| Decoding report, `sim/app_rq_dec_cb.cc` | one cached record | decoder trace, destructor | a log file |
| Apps configuration, `sim/apps_config.cc` | applications, defaults, connect statements | reading `apps.txt` | apps manager |
| Apps manager, `sim/apps_manager.cc` | applications by tag, ports, trace files | create, connect | everything above |
| Routing configuration, `sim/routing_config.cc` | routes per host | reading `routing.txt` | mesh set-up |
| Routing generators, `scripts/genroutingtables`, chain templates | none | write `routing.txt` | |
| Mobility and wifi configuration, `sim/mobility_config.cc`, `wifi_config.cc`, `ns3object_config.cc`, `ns3_utils.cc`, `.h` | position allocators; standard, rate control, PHY attributes and channel models | reading the files, configuring the helpers | ns-3 helpers |
| Mesh set-up, `sim/mesh_sim.cc`, `main.cc` | nodes, addresses, routing tables, captures | command line, `LoadConfig`, `CreateSim`, `Run` | all configuration parts, ns-3 |
| Staging, `scripts/stagesim`, `modules/enumerators.py`, `modules/genconf.py` | a directory per parameter set, a Makefile | enumerate, apply templates, write rules | make, gzip, the simulator |
| Results database, `scripts/createresultsdb` | tables of parameters, samples and summaries | one function per table | logs of the simulations, SQLite |

What is hard in each, and what makes it correct:

* **Coded relay** (encoder, link, decoder).  Packets are lost, duplicated and
  reordered; the decoder learns how many symbols of which stream a block
  holds only from the headers that survive, and must pass each stream on
  without gaps or repetition.  Correct: never more bytes out than in;
  everything out if losses stay within the code's redundancy; no stream
  starved.
* **Timed proxy.**  A self-rescheduling event that only a packet finding an
  empty store sets up; slots computed on truncated milliseconds.  Correct: no
  stored packet without an event, nothing sent outside its slice, the rate
  kept.
* **Streaming server.**  Packets interrupted by off periods carry a truncated
  residual on; several events may fall on one instant.  Correct: events
  match the state, the rate is kept over any number of interruptions.
* **File server.**  Partial sends and a wake-up that comes from the socket.
  Correct: no byte lost or counted twice, no wait for a wake-up that will not
  come.
* **Logs.**  Loss and decoding statistics are reconstructed from partial
  information with a bounded memory.  Correct: a line means what the
  documentation says it means.
* **Configuration.**  Six files read in turn, any of which may be refused at
  any line; order-dependent defaults; objects whose attributes accumulate over
  lines; N:1 and 1:N connections that hand out ports and slots; static routes
  written by scripts.  Correct: what is written is what is installed, exactly
  the sound set-ups run, and packets arrive.
* **Campaign.**  Enumerations of enumerations; templates that fail in the
  middle; recipes that are interrupted and called again over what they left.
  Correct: every parameter set once, no result that is half of one or mixed
  of two, progress whenever `make` is called again.
* **Results.**  Logs of finished and of dead simulations look alike.  Correct:
  the summaries account for every packet, and only whole logs are summarised
  for losses.

## 2. Modules

| Module | Models | State / actions and the code |
|---|---|---|
| `RqHeader` | `rq-header.cc` | packet record, `uint64_t` number and its cast to `int` (`IntMod` stands for 2^32) |
| `RqLink` | the UDP path (ns-3, external) | packets in flight; `Lose`, duplication, reordering, each with a budget |
| `ProxyBase` | `proxy-base.cc` | life cycle, accepted sockets, connection flags; instantiated by encoder and decoder |
| `RqEncoder` | `rq-encoder.cc` | `SendSource`, `SendRepair` are the two ends of `SendPacket`; `SendRepairAfterStop` is its assertion failing |
| `RqDecoder` | `rq-decoder.cc` | `RecvPacket` is one turn of `HandleRead`'s loop, `EndRead` its end; `HandleSend` with `TryToSend` |
| `RqPipeline` | the relay of `sim_configs/rqtest` | composes encoder, link and decoder |
| `AppRqDecCb` | `app_rq_dec_cb.cc` | the callback as an operator on its object |
| `RqReport` | relay with report | composes `RqPipeline` and `AppRqDecCb` |
| `TimedProxy` | `timed-proxy.cc` | clock in ticks; `HandleRead`, `SendNextPacket`, `NextTxTime` |
| `OnOffApplication` | `onoff-application.cc` | the four pending events and the order the simulator runs them in |
| `BulkSend`, `PacketSink` | `bulk-send-application.cc`, `packet-sink.cc` | `SendData` is a loop of `SendChunk` steps ended by `EndSendData` |
| `FileTransfer` | the two over TCP | composes them; `Accept`, `Deliver`, `Connect` are the network |
| `ByteStreams` | nothing: an abstract specification | bytes taken from senders, delivered to receivers, never more than taken |
| `AppRxCb` | `app_rx_cb.cc` | the heap as positions in the history of arrivals; both logs |
| `ResultsDb` | `createresultsdb`, summaries | extends `AppRxCb` with a simulation that may die and the script over the logs it leaves |
| `ConfigReader` | `io_utils.cc`, `MeshSim::LoadConfig` | the file and the line read next; how a problem ends the program |
| `ObjectConfig` | `ns3object_config.cc`, `ns3_utils.cc`, `.h` | an ns-3 object's description, and what setting it comes to |
| `MobilityConfig`, `WifiConfig` | `mobility_config.cc`; `wifi_config.cc` with the configure functions | one action per kind of line, and the refusals |
| `AppsConfig` | `apps_config.cc` | one action per kind of line, and the refusals |
| `AppsManager` | `apps_manager.cc` | extends `AppsConfig`; creates, connects, refuses or crashes |
| `RoutingTables` | generators | the files, as operators on the network's size |
| `RoutingConfig` | `routing_config.cc` | one action per kind of line, and the refusals |
| `MeshNetwork` | `mesh_sim.cc`, the network | composes the two; installs the routes and forwards a packet |
| `MeshSim` | `main.cc`, `mesh_sim.cc` | composes all configuration modules and the network; `status` is how far the program has come |
| `Enumerators` | `enumerators.py` | the enumerators as operators, and a reference: how often a description stands for an assignment |
| `Campaign` | `stagesim`, `genconf.py`, the Makefile they write, the params table of `createresultsdb` | staging step by step, recipes of several jobs, interrupts, `make clean`; what a description yields is the operator constant `EnumGen` |
| `StagedCampaign` | the two together | extends `Campaign` and `Enumerators`, of which the configuration takes `EnumGen` |
| `MC...` | | instances for TLC |
| `..._proofs` | | theorems about the module of that name |

Abstractions.  Payloads are counted, not carried (the encoder and the decoder
send dummy bytes themselves).  A line of a configuration file is a record;
tokenizing is left out, the number of tokens kept where the code tests it
or reads a token without a test.
What ns-3 knows (types and their attributes) is the constant `Known`.  A file
that a simulation writes is reduced to which simulation wrote it and whether
it is whole.
Time is a tick count, finer than a millisecond or a bit where the code
truncates.  Logging is left out except for the two logs whose content the
properties are about.  Definitions called "faulty variant" are not part of
the model: each is a plausible mistake in the definition after it, kept to
show that the property guarding against it notices.  Variables marked
"history" record the past for the properties and are read by no guard.

## 3. Runs

| Run | Module, cfg | Shows |
|---|---|---|
| `encoder` | `MCRqEncoder`, `RqEncoder.cfg` | header counters agree with the block at every symbol (`CountsMatchEsi`); a readable stream waits for at most one symbol of each other (`RoundRobin`) |
| `rq_loss` | `MCRqPipeline`, `RqLoss.cfg` | under loss and duplication, order kept, each stream is an abstract byte stream, so never more bytes out than in (`ImplementsStreams`) |
| `rq_reorder_over` | `RqReorderOver.cfg` | **violated**: with reordering more bytes leave than came in, see findings |
| `rq_recover` | `RqRecover.cfg` | up to N-K losses per block: every finished block passed on in full (`BlocksRecovered`) and in the end sent (`BlocksDelivered`) |
| `rq_report` | `MCRqReport`, `RqReport.cfg` | any loss, reordering and stops: any K packets suffice to know a block's counts (`KnownWhenDecodable`); one exact report line per block (`ReportExact`, `ReportComplete`) |
| `timed_proxy` | `MCTimedProxy`, `TimedProxy.cfg` | an event exactly while packets are stored (`EventPending`); sent in active slices before the taper (`SentInSlice`), at the first such time (`NoMissedSlice`), at the configured rate (`PacedInBurst`) |
| `onoff` | `MCOnOffApplication`, `OnOff.cfg` | `EventsFollowState`, `DueWhenGenerated`, `RateAccounting`, `StopsAtLimit` |
| `onoff_seqno` | `OnOffSeqno.cfg` | **violated**: datagrams are not numbered, see findings |
| `file_transfer` | `MCFileTransfer`, `FileTransfer.cfg` | no byte lost or counted twice (`BytesConserved`); the server waits only for a callback that comes (`NoLostWakeup`) and closes only a complete transfer (`ClosesWhenDone`); the file arrives (`FileDelivered`); the transfer is an abstract byte stream (`ImplementsStream`) |
| `results_db` | `MCResultsDb`, `ResultsDb.cfg` | lost means overtaken by a window of packets (`LostIffLate`); the lost ranges hold exactly the numbers, up to the largest processed, of which no packet came or only late ones, and of the packets that have left the heap each late one has a `large_reorder` line and each other copy a `dup` line (`LogTrue`, of `LossesExact` and `CopiesExact`; what is in the heap when the log is closed is logged as neither); the summary accounts for every packet (`SummaryAccounts`); no loss summary of a simulation that died (`OnlyFinishedSummarised`); whole seconds without gap or overlap (`SecondsCounted`) |
| `setup` | `MCMeshSim`, `MeshSim.cfg` | applications, connections with their tags in order, and all objects of the wifi networks are as written (`ConfigAsWritten`); ports, trace and capture files are never shared (`NothingShared`); exclusive connections are heard (`ExclusiveHeard`); what cannot be followed does not run (`OnlyUsableRuns`), what is sound does (`SoundRuns`), and what runs is sound but for surplus tokens in `routing.txt`, see section 5; every packet arrives over the generated tables (`PacketArrives`) |
| `campaign` | `MCCampaign`, `Campaign.cfg` | every parameter set staged as often as described (`StagedAsDescribed`); no simulation on half a configuration (`SimulatedAsStaged`); `done_sim` stands for whole results of one simulation (`DoneIsWhole`); the parameters table says what was staged (`ParamsTabulated`); calling make again finishes every run that is not stuck (`RunsFinish`) |

Bounds, and why they are enough:

* Relay: two streams (three for the encoder alone, so that a wrap-around
  passes over two others), K = 2, N = 3 (3 and 4), two blocks, so that a
  block boundary, a source packet, a gap and a repair packet all occur with
  packets of both blocks in flight (`MaxInFlight` = 2).  `TxBuf`, of 1 or 2
  bytes, is less than a decoded block may leave to send to one receiver, in
  `RqRecover.cfg` (`TxBuf` = 1) and `RqLoss.cfg` (2 for symbols of two bytes),
  so that `TryToSend` sends in parts and goes on from `HandleSend`.  `LossBudget` = 3 = N means any packets of a
  block, 1 = N - K what the code must repair.  `IntMod` is beyond every
  number reached: the cast is modelled, its overflow is not exercised.
* Timed proxy: three slices, two of them adjacent and active, a taper of one
  millisecond, half-millisecond ticks: a cycle and a bit, with a slot
  boundary inside a burst of four packets of two sizes.
* Streaming server: on periods of zero, part of a packet, exactly one packet
  and two (`OnTimes`); off periods that are not whole bits; stop before the
  start, at an instant where other events are due, and late; packets of two
  bytes and a limit of three, which the second packet passes.  `UIntSize`
  stands for 2^32; it is far beyond the times reached, so that an unsigned
  difference that wrapped would put a packet off for good, which
  `DueWhenGenerated` would see.
* File transfer: a buffer smaller than two chunks and a file that ends inside
  a chunk.  `MaxTotal` caps the bytes of a server without limit.
* Results database: five arrivals of five numbers with a gap, window two; and
  five packets, some without a header, at distances of none, a part of a
  second, a second and more, in seconds of three ticks.  A dead simulation's
  logs end at any line, and inside the last one.
* Set-up: one part of a set-up varies at a time over every file of up to two
  or three lines: sixteen kinds of line of `apps.txt`, nineteen connect
  statements over eleven applications (too many for the slots, across the
  wrong types), twenty wifi lines alone and after a sound file, ten mobility
  lines, nine wrong and twelve further routing lines (of one to five tokens,
  with metrics and without), every command line and every missing file.  `MaxAttributes` = 2 stands for eight and is passed.
* Routes: three mesh nodes, two stations at any of them, `Offset` = 10 for
  the 100 of the address plan; or the chain.  Optionally one faulty line in
  front of the file.
* Campaign: every pair of fifteen descriptions in a product, a union and a
  product of products, staged once; templates that lack a key or whose PHP
  fails; and two or three runs, two captures, two jobs, with two interrupts or
  cleanings at any step.  `MaxRuns` = 4 is the longest of the lists.

Deadlock is not checked: a simulation that has run out of packets, input or
time simply ends.

Fairness.  `RqPipeline`: the encoder's timer reschedules itself before
anything else in `SendPacket`, so it fires for ever; ns-3 delivers packets it
does not drop and completes connections to a listening peer; a TCP socket
with data to take acknowledges and calls the send callback (`SendProgress`).
Weak fairness of these is enough.  Input from the peers, loss and stops are
not fair.  `FileTransfer`: handlers run to their end, TCP delivers and
acknowledges, a receive callback reads.  `MeshSim`: the program
goes on until it is ready or ends, and a packet that a route takes further is
forwarded.  `Campaign`: processes go on, and `make` is called while a run is
not done; interrupts, cleaning and `createresultsdb` are not fair.

## 4. Proofs

Everything below holds for all values of the constants that satisfy the
ASSUMEs of the modules; TLC evaluates those in the runs.

**`RqPipeline_proofs`**, the encoder by itself: `EncTypeCorrect`,
`RoundRobinCorrect`, `CountsMatchEsiCorrect`.  `RoundRobin` (no readable slot passed over `NSlots`
times) is not inductive: nothing in it says why the next symbol would not
pass the slot over once more.  `RoundRobinInv` adds that for a readable slot the times it was passed over
plus its distance from `m_nextRxSlot` in probing order stay below `NSlots`.
A symbol read from slot t moves the probe behind t; every readable slot lies
behind t in probing order, so it comes nearer by at least one
(`DistFromNext`).  `CountsMatchEsi` is stated over the symbols counted as a
finite set of pairs, so that a symbol more is an element more
(`CountedOneMore`) and no sum over the slots is needed.

The relay, in the same module: on any link `TypeCorrect` and
`PipelineRoundRobin`; on others, each under the hypotheses it names,

* `KnownWhenDecodableCorrect`: no duplicates (`DupBudget = 0`), fewer than
  2^31 packets (`NoOverflow`: `HandleRead` casts the number to an `int`);
* `NoOverDeliveryCorrect` and `ImplementsStreamsCorrect`, the refinement of
  `ByteStreams`: a link that keeps the order, duplicates allowed, fewer than
  2^31 packets (section 5 has what happens without the order);
* `BlocksRecoveredCorrect`: neither duplicates nor reordering, and no block
  loses more than N - K packets.

The counters in a header are followed from the encoder through the link to
the decoder.  `startAt[b] + T * counter` is a number of bytes read for the
blocks up to b: `BlocksInv` says so of the encoder, `LinkInv` of every packet
in flight (no more than what was read for its block, and from packet K - 1 of
a block on exactly that), `CountInv` of the decoder's `nsymb`.  `OnceInv`
makes `m_sb_nrcv` the number of distinct packets, so that K of them include
one that claims everything: `KnownWhenDecodable`.  `OrderInv` puts every
packet in flight ahead of what the decoder knows, strictly on its own stream
unless it is a copy of the last one; `PassedInv` then bounds what has been
passed on by the reason there was for it.  Bytes of a block are finished when
the next one begins, and `startAt` of the next block is `Ends` of the last.
For recovery the bound becomes an equation (`RecoverInv`), and `LossInv` says
where each packet is: with at most N - K lost, K have come before the block
changes.

**`RqReport_proofs`**: `ReportExactCorrect` and `ReportCompleteCorrect`, on a
link that loses and reorders but does not duplicate, fewer than 2^31 packets.
The report has a line in memory and lines written; `Lines` is the report as
it would be were the callback destroyed now.  `ReportInv` says of `Lines`
that it has one line for each block traced so far (`TracedIn`), in order, and
that those of blocks before the current one are exact; a trace call either
appends a line or replaces the last.  The line of the current block may
still be behind, and is exact when the next block or the end flushes it.

**`FileTransfer_proofs`**: `TransferTypeCorrect`, `BytesConservedCorrect`,
`ClosesWhenDoneCorrect` and, under `SendSize <= TxBuf`,
`NoLostWakeupCorrect`.  `TransferInv` ties `m_connected` and the loop of
`SendData` to the connection (`ConnInv`).  For the wake-up: `SendData` ends
with more to send only if the last chunk did not fit; if a chunk fits into an
empty buffer, then the buffer is not empty, and its acknowledgement calls
`DataSend`.  Without that assumption a server whose first chunk is refused
would wait for ever.  `ImplementsStreamCorrect` is the refinement: under the
mapping of `m_totBytes` to the bytes taken and of the client's count to those
delivered every step is one of `ByteStreams` or changes neither, because
`BytesConserved` bounds what a read can deliver by what was taken.

**`OnOffApplication_proofs`**: `OnOffTypeCorrect`,
`EventsFollowStateCorrect`, `DueWhenGeneratedCorrect`,
`StopsAtLimitCorrect`, `RateAccountingCorrect`.  `OnOffInv` adds that no
pending event lies in the past and that there is no socket before the start.
The type invariant needs the residual to stay within a packet: a packet is
cut no later than it is due, so no more bits are generated than remain
(`DivAtMost`); this is why the unsigned difference in `ScheduleNextTx` does
not wrap (`NoWrap`), and the pending packet is due when its remaining bits have
been generated (`DueInv`).  `RateAccounting` follows from that at a send and
from the bounds of truncating division at a cut (`CutBalanced`).
`DueWhenGenerated` is the same account for the packet under way alone
(`PacketBalanced`), which a send begins anew.

**`TimedProxy_proofs`**: `TimedTypeCorrect`, `EventPendingCorrect`,
`NoMissedSliceCorrect`, `PacedInBurstCorrect` and, under
`SliceTaperMS < SliceWidthMS`, `SentInSliceCorrect`.  Two parts.  The search:
an active slot lies at most a cycle ahead (`NextActiveFacts`, from the least
number of a set), the test with `slot_taper` is the test of the place within
the slot (`TaperTest`), and no tick before the one found permits sending
(`NothingMissed`).  The schedule: `PacedInBurst` compares a packet with the
one after next, so the invariant says what of `m_txEndTime` is still to come:
it leaves room for the last packet after the pending event (`RoomForLast`),
or the pending event already keeps the distance (`RoomForSecond`).  If the
taper is as long as a slot, packets leave at the beginning of slots all the
same, hence the assumption.

**`ResultsDb_proofs`**: `LostIffLateCorrect`, `LogTrueCorrect`,
`OnlyFinishedSummarisedCorrect`, `SummaryAccountsCorrect`,
`SecondsCountedCorrect`, for every window, every order of arrivals and every
unit of time.  `HeapInv` is about the history of arrivals, the heap, the largest number popped and the log, without primes, so
that `rxCb` is a pop (`PopKeeps`) followed by a push (`PushKeeps`).  It adds
that what has left the heap is at most `pl_largest_popped`, and that at least
a window of packets with numbers no smaller have come (`Processed`): it was
popped as the smallest of a full heap.  A packet that comes with a number
below it is therefore overtaken by a window of packets; one above it can be
overtaken only by what is in the heap.  For `LogTrue`, `CopyInv` counts: of
each number the packets out of the heap that were late are as many as its
`large_reorder` lines, the others one more than its `dup` lines; a pop moves
one packet from the heap to the one or the other (`PopCopies`), and a packet
in the heap is overtaken by a window exactly if its number is below the
largest popped.

The script takes a run for finished by the line `largest`; `LargestLast` says
that the destructor alone writes it, after everything else, and `DbInv` that
a table was made only from such a log.

The summaries are folds.  What a fold yields is proved without induction
over the data: its defining equation is `iter = SumFrom(log, iter)`; a closed
form satisfies it (`SizedIsSum`, `CumsAreCum`), and two solutions agree, for
a least set on which they differ would have a smaller one (`SumUnique`,
`CumUnique`).  The closed form of `loss_pkt_count` is the number of pairs of a
line and a number in its range (`Sized`).  `AccountInv` then says that the
packets received are those in the heap and those tallied by the log; a pop
moves one from the first to the second (`PopCounts`).  The closed form of
`_get_rate_stddev` is, after the samples from some on, for each boundary
passed the bytes of the last sample up to it (`CumAt`); that a sample adds
those between it and the next one (`CumGrows`) is where truncating division
has to add up (`TurnsAdd`).  `SecondsInv` says that times and bytes of the log
rise, which makes that sample the one with the most bytes.

**`MeshSim_proofs`**: `NothingSharedCorrect`, `ExclusiveHeardCorrect`,
`ConfigAsWrittenCorrect` and `OnlyUsableRunsCorrect`, for every command line and
every set of configuration files.  `SharedInv`
says of each application's ports and trace files that they were numbered below
`sindex` and that the numbers differ (`FreshPorts`, `FreshTraces`), and of the
capture files that they come from different addresses (`AddressesDistinct`).
`ExclusiveHeard` needs to know where in `createConns` the loops are:
`SetupInv` relates the position to the statements read, and `LinkedInv` says
of every connection made that, as long as no later one shares its
applications, the slots its position gives hold the same address and port
(`Works`).  Two connections of one statement use different slots or different
applications, because `createConns` refuses several senders or receivers that
have one slot (`SlotsDiffer`).

For `ConfigAsWritten` the invariant says of each file what has been taken of
the lines read so far (`TakenInv`): `DefaultsRead`, `AppsRead`, `ConnsRead`,
`WifiRead`, relations between the lines, their number and what is held, so
that one lemma per reader moves them on by a line (`DefaultsLine`, `AppLine`,
`ConnLine`, `WifiLine`).  The default of a key is the last value a defaults
line gave it (`Given`); that `SetDefault`, folded over the assignments of a
line, leaves just that is proved as for the summaries of `ResultsDb`, by a
closed form (`SetBy`) and its uniqueness (`DefaultsSet`).  A
connection is what its line says because the first separator splits the tokens
into the senders and the receivers and no other way (`SplitAt`).  The
attributes of a rate control, a delay model or a PHY come from several lines:
`Ordered` says that they are those of the lines, each at the place that the
lines before it leave (`Places`), and `OrderedMore` moves it on by a line.
What `WithDefaults` appends is a list of the defaults left, each once
(`InheritedListed`), so that the last assignment to a key is the line's own if
there is one and the default otherwise (`DefaultsApplied`).  `TypeOK` takes
three invariants more: `MgrInv`, where `createApps` and `createConns` are and
that slots belong to applications that exist; `NetInv`, that an installed
route leaves by an interface of its node, whence a frame always reaches a node
(`ReachedNodes`); and `StatusNext`, the order of the stages, which rests on the
outcomes that setting attributes can have (`FirstProblemIn`).

`OnlyUsableRuns` compares whole files with a status reached long after they
were read.  Its invariant collects what has been checked on the way.
`TakenInv` also says of each file that the lines read were accepted:
`MobilityRead`, `RoutingRead` (`LineSound` of the line by itself, `Installed`
of the host and interface it puts a route on) and `WifiAccepted`, which bounds
the attributes that several lines give one object by the number of places in
its description (`PlacesMore`, `ObjectMore`).  `StageInv` says for each status
what the set-up has passed to get there: the command line, the channels, the
nodes, and that no table has a route on an unknown host or a foreign interface
(`Installable`).  `CreatedInv` says that the applications before `nextApp` are
those in `rec`, under tags of their own and with attributes of their types;
`JoinedInv` that of the connections before the current one each was possible
(`Joined`), by its position in its statement.  At `"ready"` the counters are
past the ends (`AllInstalled`), and for each file the checks add up to its
soundness (`MobilityIsSound`, `RoutingIsSound`, `WifiIsSound`, `AppsIsSound`):
the last line that names an object's type is the type its attributes were set
on (`ObjectIsSound`), a tag in `rec` has the type its line says
(`TypeAsWritten`), and of `Len(S) * Len(R)` positions each pair of a sender and
a receiver is one (`ConnectIsSound`).  The converse, that a sound set-up is
never refused, is liveness and stays with TLC (`SoundRuns`).

Assumed of the constants: offsets and sizes as the generators have them
(`SizeAssumption`), that an application has a slot (`SlotAssumption`), that
there are finitely many attribute names (`KeysAssumption`), that each
configuration file holds lines of its kinds and the command line numbers and
truth values (`SettingsAssumption`), and that every kind of object has a table
of types, none with the empty name (`KnownAssumption`): the readers take an
empty type for "none given".

**`Campaign_proofs`**: `SimulatedAsStagedCorrect`, `DoneIsWholeCorrect`,
`ParamsTabulatedCorrect` and `StagedAsYielded`, for every campaign whose enumerator yields a list
(`CampaignAssumption`), any number of captures and jobs.  `StageInv` says that
the runs with rules have their parameters and a configuration that is complete
or of failing PHP code (`TemplateApplied`: `apply_template` ends, raises or
stops silently at PHP), and that nothing was simulated in the directory after
them.  `DoneIsWhole` needs to know how far a recipe has come: `Zipping` says of
the captures that gzip has passed that they are compressed, unless it refused
one, and of those to come that they are whole; `Results` that there are no
captures but those asked for, so that gzip has nothing else to pass.  For
`ParamsTabulated` the type of a column is the narrowest that every value met
so far permits (`TypeOf`), which does not depend on the order of the files;
that the fold over them yields it is proved as for `ResultsDb` (`ColumnType`),
and `TableInv` says that the table was made from the files as they still are.
That an integer is not also a real is assumed of the values.
`StagedAsYielded` is the part of `StagedAsDescribed` that is about `stagesim`:
the directories are those of the assignments its enumerator yields, in order
(`OrderInv`), and stay so under everything `make` does (`KvKept`).

Only model-checked:

* The liveness properties (`BlocksDelivered`, `FileDelivered`, `SoundRuns`,
  `PacketArrives`, `RunsFinish`), which need fairness.
* `StagedAsDescribed`: that the enumerators of a description yield what the
  documentation says compares two recursions over it, which takes induction
  over data.  What `stagesim` makes of what they yield is proved.

## 5. Findings

* **A reordered source packet is passed on twice** (`rq_reorder_over`,
  `ns3_apps/rq-decoder.cc:188`).  When K packets have come, the symbols held
  back are passed on but `m_nsymbcontig` stays as it was.  A source packet of
  that block that arrives later may then continue the gapless prefix and is
  passed on again.  Needs N > K and a link that reorders; the stream then has
  more bytes than were sent.
* **Datagrams are not numbered** (`onoff_seqno`, `ns3_apps/rq-header.cc:12`).
  `RqHeader(uint64_t seqno)` ignores its argument, so every datagram of a
  streaming server carries number 0.

Behaviour met while modelling, in the model as it is, that no property rules
out:

* The encoder's timer is not cancelled by `StopApplication`; a repair packet
  due then fails an assertion (`rq-encoder.cc:182`).
* The timed proxy does not set `m_txEndTime` for the packet that leaves an
  empty store, and uses the duration of the packet before: pacing begins with
  the second packet of a burst, which `PacedInBurst` states.
* With no limit (`MaxBytes` = 0) and a first send of nothing, the file server
  takes the file for complete (`bulk-send-application.cc:213`).
* A receiver with one slot that several statements connect keeps the last
  port only (`apps_manager.cc:321`); `ExclusiveHeard` therefore is about
  applications of one statement.
* The test of the token count in `routing_config.cc:44` (`size < 2 && size >
  4`) is never true.  `examples/conf/routing.txt` documents `<target>
  <via-local> [<gateway> [<metric>]]`, and the message of the test means to
  refuse anything else; but a fifth token passes and is left out, as is a
  third one of `proto` and `routes_on`, and a line of one token is read past
  its end.  The properties are stated accordingly: `Usable` is what the
  program insists on, `Sound` excludes surplus tokens as well.  `SoundRuns` is
  about `Sound`, `OnlyUsableRuns` about `Usable`; with `Sound` in its place
  TLC finds a line with a token too many, whose simulation runs.
* A route line before the first `routes_on`, or one for an unknown address,
  ends in a null pointer (`mesh_sim.cc:349`); positions for an allocator that
  is no list likewise (`mobility_config.cc:62`).  `OnlyUsableRuns` says that
  such a set-up does not run, not that it is told what is wrong.
* A second `ratecontrol` or `delay` line adds its attributes to those of the
  first (`ns3object_config.cc:21`).
* `loadRoutingConfig` and the others open their files for reading and writing:
  a configuration that may not be written is refused.
* The README documents `cartesian_ext` with keys `enum1`, `enum2` and a type
  `listed`; `enumerators.py` reads `enums` and `list`.  Such descriptions are
  among the inputs; they are refused.
* PHP code that fails does not keep a run from being simulated
  (`genconf.py:54`, `stagesim:53`).
* An interrupted compression leaves a `.pcap.gz` that `gzip` does not replace:
  `make` stops at this run each time until `make clean` (`stagesim:68`).
* `params` lists every run that was staged, simulated or not.  A parameter set
  that lacks a key, a value `nan`, or a parameter called `id` or `dir` make
  `createresultsdb` raise, in part after the table was made, and it does not
  run a second time on the database left.

## 6. Not modelled

* `progress_report.cc` prints a line per interval.
* What ns-3's helpers, wifi, OLSR and AODV do with the configuration.
* The one-byte packets the encoder sends back against TCP flow control: they
  carry nothing and nobody reads them.
* Byte layout of `RqHeader`, tokenizing, address parsing: abstracted to
  records.
* The tables `trace_app_rx` and `trace_app_pl` of `createresultsdb`, which copy
  words of the trace files' headers; graphs and `longlat2m`.
* More than 100000 runs, whose directories the pattern `params_?????` misses;
  two `make`s in one stage; a `stagesim` that is killed, which may leave a
  Makefile shorter than the directories by what was not written out.
* ns-3 itself: links, TCP and the event queue appear as external definitions
  with the behaviour the code relies on.

## 7. Plan

The order was: the coded relay, the sources and sinks around it, the logs,
then configuration and routing, the abstract byte stream and its refinements,
the whole set-up, the campaign and its results.  What is left, most important
first:

1. A timed proxy between encoder and decoder, as in the proxy configurations.
2. `StagedAsDescribed` for descriptions without parts inside parts, where no
   recursion is needed.
