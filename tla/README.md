# A verification of the 16-PE SPLASH-2 platform simulator

The repository is a SystemC/TLM-2.0 simulator of a chip with sixteen processing
elements on a 4x4 mesh network and four external DRAMs behind a crossbar.  PEs
replay SPLASH-2 traces as read and write bursts; the simulator carries each
burst through the network, the crossbar and a cycle-level DRAM model and counts
the cycles.  A wrong hand-over anywhere (an answer given to another PE, a
request served twice or never) does not crash the simulator, it changes the
numbers it prints.  That is what this project checks.

The build modelled is the one `platform/main.cpp` and its makefile select:
`NOC == NTS`, `NTS_4_external_memory`, `NTS_4_DRAMSIM2_crossbar`,
`NON_BLOCKING_MODE`, asserts active.

## 1. The system

### Parts, their state and their operations

| part | code | state | operations |
|---|---|---|---|
| Traffic generator | `traffic_modules_ocp/TrafficGen.cpp` | trace position, `mapping` (payload to issue time), outstanding requests | read a trace line and issue it (`generate_traffic_nb`), take a response (`nb_transport_bw`) |
| Initiator NI | `ni/InitNI.cpp`, `ni/mm.cpp` | request and response queues, pool of network transactions | wrap a payload (`req_tx_ni_thread`), unwrap an answer (`rsp_rx_ni_thread`) |
| Address map | `noc/SimpleAddressMap.h`, `noc/Mesh2D.cpp`, `noc/pe_mmap.h` | `m_addressMap` | insert a region, decode an address, redirect to the NI of the cluster |
| Network | `noc/NTS/*` | packet objects, the pool of free ones, what packets left at each port, queues of new, due and cancelled packets | accept a packet (`nb_transport_fw`), route it XY, compute a window of packets pass by pass, compute earlier ones again, deliver, move or cancel a delivery |
| Clock crossing | `DRAMSim2/ClockDomain.cpp` | two clocks and two counters | tick the DRAM as often as its clock fits into the CPU's |
| Target NI | `ni/TargetNI.cpp` | `trans_sourceID_map_`, two queues, `otermAckEvent_` | forward a request to a PE's memory or to a crossbar channel, send the answer back |
| Crossbar | `memsys/Crossbar.cpp` | 16 threads with a local transaction each, 8 FIFOs of size one | route forward by address, back by source |
| CrossbarTop | `memsys/CrossbarTop.cpp` | 16 threads, 4 maps `mapping0..3`, 16 FIFOs of size one, ack events | bridge NI and crossbar, crossbar and memory |
| Memory wrapper | `DRAMSim2/OCPWrappedMemory.cpp` | request queue, `return_trans_queue`, `return_trans_ptr`, one event | OCP transaction to DRAM addresses, completion to response |
| DRAM system | `DRAMSim2/MultiChannelMemorySystem.cpp`, `MemorySystem.cpp` | `pendingTransactions` | add a transaction, tick at the DRAM's clock |
| Memory controller | `DRAMSim2/MemoryController.cpp`, `CommandQueue.cpp`, `BankState.cpp`, `AddressMapping.cpp` | transaction queue, command queues, bank states, two buses, refresh counters | queue, expand to ACT + column command, schedule, refresh, return data |
| Rank | `DRAMSim2/Rank.cpp` | its own bank states, data to return | check and execute commands |
| PE memory | `traffic_modules_ocp/Logger.cpp` | memory array, queue of responses | read, write, respond |

### How the parts interact

    TrafficGen[i] -> InitNI[i] -> Simulator (mesh) -> TargetNI[d] -> Logger[d]        d < 16
                                                   -> TargetNI[16+c] -> CrossbarTop channel c
                                                      -> Crossbar -> OCPWrappedMemory[d] -> DRAM
    and back the same way with the data of a read.  Writes have no answer.

Parts call each other's `nb_transport_fw` and `nb_transport_bw`; a call puts the
payload into a payload event queue with a delay, and a thread of the callee
takes it out when that time has come.  One payload *pointer* travels the whole
way and is the key of every map on it; network transactions
(`noc_trans`) wrap it per hop and are reference counted.  A write is posted: the
thread that forwards it waits for `END_REQ` only.

### What is hard

* sixteen crossbar threads share FIFOs of size one, each with four writers;
* the source of a request is dropped at the memory and found again in a map, by
  pointer; the pointer is reused for later requests;
* the table that decides which NI records a request (`SimpleAddressMap.h`) and
  the table that decides which NI gets the answer (`Crossbar.cpp`, four copies)
  are written down separately;
* `END_REQ` carries no identity: a thread waiting for the acknowledge of its
  write may be woken by that of an earlier read;
* DRAM completes out of order; the wrapper finds the transaction by address and
  hands it to its response thread through one pointer and one event;
* the DRAM controller schedules commands under many timing constraints and
  checks none of them itself: it aborts if a bus is used twice;
* a payload event queue has one event, which holds one notification: a later
  one is dropped while an earlier one is pending, and a notification is lost on
  a thread that waits elsewhere;
* the network computes packets a window at a time, on top of what earlier windows
  left in its ports: it must find every packet on its way that a new one
  disturbs, compute it again and move a delivery already scheduled, while packet
  objects are being reused;
* a packet claims a port at every switch of its path before it transfers, and
  before it asks for the first it writes the output it wants at all of them, those that
  others hold included.

### What makes each part correct

| part | correct when |
|---|---|
| Traffic generator, initiator NI | requests leave in the order of the trace, once; a read's issue time is there when its answer comes; every read is logged |
| Address map | an address decodes to the region it lies in; an external request goes to the NI its answer will come back to |
| Network | a packet is delivered once, at the time last computed for it, which is the time it would have had if all packets had been computed at once; no two packets are at a port at one time; computing again never loses a packet |
| Clock crossing | the DRAM has made exactly the cycles that fit into the CPU's; the counters stay bounded |
| Target NI, PE memory | no thread sleeps on work; an answer goes to the PE that asked; every read is answered |
| Crossbar | a lossless router that keeps the order per input and output |
| CrossbarTop | a request is carried out by the memory its address names; an answer returns to the NI that knows who asked; every request completes |
| Memory wrapper | the payload found by its address is the one completed; a read returns the last write; one answer per read |
| DRAM | no command too early, no bus used twice, no refresh lost; it implements `MemoryDevice`: order within a bank, one completion per cycle, everything served |
| Address mapping | the numbers are the bits of the layout the scheme names |

A hazard list, with the line of code where each bites and the properties that
cover it, is in `PROJECT.json`.

## 2. Modules

| module | models | state and actions, against the code |
|---|---|---|
| `MemMap` | `pe_mmap.h`, the tables of `SimpleAddressMap.h` and `Crossbar.cpp` | operators only: which channel, cluster and offset |
| `AddressMap` | `SimpleAddressMap.h`, `Mesh2D::set_memory_map` | `m_addressMap` as the set of key-value pairs `insert` leaves; `SetMemoryMap` inserts the next region, `LookUp` is the look-up of `InitNI` |
| `PayloadEventQueue` | `tlm_utils::peq_with_get` (external) | a queue is its payloads with the time left to each, and the time left to its event |
| `InitiatorPort` | `TrafficGen.cpp`, `InitNI.cpp` | one variable per queue, thread and table; an action per branch of a thread between two waits, and per event |
| `TargetMemory` | `TargetNI.cpp`, `Logger.cpp` | the same |
| `ChannelRouter` | abstract: what the crossbar promises | a queue per direction, input and output |
| `Crossbar` | `Crossbar.cpp` | `at[<<stage, channel>>]`: the messages in a FIFO or in the local variable of a thread; each thread has a read and a write action, with its `num_free` guard |
| `CrossbarTop` | `CrossbarTop.cpp`, `TargetNI.cpp`, the wrapper as the channel sees it | extends `Crossbar` by the stages around it, the maps `mapping0..3` and `trans_sourceID_map_`, the waits for acknowledges and their events |
| `MemoryDevice` | abstract: what the DRAM promises | transactions added and completed |
| `OCPWrappedMemory` | `OCPWrappedMemory.cpp` over `MemoryDevice` | deque, `return_trans_ptr`, event, memory and data buffers; an action per process and callback |
| `DramTiming`, `Dram` | `SystemConfiguration.h`, `MemorySystem.cpp`, `MemoryController.cpp`, `CommandQueue.cpp`, `BankState.cpp`, `Rank.cpp` | one record `mem`; `AddTransaction`, and `Update`, which is one DRAM cycle: the parts of `MemoryController::update` in their order, each an operator |
| `AddressMapping` | `AddressMapping.cpp` | one action per field cut off; a shift is a division by the size of the field, which need not be a power of two |
| `ClockDomain` | `ClockDomain.cpp`, `setCPUClockSpeed` | the two clocks and counters; the loop of `update` is an action per callback |
| `NtsMesh` | `PE.h`, `Switch.cpp`, `Packet.cpp`: the mesh | operators only: the XY path of a packet as the ports it goes through |
| `NtsTiming` | `Packet.cpp`, `Switch.cpp`, `port.h`, `BiSyncFIFO.cpp` | operators only: claiming and winning of ports, header and tail times with FIFOs and back-pressure, and what a packet leaves at its ports |
| `NtsSearch` | `Packet.cpp`, `simulator.cpp` | operators only: the first guess of a new packet, what a call of the search looks for at the ports and what it changes, and what is taken back at the ports before packets are computed again |
| `NtsNetwork` | `simulator.cpp` | packets, pool, ports, three queues, and the lists, claims and calls of the round being computed; `Send` is `nb_transport_fw`. An action is an iteration of a loop of `simulator_main` (`Accept`, `Claim`, `Transfer` or `WaitForPath`, `EndPass`, ...), of `simulator_send` (`SimulatorSend`), or a step of the recursive search, whose calls are on a stack (`DeleteLaterPkt`, `Involve`, `SearchCongFlit`, `SearchOn`, `DelayLoser`) |
| `NtsTogether` | reference: all packets ever sent, computed at once | operators only, recursive; `WindowIndependent` compares the windows with it |
| `*_proofs` | | the theorems of the module they name (`DramArithmetic_proofs`: of `ClockDomain` and `AddressMapping`; `CrossbarTop_proofs`: of `CrossbarTop` and `AddressMap`), section 5 |

`CrossbarTop` composes `Crossbar` with the NI and the memory; `OCPWrappedMemory`
composes the wrapper with `MemoryDevice`; `Dram` implements `MemoryDevice`, and
`Crossbar` implements `ChannelRouter`, by refinement mappings TLC checks; the second is also proved.

Two abstractions run through the modules.  *Order instead of time*: in
`CrossbarTop` a payload event queue is a set from which any payload may be taken,
because delays depend on lengths and loads; whatever holds there holds for all
delays.  Where the question is about events and time itself (`InitiatorPort`,
`TargetMemory`, `NtsNetwork`) delays are kept, in small units, and time passes only when no
process can run, as in the SystemC kernel.  *Payloads as names*: a payload is a
model value or a number, its data is left out, except in `OCPWrappedMemory`,
where a write stores its own number so that a read shows which write it saw.

Atomicity is that of SystemC: a process runs until its next `wait`.  Everything
between two waits is one action, including the calls it makes into other
modules.  The two threads of the network do so much between two waits that
it is split into the steps of their loops.  While one of them is between two waits
(`Running`) no other action is enabled, so nobody sees a state the program would not show; the
properties are stated of these states too, and hold in them.

## 3. Runs

| run | module, cfg | shows | bounds |
|---|---|---|---|
| `address_map` | `AddressMap`, `MCAddressMap` | after every insertion the map answers what a search of the regions would; requests go to the NI that will get the answer | all 20 regions, of 2 and 3 words, so that every border has addresses on both sides |
| `crossbar_top` | `MCCrossbarTop` | no duplication; the source of a read is always found and no entry is left behind; the sixteen threads and FIFOs of the fabric refine `ChannelRouter` | 3 requests with 2 payloads, so one is reused, all to one memory: two writers meet at a FIFO while a message waits behind one of them |
| `crossbar_live` | `MCCrossbarTop`, `MCCrossbarLive` | own memory; every request completes | 2 requests to the last address of one memory and the first of another |
| `dram` | `MCDram` | no error, one driver of the data bus, no lost refresh, refines `MemoryDevice` (order within a bank, one completion per cycle, everything served) | the timings of the platform's DDR3 device; 3 transactions to two rows of one bank and one of another, in any of the cycles 97 to 105, before, at and after a refresh falls due at 104 (1950 on the device); queues of depth 2, so that one fills |
| `wrapped_memory` | `MCOCPWrappedMemory` | match by address, latest write, one answer, all carried out | 4 overlapping bursts over 3 words in 2 banks: two outstanding at one address, a third overlapping them |
| `address_mapping` | `MCAddressMapping` | seven schemes give the layout they name | two devices: all fields in use, and one channel and rank as the platform; addresses beyond the device, so that they wrap |
| `target_memory` | `TargetMemory`, `MCTargetMemory` | no lost wake-up, answers to the requester, all forwarded, reads answered unless they overlapped | 3 requests, short and long transfers |
| `target_memory_overlap` | `TargetMemory`, `MCTargetMemoryOverlap` | violation, see below | 2 requests |
| `initiator_port` | `InitiatorPort`, `MCInitiatorPort` | order of issue, issue times kept, no lost wake-up, every read logged | 3 requests, waits of the trace, two transfer times |
| `network` | `MCNtsNetwork` | delivered once, one packet at a port, the same times as if computed together, no faster than alone, a sound pool, nothing made earlier, everything arrives | 5 packets over 5 routes that meet at two PEs and at three switches; 11 choices of when they are sent, in one window or while others are on their way, so that packets are computed again, deliveries are moved and packet objects are reused |
| `network_hang` | `MCNtsNetwork`, `MCNtsHang` | violation, see below | 4 packets of one window |
| `clock_domain` | `ClockDomain`, `MCClockDomain` | no drift, bounded counters, positive clocks | a DRAM clock of 6 against CPU clocks that divide it, share a factor with it, are coprime to it, or are 0; 30 updates, so the counters meet several times |

The bounds that stop a counter are `MaxRequests`, `MaxTransactions`,
`FirstArrival` and `LastArrival`, `MaxAddress`, `MaxPackets`, `MaxUpdates` and
the times (`at`) of the flows of `NtsNetwork`; each is named in its module.

A limit of these instances: three transactions never meet `tFAW`, which needs a fifth
activation, so the run checks that the window of four is kept up to date and not that it holds a
command back.  For `NoError` and `OneDriver` the proof covers it.

**Deadlock** is not checked where the bounded requests run out and every thread
then waits, as in the program: `AddressMap` and `TargetMemory` go on (look-ups,
time), the others say `CHECK_DEADLOCK FALSE`.  `InitiatorPort` stops for good
when an assertion fails.  That nothing stops early is what the liveness
properties say.

**Fairness** is weak fairness of each process: the SystemC kernel runs every
process that can run before it lets time pass, and a process in a polling loop
(`wait(SC_ZERO_TIME)`) runs in every delta cycle.  Requests are never assumed to
come.  In `InitiatorPort` the NoC is assumed to answer; in `OCPWrappedMemory`
the DRAM is assumed to complete some transaction while there are any, which is
what the run `dram` shows of `Dram`.  In `NtsNetwork` it is
that of `simulator_main` (`Simulate`), of `simulator_send` (`Deliveries`) and of time (`Tick`), which
passes when no thread can run; nothing is assumed about how often a pass transfers a packet.

**Mutants.**  Each property has a mutant: an operator marked `Mutant:` beside
the one it replaces.  Under it, the property fails.

## 4. Findings

*A read that overlaps another in the memory of a PE may never be answered*
(`target_memory_overlap`).  `Logger::begin_resp_process` takes one payload for
each event of `m_resp_peq`.  A second read that arrives while the first is
waiting asks for a later notification, which the kernel drops; after the first
answer nothing wakes the method again until a third read arrives.  The NI sends
reads without waiting, so two overlapping reads are ordinary traffic.
`AnsweredUnlessOverlapped` shows that this is the only way to lose an answer.

*The network simulation may never end* (`network_hang`).
`Packet::SimulateHeaderTimetoRx` writes `output_tx_dir` at every switch port on the
path of a packet before the packet has claimed any of them (`Packet.cpp:180`), the
ports included that other packets hold or that it will not get to.
`Switch::ArbitrateTxPort`, asked for an output, takes every busy rx port with that
`output_tx_dir` for a candidate; the earliest header wins, a tie goes to the last
direction.  So an output may be given to a claim that never wanted it, and the packet
that did is refused.  A pass that transfers no packet leaves everything as it was, so
the loop of `simulator_main` repeats it for ever.  The run shows four packets of one
window, the smallest number found, which claim in this order:

1. 2→4 gets every port of its path, switch 0 included;
2. 6→4 ties with it for the output of switch 4 to PE 4, and takes it and the port behind it;
3. 2→0 is refused at its first port, which 2→4 holds, but it has set the direction of
   2→4's claim at switch 0 to PE 0;
4. 5→0 takes a port of switch 4 from 6→4 by an earlier header, and asks switch 0 for the
   output to PE 0: the redirected claim of 2→4 has the earlier header and is given it.

5→0 waits for 2→4, 2→4 for 6→4, 6→4 for 5→0, and 2→0 for 2→4; none transfers.  Without the
redirection 5→0 would have had its path.
The same packets hang a program linked from `Packet.cpp`,
`Switch.cpp` and `BiSyncFIFO.cpp`; of 327 random schedules of six packets that
do not hang, the arrival times of program and model agree in all.

Things a maintainer should know, which no property states as correct:

* *The first write of a trace stops the program.*  `InitNI::iterm_ni_fw` accepts
  every request with `TLM_ACCEPTED` (`InitNI.cpp:83`), and
  `TrafficGen::generate_traffic_nb` asserts under that result that the request was a
  read (`TrafficGen.cpp:297`).  With assertions on, which `setup_payload` depends on,
  only traces of reads run today.  `InitiatorPort` models it (`gen = "aborted"`); the other
  modules model the code behind it as it stands, with both commands.
* *A port starts with an uninitialised time.*  The constructor leaves
  `min_header_arrival_rx` unset (`port.h:91`); every pass resets it at its end
  (`port.h:284`), so only the first pass of all compares with what was in memory.
  The constant `Unset` names the sets of ports that start with garbage; the runs take
  zeroes.  With `Unset = {{<<"rx", 1, W>>}}` TLC finds a packet (0 to 2 at 0,
  delayed behind 1 to 2 at 4) that is computed again with an earlier finish, in the past,
  because of a third, and is then never delivered.
* *An acknowledge has no identity.*  That of a read can wake an NI thread
  that waits for that of a write (`TargetNI.cpp:68` and 307), so a posted write is sometimes
  not waited for; `EveryRequestCompletes` shows that nothing gets stuck on it.
* *The DRAM may reorder what it was too full to take.*  `OCPWrappedMemory` adds transactions
  without asking whether the controller has room.  Once 32 wait, further ones go to
  `pendingTransactions`, from where `update` takes one per cycle, and a new
  transaction can be queued before them.  `Dram` models this; `ImplementsDevice` proves the order
  within a bank while nothing is added behind a pended transaction, so what is proved of the
  wrapper holds up to that load.
* *The network counts its transactions up only.*  The release of a request is in
  `req_rou_ni_bw` (`InitNI.cpp:105`, `TargetNI.cpp:105`), which only a router would
  call; with this network no transaction is ever put back into the pool.

## 5. Proofs

`CrossbarTop_proofs`: `RebaseIsOffset`, rebasing gives an offset inside the memory the fore
router chose, for every size of the regions (assumption: the sizes are positive and the external
memories lie behind the cores).  For every set of payloads, of sources and addresses within the map
and every bound on the requests, `TypesHold`, `NeverTwice`, `ReachesItsMemory`,
`SourceNeverLost`, `AnswerReturns` and `NothingStale`.  None of these is
inductive.  `IInv` adds `AllGood`, which says of each message what must be true
at the stage it is in: on the way in it carries its source and its own address,
and neither map of the channels has it; in the memory its address is the offset and exactly
its channel's map has its source; on the way out the source is again with the message.
Throughout, the NI the back routers will choose, and no other, knows the requester.
`AtMostOnce` is needed because an action moves one message and must not disturb
another: `Frame` says so once, and each action's lemma uses it.

The same module proves `ImplementsRouter`: the specification implements `ChannelRouter`.  Beside
`IInv` this needs `ChanKept`, that a message before its router is on the channel it entered.  The
state the mapping builds is named (`AInput`, `AQueue`, `AOutput`), a queue being what the selecter,
the FIFO and the router hold of a pair, each at most one message (`HeldOne`, `QueueParts`).
Then there is one lemma per kind of step: a router reads (`EnterStep`), writes (`RouteStep`, unseen:
the message stays in its queue), a selecter reads (`SelectStep`, unseen) and writes (`LeaveStep`: it
holds the head of the queue of its input), a message is put in, taken out (`PutStep`, `GetStep`), or
nothing inside moves (`NoStep`).  `GetStep` is where `AtMostOnce` returns: rebasing changes an address in
place, and would redirect a second message with that payload.

`Dram_proofs`: `NeverFails`, `BusHasOneDriver`, `ImplementsDevice` and `RefreshInTime`, for every timing
the devices allow, every number of banks, length of the queues, refresh period and sequence of transactions
(the last two under a hypothesis each, below).  The run
knows one device and three transactions; here `tFAW` holds commands back and queues fill.  `Inv` says
of the state between two updates:

* `Agreement`: the rank, which hears of a command a cycle after it is sent, will then have the row
  open that the controller has open, and wait at most a cycle longer than the controller
  counts.  So the rank refuses no command the controller finds issuable, and a refresh finds its banks idle.
* `QueuesShaped`: a queue holds pairs of an activate and a column command of one transaction, but for the
  first when its bank is open: then the column command is alone, and the row is its row.  Without this a command
  taken out of the middle of a queue for a refresh could leave its activate behind.
* `BusKept`: every burst that is on its way, in a read return, in a write queue or as a command still on the
  bus, starts at least a burst before or after each burst of the other direction, and leaves the bus before the
  first data of the next column command any bank may take (`RoomAfter`).  A closed bank and one that still
  has to precharge need no counter: they first need the cycles of `Base`.  Both `DataBusCollision`
  and `ReadDataOverwritten`, and the two drivers, are excluded by this one statement.
* `PendingKept`: `pendingReadTransactions` holds exactly the reads in the queues, on the command bus, in the
  rank and on the data bus, and the reads of a bank are in it in the order in which they will return.
  So data that returns finds a transaction, and the first with its address is its own.
* `Fresh`: a transaction is in one of the queues of transactions only, once.

`Moves` and the four steps after it are the parts of `update` in their order; each has a lemma on
what it leaves alone (`...Fields`) and one on each part it disturbs.  The assumptions are those of
`DramTiming`: `TimingAssumption`, and `DeviceAssumption`, which every device of `ini/` satisfies: a
command is on the bus for one cycle, a burst takes at least one, data follows its command by two cycles or more, and
the bus is idle for a cycle when its driver changes.  Without the last the lemma on the turn from
reads to writes is false, and with `tCMD` of two the command bus is not free when the next is sent.

`ImplementsDevice` is the safety of `RefinesDevice`: the memory is a `MemoryDevice` to the wrapper.  What is on
its way is either sent (on a bus or in the rank), or in a command queue, or still waits as a transaction.  In each of
the three the transactions of a bank stand in the order in which they were added, and those of the first
were added before those of the second, these before those of the third (`Ordered`).  Bursts are ordered by the cycle they end in, which is where
`BusKept` returns: as the data bus has room for one burst, no two of a bank end out of order and no two at all
in one cycle.  The
hypothesis, `NoOvertaking`, is that nothing is added behind a transaction in
`pendingTransactions` while the controller has room; the code does not ensure it, and without it the statement is
false (section 4).

`RefreshInTime` says that `needRefresh` never finds the last refresh still waiting, provided
`RefreshSlack`: between two refreshes there is time for every bank to come to rest and, on the way, to be
given one column command more.  With `w` the longest delay a command imposes and `k` the longest of a
column command this is `w + NumBanks * k < RefreshCycles`: 216 < 1950 on the platform's device, 102 < 104 in
the run; the devices of `ini/` have it by a wide margin.  While a refresh waits no activate is sent.  The
banks that have one under way get their column command in the order of their numbers, so those still to
come are above the last (`Closing`); each such command costs at most `k` cycles, and in a cycle that
sends nothing every bank that blocks the refresh comes a cycle closer to rest (`BlockedWaits`).  `RefreshKept` counts
both down against the refresh counter.

`OCPWrappedMemory_proofs`: for every set of words and bursts, every map of
addresses to banks and every number of requests, `TypesHold`, `DequeHolds`,
`ReadsAreLatest` and `OneAnswer`.  `DequeIsOutstanding` is the heart: the deque
holds exactly the transactions not completed, so the first with an address is
the earliest outstanding one in that bank, which is the one `MemoryDevice`
completes.  `IInv` adds that the device's history is what was asked (`HistIsAsked`),
that completion keeps order within banks (`OrderKept`), and that every word holds its last
completed write (`MemoryIsLast`), from which `ReadsLatestWrite` follows because bursts that share a word
share a bank (`BurstAssumption`).

`CrossbarTop_proofs` also proves of `AddressMap` (`MapSpec`): `RedirectAgrees`, the table of `crossbar_decode` and the clusters of the back
routers agree for every PE and channel; `DecodesRegions`, for all sizes of the regions and every address the
map answers what a search of the regions inserted so far would, and
`SendsToAnsweringNI`.  The invariant says what `insert` leaves: the keys are exactly the two
ends of the inserted regions, each with its port.  `lower_bound` then finds the upper end of
the region an address lies in, or of the next one, and the two differ in the lower end.

`DramArithmetic_proofs`, of the two pieces of arithmetic beside the controller: `TypesHold`, `NeverDrifts` and `NeverOverflows`, for every pair of
frequencies and runs of any length.  The drift is stated with a floor; what is inductive is a
balance: the counters are the two times less what the resets took from both (`Balance`), the DRAM
is less than a cycle ahead, and behind only within an update (`Close`), and each counter holds whole
cycles of its clock, at most as many as meet in the product (`Whole`).  `CutsAsLaidOut` and
`GoesRoundTheBanks`, of `AddressMapping`, for every scheme, fields of any size and
every address: what is left after some fields is the address divided by the product of their sizes (`MappingInv`),
as two divisions are one by the product (`DividedTwice`).  The layouts are those of the comments, read from the
high end, the cuts those of the code, from the low end.

`PayloadEventQueue_proofs`: lemmas on the queue, used by the two below: an insertion puts one
payload in and keeps the order, a queue stays sorted and without repetitions, an event is due no
later than promised, and a thread that sleeps is woken in time (`WakesInTime`) after insertions,
removals and the passing of time.

`InitiatorPort_proofs`: `SentInOrder`, `TimesKept` and `NeverSleepsOnWork`, for every number of
requests and all transfer times.  `IInv` adds `Pending`: the queue of the NI holds exactly
the requests issued and not yet sent, in the order of the trace and none with a delay, which is
why the order in the queue, which is by time, is the order of issue.

`TargetMemory_proofs`: `NeverSleepsOnWork`, `AnswersReturn` and `AnAnswerIsDue`.  `IInv` adds that
a request has arrived wherever it is found (`Arrived`), that it is in one place (`Apart`, `Once`), and
that the event of the memory's queue is due when its first answer is (`InTime`).  That
the second of two overlapping reads is lost does not contradict these: the memory's method is
not one of the threads `SleepsSafely` is about.

`NtsNetwork_proofs`: for every set of packets, every cycle, any number of packets and runs of any
length, `NtsDeliveredOnce`, `NtsPoolSound`, `NtsOneAtAPort` and `NtsNoFasterThanAlone`, under one hypothesis, `NeverEarlier`.

The hypothesis says what a step of the program may not do: make the arrival of a packet earlier, or compute one
that has passed.  The run `network` checks it; it is not proved, and cannot be from the code's structure alone: it
depends on the times of packets that meet, and with the uninitialised port of section 4 it is false.  Without it the
theorems are false as well.  An arrival moved to a later time and then back leaves two entries of the queue
at one time, and one cancellation, so the packet is handed over twice and its object is put
into the pool twice.  The delivery of a packet that is late is cancelled: it is lost, and its object
given up before it has arrived.  So the theorems say that whatever else goes wrong in the network
comes from there.

`Inv` has ten parts.

* `PayloadsHold`, `PacketsHold`: a packet object is of one transaction and has its path, size and time.
* `QueuesHold`: no transaction is scheduled twice for one time, nothing due in the past, nothing that has
  arrived; the last entry of a transaction is its delivery, earlier ones were moved.
* `ArrivalsHold`, `ThreadsHold`: a transaction waits, or has an object that is its own, or has arrived
  once; the two threads do not compute and deliver at the same time.
* `PoolHolds`: free objects are free once and not in use; the packets to be computed are in use, listed once, and
  are exactly those marked `reCompute`.
* `PortsHold`: only packets on their way are registered at a port, at a place where their path goes through
  it.  This is why the search, which follows what is registered, never takes in an object that is free.
* `StackHolds`: every call of the search is about a packet on its way, and one is delayed only after it is
  among those to be computed, so the times of the others stay those they were computed with.
* `TimesHold`: a packet that has been computed has left its tail at every port of its path, and
  `OneAtAPort`.
* `ClaimsHold`: in a pass, a claim of a packet is later than all that has left its port, and a cycle or more
  behind the claim before it on the path.

`Transfer` is the step that uses all of them: the packet owns every port of its path, so its headers are behind
whatever has left these ports (`Granted`), which is `OneAtAPort` for it and all others; the headers are a cycle
apart and so are the flits, with congestion (`SimulateFIFOSizeTime`) or without, which gives the time in an
empty network; and what it leaves is the latest at the port, so the claims of the packets still in the
pass must be at other ports.  The times are multiples of the cycle throughout, which turns "later" into "a cycle
later".  The model computes with folds: `Recursion` says that the recursive function of a fold exists and what holds at each of its steps, and `Filtered`, the paths, the claims of a packet (one lemma per branch of
`ClaimPlace`) and its flits each get their lemmas from it.  The case of a flit that is sent again (`ResendFlit`), which no run
reaches, is covered here.

Only model-checked: liveness under fairness (the prover has no rule for it), that of
`RefinesDevice` included, that every transaction is completed, and `EveryPacketArrives`;
`NeverEarlier`; `WindowIndependent`, whose reference is recursive.

## 6. Not modelled

* *Vendored and unused code*, which is most of the repository by lines: the OCP sockets
  (`ocp_sockets_2_2x2_2`, some 28000 lines of headers, which the platform uses as plain TLM sockets), `tinyxml2` (4000), the earlier router and NIs
  (`router`, `simple_ni`, `simple_address_map`) that the makefile does not compile, and in
  `Packet.cpp` some 500 lines nobody calls (97 to 140, 856 to 1320: the transfer without FIFOs, the
  earlier arbitration).  This is why the definitions cover a small share of all lines.
* *Of the network*: the other arbiters, clocks that differ between switches,
  the optional pipeline stages, and the statistics.  The platform's configuration selects
  none of them.  `CheckNextStage` has a case (`ResendFlit`) for a flit sent again
  that none of the runs reaches.
* *The pool of network transactions* (`ni/mm.cpp`): see the last finding; there is no reuse to
  model.  `CrossbarTop` reuses the payload of an answered read, which is more than the
  code does, and never that of a write.
* *Inside the DRAM*: the bytes (`Bank.cpp`), power and statistics; the open-page policy, the queueing
  structures the platform's ini file does not select, low-power states, more than one rank.
* *A burst that crosses a 64-byte boundary*: the wrapper gives the DRAM its first
  address only, and the model assumes bursts within one bank.
* Parsing, logging, the trace tools, the construction of the platform.

## 7. Plan

Done: memory map and address map; the crossbar, `CrossbarTop` and their proofs, the refinement of
the abstract router among them; DRAM with its abstract device and the proofs of its timing, its order and its refresh; the wrapper and its proof; the two ends of a PE and
their proofs; the network and the proof of its safety; the clock crossing, the mapping of addresses and their proofs.

Left:

1. A composition of the wrapper with a channel of `CrossbarTop`, in the place of its memory, and of
   `InitiatorPort`, `NtsNetwork` and `TargetMemory`, in the place of each other's environment.
2. `NeverEarlier` of `NtsNetwork`, under a condition on the traffic: packets that are computed again are
   computed in the order of the first time, behind the same or later claims.
