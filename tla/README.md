# Parallel-Sumo: models, checks and proofs

Parallel-Sumo runs one SUMO traffic simulation as several processes. A
network is cut into partitions; each partition process steps its own piece,
and a coordinator process keeps them in lock step. Vehicles that reach a
border edge are handed to the neighbour behind it over ZeroMQ sockets.

This directory holds TLA+ models of that protocol, the TLC configurations
that check them on small instances, and TLAPS proofs. `PROJECT.json` lists
the runs, the mutants, the theorems, the hazards and, definition by
definition, the source lines each one stands for. Paths below are relative to
the repository.

## The system

| Component | State | Operations | Where |
|---|---|---|---|
| Coordinator, barrier service | flags and counters of three barriers, `allFinished` | poll, receive, open a barrier, reply | `src/ParallelSim.cpp` `coordinatePartitionsSync` |
| Coordinator, wait thread | the pids not reaped | reap, kill the rest, send the control message | `waitForPartitions`, `startSim`, `src/utils.cpp` |
| Partition, life cycle | clock, `finished`, where `runSimulation` stands | load, three kinds of barrier, step, finish, exit | `src/PartitionManager.cpp`, `src/partitionMain.cpp`, `src/ContextPool.cpp` |
| Neighbour handler, one per neighbour | `listening`, `stop_`, `term`, `threadWaiting`, two operation queues | listen thread; `listenOn`, `listenOff`, `applyMutableOperations`, `stop`, `join` by the main thread | `src/NeighborPartitionHandler.*` |
| Neighbour stub | a REQ socket | blocking calls | `src/PartitionEdgesStub.cpp` |
| Handing vehicles over | `sentVehicles`, `prevOutgoingVehicles`, `vehicleMultipartRouteProgress`, `allVehicleIds` | `handleOutgoingEdges`, `hasVehicle`, `addVehicle` | `src/PartitionManager.cpp` |
| Shared list of vehicle ids | `allVehicleIds`, `allVehicleIdsUpdated`, `allVehicleIds_lock` | search and refill by the handler threads; invalidate and insert by the main thread | `src/PartitionManager.cpp` `hasVehicle`, `refreshVehicleIds`, `addVehicle` |
| Partition data | files | split routes, find border edges, neighbours, route ends, last departures | `scripts/partroutes.py`, `scripts/partitiondatagen.py` |
| Start-up | the data folder, the processes and their command lines | parse, read the configuration, cut or skip, spawn, load | `src/main.cpp`, `src/args.hpp`, `src/partArgs.hpp`, `libs/argparse.hpp`, `scripts/createParts.py` |
| XML documents | linked nodes, a list of unlinked ones | create, move, copy, delete, parse, print | `libs/tinyxml2.cpp`, `libs/tinyxml2.h` |
| Messages | the buffer under way | the stub writes it, the handler reads it, and back | `src/messagingShared.cpp`, `src/PartitionEdgesStub.cpp`, `src/NeighborPartitionHandler.cpp` |

**Interactions.** The coordinator spawns the partitions (`fork`/`exec`) and
two of its threads share the pids, `allFinished` and an inproc PAIR socket.
Each partition has one REQ/REP pair with the coordinator: `BARRIER`,
`BARRIER_STEP` with a vote, `FINISHED`. Each pair of neighbours has one
REQ/REP pair per direction, from the stub of the one to the handler of the
other; the handler's listen thread answers it while the owner's main thread
steps, waits at a barrier or applies what the thread has queued. The scripts
hand over files at the start and are not part of a run.

**What is hard.** Two threads share plain flags; a partition released from a
barrier first is a step ahead of one released last, and its calls meet a
neighbour still busy with the step before; a process may die while the others
wait for it; a closed socket discards what it has not sent; and the answer
"that vehicle is already here" is computed in one process and acted upon,
finally, in another. `PROJECT.json` lists each such hazard at its line.

**What makes it correct.**
- Barriers: clocks never drift, all partitions agree on the end, no reply
  answers something else than was asked, and a failed partition ends the run.
- Processes: none outlives the coordinator, which exits with 0 only after
  complete simulations.
- Handler: every call is answered; every accepted operation is applied once,
  in order, in its step, while nobody reads the simulation.
- The list of ids: never searched while it changes, never out of date by more
  than a step.
- Start-up: partitions that run together were cut together, and understand
  the command line as the coordinator does; every piece of a route is found by
  the name `addVehicle` looks for (not so with ten pieces and more: `ManyPieces`).
- XML: whatever the order of the edits, a document is an ordered tree; what is
  written is read back, and a file that was cut short is noticed.
- Handing over: no vehicle is lost, doubled, or resumed at the wrong place;
  the run ends only when all have arrived.

## The modules

| Module | What it is |
|---|---|
| `LockStep` | abstract specification: what the sync sockets promise, a sequence of barriers with a vote |
| `ParallelSim` | the coordinator's two threads and the partition processes, with failures |
| `ParallelSimInv` | the inductive invariant `IInv` |
| `ParallelSimProofs` | TLAPS: `IInv` is inductive; the safety properties follow; `ParallelSim` implements `LockStep` |
| `MCParallelSim` | constants for TLC |
| `NeighborHandler` | one directed link: client, owner's main thread, listen thread |
| `VehicleHandoff` | vehicles, route pieces and borders; instantiates `LockStep` for its barriers |
| `VehicleHandoffInv` | its inductive invariant `IInv` |
| `VehicleHandoffProofs` | TLAPS: `IInv` is inductive; no simple vehicle is lost, doubled or misplaced |
| `LeastElements` | lemmas on least and greatest elements: induction for functions and finite sets, used by all proofs along a route, a line or a message |
| `MCVehicleHandoff` | two small networks for TLC |
| `NeighborHandlerProofs` | TLAPS: an inductive invariant of the link, and all its safety properties |
| `VehicleIdCache`, `MCVehicleIdCache` | the handler threads and the main thread on the list of vehicle ids; with the proof (TLAPS) that the list is at most a step old, for any number of threads |
| `RouteSplit` | a route cut in each partition, the copies removed, the pieces renumbered |
| `Arguments` | `parse_known_args` with the options of both programs, and `Args` |
| `Startup` | several starts of the program over one data folder, interrupted anywhere |
| `StartupInv` | its inductive invariant `IInv` |
| `StartupProofs` | TLAPS: a partition understands its line as the coordinator does; `IInv` is inductive; `CutTogether` and `LineUnderstood` follow |
| `XmlForest` | abstract specification: what a document promises, ordered trees |
| `XmlLinks` | the heap of tinyxml2: nodes, their links, the lists of unlinked nodes; creating and inserting nodes |
| `XmlTree` | what tinyxml2 does with whole trees: deletes, copies and searches |
| `XmlLinksProofs` | TLAPS: an insertion puts a node into its place, and every other node stays where it is, in any heap |
| `XmlEdit` | a program that edits documents; implements `XmlForest` |
| `XmlText` | the parser and the printer |
| `XmlFile` | a file read, written, perhaps cut short, and read again |
| `Messages` | the bytes of a call and its answer: stub and handler as writer and reader |
| `SetupProofs` | TLAPS: `Understood` for all names, numbers and lists; the pieces are the visits of the route; `FewPiecesFound` for all routes |
| `MCSetup` | extends `XmlTree`, `StartupInv`, `RouteSplit` and `Messages`; with instances of `XmlEdit` and `XmlFile` it makes one run |

`VehicleHandoff` is composed with the *abstract* barriers: `ParallelSim`
implements `LockStep`, so what happens inside a step can be studied without
the sockets. `NeighborHandler` carries its own two-party version of the
barriers (two counters).

### `ParallelSim` and the code

`pc[p]` is the place in `runSimulation`: loading, `startBarrier`, `loop`,
`stepBarrier`, `endBarrier`, `finishing` (in `signalFinish`), `closing`, and
`terminating` after an exception.
`req[p]`/`rep[p]` is the message on p's sync socket; a REQ/REP pair carries at
most one. `Step` is a turn of the loop up to the request of `finishStepWait`,
`PassStepBarrier` is its second half. In the coordinator `cpc` is the place in
the loop, and `todo` the partitions its current `for` has still to visit, so
partitions run *between* the replies, as they do. The flags are sets, the
counters numbers of their own, for it is the code that must keep them equal.
`proc[p]` is what the operating system knows of the process; `Fail` may strike
at any moment, and a request the coordinator has not polled may go with it.
`open[p]` are p's sockets: all are made with the `PartitionManager`,
`PassEndBarrier` closes those of stubs and handlers, `PassFinish` the
coordinator's. `Exit` is `destroyAll`, which comes to its end only when none is
open. `Throw` is an exception in the loop, caught by `main`: it leaves every
socket open, and its message is put into a stream that nobody prints. In
`destroyAll` such a partition waits, or ends with an error when one of its listen
threads finds its context shut down during a poll (`Fail`). `AllStopped` closes
the coordinator's sockets and may discard replies (linger 0).

What a partition reports is a choice within `MaybeFinished`: never before its
last departure, always from `QuietTime` on.

### `NeighborHandler` and the code

One step per access to a shared flag: `Stop`, `StopTrue`, `StopMessage` are
the three statements of `stop()`, and so on. The listen thread's `tpc` is its
place in `listenThreadLogic` and `listenCheck`. `OpsLockHeld` and
`SignalLockHeld` are the two mutexes, expressed through the place of their
other holder. `applied`, `accepted` and `refused` record the operations for
the properties only. The stub's five operations are two setters and one
getter (all getters behave alike here). At this commit `handleIncomingEdges`
is commented out, so `addVehicle` and `hasVehicle` are the ones in use; the
handler serves all five, and so does the model.

### `VehicleHandoff` and the code

`pos[p][v]` is the place on v's whole route at which p's copy drives, 0 if p
has none. Pieces of routes are the maximal runs of edges inside a partition
(`_filter_or_split_route`). `StartHandout` is the part of
`handleOutgoingEdges` that looks at the border edges, `Ask` and `Send` the two
calls it makes per vehicle; between them other partitions run. `Insert` is
the whole of `PartitionManager::addVehicle`: the erasure from `sentVehicles`,
the choice of the piece, the return when there is none, the insertion, and the
update of `allVehicleIds`. `LockQueue`, `AddVehicle` and `UnlockQueue` are
`applyMutableOperations`, an operation at a time, for the neighbours in `todo`
in any order; while a queue is `locked` the handler cannot add to it. An
operation leaves the queue when it is applied instead of with the others by
the final `clear()`, which the lock makes the same to everyone else; so does
the test of `num` before the lock, for nobody can tell a lock that was taken
for an empty queue from one that was not.

Routes are assumed to begin inside a partition (`NetworkAssumption`). What
`createParts.py` does about a vehicle that starts on a border edge is the
subject of `RouteSplit`.

SUMO is external: a vehicle stays or moves to its next edge. It is assumed to
be seen on each edge, and a call is answered at once from the neighbour's
present state (the listen thread is the subject of `NeighborHandler`).

### `VehicleIdCache` and the code

A search, a refill and an insertion are two actions each, so another thread
may come between their beginning and their end. `List` is the call of
`getIDList`, `Fill` the end of `clear` and `insert`; the lock is held from
`TakeLock` to `Fill`. `Invalidate` and `Insert` are the main thread's, without
the lock, as in the code. `always` and `ever` record for the properties which
vehicles were there all the time, or at some time, of this round and the last.

### `RouteSplit` and the code

`PartRoute(p)` is `partroutes.py` on one vehicle in partition p,
`FinalDuplicatesCheck(p)` the visit of `_final_duplicates_check` to p, with
`_fix_multipart_route_ids`. The id of a piece is a number and the zeros before
it, for `addVehicle` and `route_node_is_first` compare it with `_part` and a
number without any. `NextEdge` is the loop's body, with `route_parts` and
`current_part`; `Digits` is the length of a decimal number, whatever its size.
Edges that the network does not have and empty routes do not occur
(`RouteAssumption`): `duarouter` makes neither.

### `Messages` and the code

A buffer is a sequence of bytes, a byte being the part of a number
(`Bytes`), a letter, the null character, or one that nobody has written yet
(`Unset`): an offset that is wrong on one side, or a size that is too small, meets such a byte
or a part of another field. `Copy` is `memcpy`, `NextByte` the loop's body of
`readStringsFromMessage`. A name is any sequence of characters but the null
character (`NamesAssumption`). `called` is what the stub was told, `heard` what
the handler made of it, `meant` what it answered and `returned` what the stub
made of that.

### `Startup`, `Arguments` and the code

`stage` is how far the program is: `main`, the constructor, the steps of
`createParts.py` that change the folder, `startSim`. `Exit` may come between
any two of them, so a folder may be left half cleared or half written; `Over`
is the end of `MaxRuns` starts. Of a network or data file only the number of
partitions it was cut for is kept. A command line is a sequence of words;
`Arguments` takes them one by one as the C++ library does, with its way of
numbers, of several letters behind one dash, of `--name=value` and of what it
does not know. The partition's own parser has the same options and two more.

`Turn` is a turn of the library's loop, `Consume` is `Argument::consume`, and a
thrown exception is a state with an `error` and no `rest`. `IsOptional` asks
whether a word begins with a dash, which does not depend on the parser's table:
a partition's option is no value to the coordinator either. The words are given
by their kinds: options, `Undashed`, `Dashed`, `Letters` (what `-vW` stands for)
and `Assigned` (what `--name=value` stands for); `WordsAssumption` says that a
word with an assignment is no option by itself and a number begins with no dash.
The loops are recursive functions and not recursive operators, so that they can
be reasoned about. `OwnOption` is a word in which a partition finds an option
that only partitions have, also behind an assignment or among several letters.

### The XML modules and the code

`XmlLinks` and `XmlTree` have one operator for each member function, from a heap
to a heap: nodes are numbers, `document.unlinked` the list of those in no tree.
`MarkInUse`, `Unlink` and the insertions of `XmlLinks` follow the statements of
the code; `DestroyNode` and `DeleteChildren` of `XmlTree` call each other as the
destructors do. Only `XmlTree` is recursive, so that `XmlLinks` can be proved
about. `InOnePlace(h, kids)` says that the links of a heap agree with `kids`,
which gives each node its children: the first and the last child, the siblings
on both sides and the parent of each are those of `kids`, a node that is nobody's
child has no links and is in the list of its document, once. `LinksAgree`, which
`WellLinked` checks, is `InOnePlace` with the children that a walk along the links
from the first child finds.
`XmlText` has one operator for each `ParseDeep`, over a file that is a
sequence of symbols (a letter, a bracket, an entity's name, the beginning of a
comment), and one for each `Visit` of the printer. The writer of `XmlFile`
stands for whoever writes the files: in this system they are mostly the Python
scripts, and `SaveFile` belongs to the unfinished C++ splitter.

`XmlEdit` makes no calls that have no defined result: no node goes below
itself, and `InsertAfterChild(a, b)` is not called with b the last child and
right behind a. The documentation calls that a move like any other
(`tinyxml2.h:856`), but the code looks at a's next node, unlinks b, which is
that node, and follows what is then a null pointer (`tinyxml2.cpp:987-993`).
There is no next state to model, so no run shows it; it is among the hazards,
without a property. Things
the code does that the properties have to allow for:
- text outside the root element is printed but not read as it was
  (`TextOutside`), a carriage return comes back as a line feed, and white
  space alone between two tags is no text;
- `</a/>` is taken for `<a/>`, and a closing tag outside the root element ends
  the reading without an error;
- `ShallowEqual` compares the values of attributes and not their names.

### Names of faulty variants

Operators introduced by a comment "A faulty ..." are not part of any
specification. Each is a variant of the definition below it, and the
`mutants` of `PROJECT.json` say which property it must break.

## The runs

All runs but `IdRace`, `Setup` and `ManyPieces`, which check safety only, use `FairSpec`.

| Run | Expectation | Shows |
|---|---|---|
| `LockstepEmpty` | holds, 9463 states | three partitions, no end time: type, `StepsSynchronized`, `EndAgreed`, `ServersUp`, `RepliesFit`, `NoEarlyEnd`, `ImplementsLockStep`, `Terminates` |
| `Failures` | holds, 40441 states | three partitions, two of which may fail anywhere or throw in the loop: `FailureKillsAll`, `CleanExit`, `FailureReported`, and `LockStep` again |
| `Handler` | holds, 41149 states | a link over three steps: operations once, in order, in their step, none left or refused; a call is unanswered only after a missed `listenOn`, and then for good |
| `Handoff` | holds, 14478 states | two partitions, six edges, two vehicles, one going round twice: handed over where they left (`ResumesWhereItLeft`), not twice (`NeverDoubled`, `ShadowsEndAtTheBorder`), not lost (`NoneLost`, `AllArrive`), and no end before they arrive (`EndsEmpty`) |
| `Ids` | holds, 11168 states | two handler threads and the main thread over three steps: `TypeOK`, `AtMostAStepOld`, and every question is answered (`Answered`) |
| `Setup` | holds, 143288 states | five parts, one in each behaviour: documents edited stay trees (`WellLinked`, `ImplementsForest`); files are read back or found incomplete (`RoundTrip`, `CutShortNoticed`, `NothingLeftOver`); the pieces of a route that visits a partition less than ten times are found (`FewPiecesFound`); what runs together was cut together and understands its line (`CutTogether`, `LineUnderstood`); a handler hears what the stub was told, and answers so (`Understood`) |
| `LostReply` | violation of `FinishAnswered` | the answer to `FINISHED` may be discarded |
| `LostWakeup` | violation of `EveryCallAnswered` | `listening = false` after `listenOn` |
| `Interference` | violation of `NoInterference` | a getter reads while the main thread applies |
| `VehicleLost` | violation of `NoneLost` | a vehicle that soon comes back is not sent |
| `ManyPieces` | violation of `PiecesFound` | ten pieces of a route in a partition: nobody keeps the vehicle, and the names of the pieces are not those `addVehicle` looks for |
| `IdRace` | violation of `NoRace` | one thread refills the list of ids while another searches it |

The last six are findings; `PROJECT.json` quotes the text of the repository
each contradicts.

**Bounds.** Three partitions let one be ahead, one behind and one dead. The
number of steps is bounded by `EndTime`, or by `QuietTime` after which every
partition reports itself empty: four steps contain unanimous and divided
votes. Nothing else in `ParallelSim` needs a bound. In `NeighborHandler`
`MaxSteps = 3`, `MaxCalls = 1` and `Capacity = 2` let the client be a step
ahead with its queue full, three times over; the real queue has 1024 places.
In `Handoff` there are consecutive border edges, a traffic jam that holds a
vehicle on the border until time 4, and a route with several pieces in both
partitions; no property needs a longer network to fail in the mutants.
`VehicleLost` needs one vehicle.

In `Ids` two threads suffice for one to refill while the other searches, and
three steps for a list to be a step old and then replaced; the proof is for
any number of both. In `Setup`: a program makes three nodes in two documents,
and may then copy, which makes up to six (`MaxNodes`, `Node`), so a copied
node may have two children of different kinds; behind that it stops. A file
has three pieces out of twelve, among them every kind of node, tags that do
not match, entities and references, an ampersand that begins neither, and is cut
after every symbol. Routes of up to five edges over two partitions and a border,
and some of up to 23, which have ten pieces and more in a partition. The user starts the program three
times with any of eight lines, asking for 1, 2 or 3 partitions; METIS is
assumed to give as many (for the default of 4 it gives 3). Three starts allow
a complete run, an interrupted one, and one that meets what is left. Names in
messages have one or two letters, one being the beginning of another, lists
none, one or two names: every field follows a field of more than one length.

**Fairness.** Weak fairness of each partition, of the coordinator's main
thread and of its wait thread in `ParallelSim`; of the client, the main
thread and the listen thread in `NeighborHandler`; of each partition and of
the coordinator in `VehicleHandoff`; of each handler thread in
`VehicleIdCache`, where only the questions must be answered and the main
thread may take its time. That is the scheduler's, together with
the assumption that `Simulation::step` returns. Nothing makes a partition
fail, a vehicle is held up only until `JamUntil`, and no lock is fair. Jam
and end time are part of the instance.

`CHECK_DEADLOCK` is off where the system may stop: in `ParallelSim` because a
discarded reply or a partition that stays in `destroyAll` blocks it (that is what
`Terminates` and `LostReply` are about), in `NeighborHandler` because the listen thread may sleep
for ever (likewise) and because both sides come to their end.

## The proofs

For every number of partitions `N > 0`, every end time (or none), any last
departures, and any set `MayFail` (`ConstantsAssumption`):

| Theorem | Statement |
|---|---|
| `Invariance` | `Spec => []IInv` |
| `Typing`, `Synchronized`, `SameEnd`, `HandlersUp`, `FittingReplies`, `EndsWhenEmpty` | the invariants of `LockstepEmpty`, without its bounds and with failures |
| `NoSurvivors`, `ExitIsClean` | the invariants of `Failures` |
| `Refinement` | `Spec => ImplementsLockStep` |

**Why an invariant of its own.** The properties speak of clocks and places;
they are not inductive, since nothing in them says why the coordinator will
not release a partition twice. `IInv` adds, in `ParallelSimInv`:
- `OnePlace`: a partition's message is on its way, *or* held behind a raised
  flag, *or* due for a reply, *or* on its way back;
- `MessagesFit`, `VotesFit`: it is the message the partition's place asks
  for, with its current vote;
- `Positions`: how many barriers have opened, given where a partition stands
  and whether its own has opened;
- `CountersMatch`: each counter is the number of its flags, hence, with
  `FullCount`, a counter that has reached N has seen everyone;
- `VerdictStands`: a verdict "all empty" stays true of everybody;
- `Processes`: who is reaped or killed against who still runs.

`SyncStep` has one step per action and under it one per conjunct;
`SyncUntouched` deals with the actions that touch none of the state involved.
The refinement needs no history: the barriers a partition has crossed are a
function of its place and clock (`Crossed`), and the barriers opened are
`syncBarrierTimes + steps`.

**The neighbour handler**, for every number of steps, of calls in a step and
of places in a queue (`BoundsAssumption`): `Typing`, `OnceInOrder`,
`InTheirStep`, `NothingLeft`, `NoRefusal` are all the invariants of `Handler`,
`Asleep` is its action property `LostForever`. None is inductive: why there is
room in the queue depends on how far apart the two partitions may be, and on a
call not being in two places. `IInv` of `NeighborHandlerProofs` adds
- `InStep`: for each place of the two main threads, how their barriers
  compare;
- `OneCall`: the call in hand is on its way, being handled, or answered;
- `NotYet`: before the first barrier nothing listens and nothing is queued;
- `Queued`, by `InPlace` for each operation: it belongs to the owner's step or
  to the one before, and its place in the queue is at most its number, plus
  the calls of one step if the owner has not come to apply them.

So a queue never holds more than the calls of two steps (`NextPlace`), and
none of the last step's when the owner has come to `stop`. `Lists` and
`AppliedBefore` are bookkeeping. `Kept` reduces the actions that leave the
queues alone to one operation; `QueuedSetter` is the one that adds one.

**The list of vehicle ids**, for any sets of threads and vehicles and any
number of steps (`ThreadsAssumption`): `Typing` and `AStepOld`
(`AtMostAStepOld`). A question does not outlive the barrier it is asked
before, so what a thread lists it still has in the same round (`ListedNow`).
The flag goes down once in each round: when it is up at the barrier the list
was filled in this round (`FilledNow`), a round later it is a round old
(`FilledLately`). The proof goes through with the race that `IdRace` shows,
for the properties are about searches it does not happen to.

**Handing vehicles over**, for every finite set of partitions and vehicles,
every network of edges in one or two partitions, all routes that begin inside
a partition and pass from edge to edge within one, and all times of departure
and jams (`NetworkAssumption`):

| Theorem | Statement |
|---|---|
| `Invariance`, `Typing` | `Spec => []IInv`, `Spec => []TypeOK` |
| `Ended` | `Spec => []EndsEmpty`: the run never ends with a vehicle under way |
| `SimpleVehicles` | every vehicle of a simple route is never lost, doubled or misplaced, and its shadow stops at the border, whatever the other vehicles do |
| `NoneIsLost`, `NoneIsDoubled`, `ShadowsStop`, `AllResume` | the same as the invariants of `Handoff`, when all routes are simple |

`Simple(v)`: the route comes into each partition at most once (no
`_part` pieces), passes no edge twice and does not end on a border edge. This
is no convenience of the proof: `VehicleLost` is a route with two pieces in a
partition that loses its vehicle, and which routes with several pieces are
safe depends on how long the vehicle stays away. They stay with TLC (y in
`Handoff`).

`IInv` has three parts, each inductive once those before it are known:
- `Sound`: a copy is inside its partition, what is to be sent stands on a
  border edge, and operations wait only between the two partitions that have
  the edge (`Standing`, `Handing`, `Waiting`).
- `InStep`: nobody is more than a barrier behind and each vote is still true
  (`Barriers`, `Votes`); an operation waits only while its sender still has
  the vehicle in front of the barrier, or the receiver has yet to apply it
  (`Deliveries`). Hence, when all vote to be finished, no queue holds
  anything, and it stays so (`Verdict`). `EndsEmpty` alone says nothing of a
  vehicle in a queue at the moment of the vote.
- `Located`: `Whereabouts` of each simple vehicle. It has not departed, or one
  partition drives it (`DrivenBy`), or exactly one operation on the way
  carries it (`Between`), or it has arrived; behind it there are only copies
  on the edge where they were handed over (`Behindhand`), and the partitions
  the route has still to reach have never heard of it (`Untouched`): neither
  their list of ids, out of date or not, nor their `sentVehicles` nor
  `prevOutgoingVehicles` hold it. That is why the neighbour's answer to
  `hasVehicle` is right although it may come from an old list.

The lemmas before are about the data: a simple route is inside a partition for
one run of places (`PieceEnds`, `PieceNo`), a route that leaves a partition
leaves it over a border edge to `Other`. They need induction along a route,
which `LeastElements` supplies as the existence of a least place with a
property. `LocatedStep` has a lemma per action.

**The command line**, for any words (`WordsAssumption`) and every line that the
coordinator accepts: `SameUnderstanding`. The partition's line is the
coordinator's with `-P <id> -T <end>` before it; it comes to the same `Args`,
with `id` and `end`, or it fails and the line uses an option of the
partitions only.
- After two turns the partition has taken its own options and is where the
  coordinator begins (`StartTogether`). From there the two parsers are
  `InStep`: same values, unknown words and used options, apart from the
  partition's own, and `Alike` words to come.
- The words to come are alike and not the same, for `--name=value` is split in
  two only if `name` is an option (`Alike`, `Diverge`). Where the tables differ the
  partition fails: its options are in use already, so a second one is a
  duplicate. `Related` therefore has three cases: the coordinator has failed,
  the partition has and the line tells why, or they are in step.
- `TurnRelated` is a turn, `LetterTogether` a letter of a word of several.
  The turns and the letters have no bound: both are inductions, by the first
  turn (letter) after which the two are not related (`LeastElements`).

**The start-up**, for any set of lines, configurations and neighbours, any
number of starts, and a METIS that gives at least one partition and no more than
it was asked for (`FilesAssumption`): `Invariance` (`Spec => []IInv`),
`AlwaysCutTogether` and `LinesUnderstood`, which are `CutTogether` and
`LineUnderstood` of `Setup`. `CutTogether` looks only at the moment when all
have loaded, and says nothing of a folder that a start before has left half
cleared or half written. `IInv` of `StartupInv`, which TLC has checked on the
instance of `Setup`, adds
- `LineRead`: a program that runs has accepted its line, and works with what it
  made of it;
- `OneCut`: there is an n such that all that is in the folder was cut for n
  partitions, and n is what METIS gave for the number in `partArgs.json`, if
  that is there. An interruption does not disturb it, for only an empty folder
  is cut into again;
- `Partitioning`: what is in the folder at each step of `createParts.py`;
  without `--skip-part` the simulation starts with a `partArgs.json` that says
  what the line says;
- `Counted`, `Processes`: how many partitions are started, with which line, and
  what each has loaded. That a partition loads the files with its own number is
  `SameUnderstanding`.

If `numParts.txt` is missing and METIS gave fewer partitions than the line says,
at least one partition is started for which there are no files, and it never
loads. That is why `CutTogether` holds even in a folder that was partly cleared,
and why the proof has to count the files.

**Messages**, for all names, speeds, positions, lane indices and lists of names,
of any length (`NamesAssumption`): `AllUnderstood`. What TLC checks on names of one or two letters
depends on where each field begins, and that on the lengths of all
before it.
- `Carries(buffer, offset, bytes)` says that the bytes are in the buffer from
  there on. A copy puts its bytes there and disturbs nothing outside them
  (`Copied`); a number or a name that a buffer carries is what is read there
  (`ReadNumber`, `ReadName`).
- `Created`: the buffer of `createMessageWithStrings` has the size that
  `TotalSize` counts, and carries the number of the strings and all strings with their
  terminators, one behind the other. `ReadStrings`: from a buffer that does, the
  same strings are read. Both go along the list by its first string that
  is not in its place.
- A lemma for each call (`AskingHeard`, `InEdgeHeard`, `SpeedHeard`,
  `AddingHeard`) and each answer (`ListReturned`, `BoolReturned`, `OkReturned`);
  `Dispatch`: the operation is still there after it is written last, over the
  first four bytes.
- The inductive invariant `Agreed` says that a request in its socket reads as
  the call that was made, and a reply as the answer that was meant.

**Routes**, for any number of partitions, any networks and routes, and
hence for any number of pieces (`RouteAssumption`):
- `RunsAreVisits`: what the loop of `_filter_or_split_route` collects are the
  visits of the route to the partition. Each piece is a stretch of edges inside
  that no edge inside precedes or follows, they come in order, and no edge
  inside is left out.
- `AllFewPiecesFound` (`FewPiecesFound`), from the inductive invariant `RouteInv`:
  while partitions split (`Splitting`) each has its own pieces or none yet;
  when copies are removed (`Checking`) the partitions visited have what they
  are to keep, the others what they have split. A copy is removed only if
  another that is still there has a first piece as long, so one is always left;
  and one that was visited and is still there has a longer first piece than
  every other. `FewPiecesFound` counts only at the end, when all have been visited:
  then of two that are left both would be longer than the other (`OneKeeps`). A
  partition that is visited less than ten times has a first piece, for then no
  number has a zero before it, and all its pieces have their names (`EachFound`).
  Of a partition that is visited more often nothing is said; `ManyPieces` shows
  what becomes of its pieces.

**Documents**, for any heap whose links agree, of any number of documents and
nodes (`NodesAssumption`; these are not theorems about a behaviour but about the
calls, each on its own): what the code does with links that it keeps twice.
- `DocumentsFirst`: the links agree at first; `CreatedUnlinked`: and when a
  node has been taken from the pool, which is then in the list of its document.
- `InsertedLast`, `InsertedFirst`, `InsertedAfter`: with `rest` the children of
  all nodes without n (`RestOf`), the children of p are afterwards those of
  `rest` with n behind, before or right after the child named, all other nodes
  have the children of `rest`, and the links agree with that. It does not matter
  where n was: among the children of another node, of p itself, next to its new
  place, or in the list. The call that the code leaves undefined is excluded
  by its condition: a is right before n and n is the last child.
- `ChildrenDetermined`: the links leave no choice of `kids`, so the theorems
  above say all there is to say about the children.

`Taken` is what `InsertChildPreamble` leaves: n linked nowhere and in no list
(`Listed(g, {n})`), links agreeing with `rest`; `Placed` is `LinkBetween` on such
a heap. Between the two the lemmas compute the sequences (`RemovedFrom`,
`InsertedTo`). A p inside n's own subtree is not excluded: the links agree then
too, but are no tree any more. The library leaves that to its caller, and so do
the theorems; that the documents remain trees is checked by TLC.

**Only model-checked.** Liveness (`Terminates`, `FailureReported`,
`AnsweredUnlessAsleep`, `ClosesUnlessAsleep`, `AllArrive`, `Answered`), which
the prover does not reach; `VehicleHandoff` on routes that come back to a
partition; and the documents and files of `Setup` (`WellLinked`,
`ImplementsForest`, `RoundTrip`, `CutShortNoticed`, `NothingLeftOver`) beyond the
insertions above. There the code itself is a recursion over trees of any depth:
the destructors, the deep copies, the parser and the printer call themselves
along the tree, and what they leave behind would have to be shown by an
induction over it.

## Not modelled

- Of the messages: names with an embedded null, which SUMO's ids do not hold;
  the names of sockets, which are formatting.
- *The C++ route splitter* (`PartRoutes.cpp`): unfinished; it does not compile
  and is not built.
- *Statistics, plots, experiments*: they read what a run leaves behind.
- *METIS, netconvert, duarouter, SUMO*: external.
- Of `createParts.py`: additional files, prefixes, pictures, and edges in more
  than two partitions, which only print a warning; flows. `numParts.txt` is
  always written into `data` (`convertToMetis.py:255`), so another
  `--data-dir` does not work; the folder of `Startup` is that one.
- Of `tinyxml2`: typed accessors, handles, collapsing of white space, compact
  output, the byte order mark, line numbers, hexadecimal references, files cut
  in the middle of a symbol.
- Of `argparse`: subparsers, groups, choices, help; the programs use none.
- The body of `handleIncomingEdges`, which is commented out; timing of socket
  connections (partitions sleep a second before they connect, and ZeroMQ
  retries); a failing `fork` or `exec` (`utils.cpp:44`: the child would go on
  as a second coordinator); the second call of `stop` from the handler's
  destructor.

Two things `Startup` leaves out of its properties rather than of its actions:
`-N 1 --skip-part` over data of more partitions, for `loadRealNumThreads` is
then not called; and a folder whose clearing was interrupted behind the
networks but before `partArgs.json`, with which the partitions end for want
of files until `--force` is given. Each is listed among the hazards.

## Plan

1. *Done:* `LockStep`, `ParallelSim` with its invariant, proofs and
   refinement; `NeighborHandler`, `VehicleHandoff`, `VehicleIdCache`, `Startup`,
   `Arguments`, `RouteSplit`, `Messages` and `XmlLinks` with their proofs; the
   other XML modules.
2. `PartitionData`: border edges, neighbours, route ends and last departures
   computed from networks and routes, as a refinement of the data of
   `VehicleHandoff`; edges in more than two partitions.
3. `SimpleVehicles` for routes that come back to a partition after a long
   enough way; deletion in `XmlTree` without recursion, to prove `WellLinked`.
