# A verification project for dripcap

dripcap is a packet analyzer: an Electron user interface (JavaScript) and a
helper process, *goldfilter* (C++), that captures packets, dissects them with
scripts in a pool of threads, reassembles streams, and matches filters in
another pool of threads.  The two talk over a local socket.  This directory
holds TLA+ modules of the program, the TLC configurations that check them and
theorems about them checked by TLAPS.

## 1. The system

| part | code | state | operations | talks to |
|------|------|-------|------------|----------|
| dispatcher | `goldfilter/src/dispatcher.cpp` | queue, packet cache, `maxID`, `streamMaxID`, one context per filter, script tables | `insert`, `get`, `getFiltered`, `setFilter`, `loadDissector`, `loadStreamDissector`, `loadModule`, destructor; loops of the dissector, stream and filter threads | capture thread and server call it; it calls scripts and the cache |
| object cache | `goldfilter/src/object_cache.hpp` | 1024-entry ring before a rocksdb table | `get`, `has`, `set`, `remove` | dispatcher |
| capture thread | `goldfilter/src/pcap*.cpp` | device, options, BPF program, `active`, thread | `start`, `stop`, setters, `getAllDevs` | hands packets to `Dispatcher::insert` |
| RPC server | `goldfilter/src/server.cpp`, `status.hpp`, `darwin`/`win32`/`msgpack_server.cpp` | `capturing`, last reported status, log ring, ping flags, sockets | one handler per command, watchdog, read loop | client socket, dispatcher, capture thread |
| scripts | `goldfilter/src/script_class.cpp` | a V8 isolate each | `loadSource`, `loadModule`, `analyze`, `analyzeStream`, `filter` | dispatcher threads |
| buffer streams | `goldfilter/src/buffer_stream.cpp`, `goldfilter/stream.es` | chunks, chunk count and length in rocksdb; reader's `index` and `offset` | `write`, `read`, `length` | stream scripts write, the client reads through the server |
| client | `goldfilter/index.es`, `filter.es` | socket, pending callbacks, packet cache, class table | `_call`, `requestPackets`, `setFilter`, `addClass`, `addDissector`, ... | server |
| session | `dripcap/session.es`, `session-interface.es` | poll timers, settings, registry of scripts | `create`, `start`, `stop`, `close`, `register*`, `unregister*` | client, PubSub |
| PubSub | `dripcap/pubsub.es` | per channel: handlers, replay queue | `sub`, `pub`, `get` | all user-interface packages |
| packages | `dripcap/pkg.es`, `package-interface.es` | a promise and an instance per package | `load`, `activate`, `deactivate`, `updatePackageList`, `install`, `uninstall` | file system, npm |
| packet list | `packages/ui/packet-list-view`, `packet-filter-view`, `status-view` | counts shown, visible range, cells | status, filter, page and packet events | session, PubSub |
| dissectors | `packages/dissector/*` | none (`tcp_stream.es`: sequence number and length) | `analyze` | scripts |
| shell | `src/main.es`, `src/updater.es`, `packages/etc/pcap-file` | windows | start-up, update, import of a pcap file | session |

How they interact.  A packet enters through `Dispatcher::insert`, called by
the capture thread, by the server thread (request `analyze`) and by the stream
thread itself (packets derived from streams).  `insert` gives it an id and queues
it.  A dissector thread takes it, runs the scripts and stores it.  `maxID`
follows the gapless prefix of stored ids; the single stream thread visits the
packets up to it in order and publishes `streamMaxID`.  Readers and filter
threads see packets up to `streamMaxID`.  The filter threads of one filter share
a context and append the ids of the matches to one list, through which the user
interface pages by position.  The user interface polls `get_status` every
100 ms and asks for the pages and packets it shows.

What is hard, and what makes each part correct:

* *dispatcher*: four kinds of threads, one mutex, three condition variables;
  work is done outside the mutex and finishes in any order.  Ids must be neither
  lost nor doubled, the published prefix must be complete and no longer
  written to, the result list must be exact and in order at every moment,
  every wait must be matched by a notification, and `setFilter` and the
  destructor must get every thread to end.
* *object cache*: the cached object must agree with what is stored; ids must be
  ordered and distinguished; an entry that is present must be found.
* *capture thread and server*: the reported flag must agree with the thread;
  replacing the capture source must not lose a running capture silently; the
  watchdog must not end a server that is pinged, and must end one that is not.
* *buffer streams*: a reader that reads in parts must get the bytes that were
  written, in order, once.
* *session, PubSub, packages, packet list*: single-threaded, but every `await`
  and every handler is a point where something else may have happened; a reply
  that belongs to an earlier filter, session or package version must not be
  taken for the present one.

The full list of such places, with their lines and the properties that watch
over them, is `hazards` in `PROJECT.json`; a hazard without a property says why
it has none.

## 2. Plan

Done, in this order:

1. `Dispatcher`, `DispatcherProperties`, `PacketLog` and their proofs.
2. `DissectorLoading`: how classes and scripts reach the workers before a
   capture, and what a captured packet is dissected with.
3. `ObjectCache`: the ring, the table and the objects threads share.
4. `CaptureControl`: the buttons, the session, the handlers, and
   `Pcap`/`PcapDummy` with the capture thread.
5. `BufferStream`: writer, reader in parts.
6. `TestdataReplay`: the same packet objects inserted again and again.
7. `ServerLifetime`: connection, ping, watchdog, exit and the end of the
   helper, on sockets and on pipes.
8. The scripts: `ScriptModules` (loading and classes), `PacketScripts` (the
   walk over a packet's layers), `StreamVisit` (a visit of the stream thread).
9. `Buffers`: slices, reads, search and hex form as pure algorithms.
10. `PacketView`: status poll, filter changes, pages and packets, up to the rows.

`MCControl`, `MCData` and `MCScripts` check models of one area that share no
state in one run.

The safety properties of all of these are proved (section 5).  To come:

11. `PacketView` over `PacketLog` instead of counters of its own, so that the
    refinement of the dispatcher reaches the rows.

## 3. The dispatcher

`Dispatcher.tla` models `dispatcher.cpp`.  One mutex guards all its data, so
each critical section is one action and the work outside the mutex is the time
between two actions.

| code | model |
|------|-------|
| `Private` (23-51) | `exiting`, `count`, `dropped`, `waitingPackets`, `packets` (the ids stored), `maxID`, `streamMaxID` |
| `FilterContext` (90-96), `FilterWorker::exiting` | `fetchedMaxID`, `filteredMaxID` (its `maxID`), `matched` (its `set`), `filtering`, `filtered`; `filterExiting` |
| `insert` (536-569) | `DropPacket` or `NumberPacket`, then `PushPacket`, then `NotifyDissectors`, for each of the three inserting threads |
| dissector thread (198-268) | `DissectorRest` (wait or exit), `DissectorTake`, `StorePacket`, which stores, advances `maxID`, notifies and, in the same critical section, takes the next packet |
| stream thread (303-405) | `StreamRest`, `StreamTake`, `StreamPublish`; while it is visiting it may insert derived packets |
| filter thread (116-168) | `FilterLoad`, `FilterRest`, `FilterTake`, `FilterMatch` |
| `setFilter` (491-523) | `SetNewFilter`, or `ReplaceFilter`, `NotifyFilters`, `InstallNext` (join, erase, install) |
| `~Dispatcher` (408-438) | `Close`, `NotifyAll`, `JoinWorkers`, `DrainQueue`, `JoinStream` |
| `getFiltered` (607-624) | `Page` |
| `condition_variable::wait` | a thread is `ready` before it tests the predicate and `waiting` while it sleeps; `Notified` makes the waiting threads ready; `SpuriousWakeup` does so without a notification |

Abstractions: a packet is its id; what a filter decides is the constant
`Matching`; a source that does not load is in `Broken`; one filter name (the
user interface only uses `main`); the packet cache is a set of ids.  The
destructor's unlocked emptying of the queue is a pop per step, each atomic.

`PacketLog.tla` is what clients rely on: a log of accepted packets with a
readable prefix that grows one packet at a time, and a result list that is at
every moment the ascending list of the matches among the scanned packets.

### Loading scripts

`DissectorLoading.tla` models what happens from `SessionInterface.create` to
the first packets: it composes the client, the server thread and the script
tables of the dissector threads, which `Dispatcher` leaves out.

| code | model |
|------|-------|
| `Session` constructor (16-24), `create` (63-91), `start` (62-67) | `Builtin`, `Registered`, `Requested`, `ClassesLoaded`, `StartSession` |
| `_build`, `addClass`, `addDissector` (`index.es` 229-361) | `BuildEnds` (in any order, may fail), `SendClass` (along `classPromise`), `SendScript` |
| `load_module`, `load_dissector` (`server.cpp` 266-318) | `GiveModule`, `GiveScript`, one worker at a time, and `Reply` |
| `DissectorWorker` loop (200-234) | `WorkerRest`, `WorkerRun` (loads `sources`, then takes a packet), `WorkerStore` |

A class is what scripts `require`; a script whose classes are not all in the
worker's `modules` when it is loaded does not load (`Loadable`).  Left out: the
`stop` that `Session.start` awaits first (it does nothing before a capture), the
order within the tables, and `d->modules`.  `LoadingAssumption` says that at
least one class is registered: `create` awaits the registered classes only, and
the builtin ones are then covered by the promise chain.  The shipped arp, tcp
and dns packages register several.

### Starting and stopping

`CaptureControl.tla` composes the buttons, `Session`, the client, the server's
handlers and the capture source with its thread.

| code | model |
|------|-------|
| buttons (`status-view.tag`, `render.es` 33-45) | `ClickStart`, `ClickStop`; `ClickClose` |
| `Session.start`, `GoldFilter.start` | `Receive` sends what `Following` says when a reply arrives |
| handlers (`server.cpp` 193-253, 436-441) | `HandleSetOpt`, `HandleStart`, `HandleStop`, `HandleExit`, `Leave` |
| `Pcap::start`, `stop`, `setBPF`; `PcapDummy` | `SourceStarts`, `HandleStop` with `JoinStopped`, `SetFilter`, `ThreadStops`, `ThreadFails` |

The socket keeps the order of requests and of replies, and the server handles
one request at a time; what overlaps is the client's asynchronous calls, the
thread, and the join in the middle of a `stop`.  `bpf` says whether the
compiled filter is the session's, and `filterError` why the last `setBPF` made none:
the device did not open (`pcap.cpp` 220-225; what program there was stays) or the
filter did not compile (231).  The client ignores both answers and starts; so
`CaptureIsFiltered` names both as the cases in which a capture may run unfiltered, the
first where the device opens again for the start.  The interface and the other
options are left out.

### The packet cache

`ObjectCache.tla` models `object_cache.hpp` with the threads that share its
objects.  An object is a pair of an id and a number: 0 for the one given to
`set`, n for the n-th that `get` made from the table.  `Get`, `Set` and
`Insert` follow the functions of these names, `Read` is any reader, and
`StreamTake`, `StreamAmend`, `StreamPublish` are a visit of the stream thread,
which changes the object it was handed outside the mutex.  The table keeps what
`set` serialised, so an evicted packet comes back without the amendments:
`PublishedIsAmended` says exactly until when readers see them.

### Streams of bytes

`BufferStream.tla` models `buffer_stream.cpp` and `stream.es`.  A write is three
Puts in the order `Puts`; `ScriptRead` is the C++ reader; `Call`, `Serve`,
`ResumeAtEnd`, `ResumeEnough` and `ResumeMore` are `read(size)` between its
awaits, with `index` and `offset`.  Bytes are numbered in the order written.

### Test data

`TestdataReplay.tla` models `pcap_dummy.cpp` and `set_testdata` together with
the way of the packet *objects* through `insert` and a dissector thread.  In
`Dispatcher` a packet is its id; here the source hands over the same objects
again every round, and an object carries the id it got last.

| code | model |
|------|-------|
| `set_testdata`, `start`, `stop` (`server.cpp`) | `SetTestdata`, `Start`, `Stop`, and `Join` for the wait for the old thread |
| `PcapDummy` thread (`pcap_dummy.cpp` 80-100) | `Hand`, `Number`, `Push`: the two critical sections of `insert` |
| dissector thread | `Take`, `Store`, which reads the object's id when it stores it |

`lost` records the ids that were overwritten before they were stored.

### The life of the helper

`ServerLifetime.tla` models `Server::start`, its watchdog and destructor,
`MsgpackServer` of both platforms (`posix` says which), and the client that
connects with retries, pings, asks for the end, hangs or dies.  Time passes in
`Tick`; every timer is the time left, so no clock grows.

| code | model |
|------|-------|
| `MsgpackServer::start` | `Bind`, `Listen`, `Accept`, the reads (`Interrupt`, `ReadSocketFails`, `ReadPipeFails`), `Quit` |
| handlers of `ping` and `exit` | `HandlePing`, `HandleExit` |
| `stop()` | `StopSocket`, `StopPipe` |
| watchdog (`server.cpp` 106-124) | `Arm`, `Timeout`, `StopServer`, `Spurious`, `Woken` |
| `~Private` | `Notify`, `Join` |
| client (`index.es`) | `Connect`, `SendPing`, `Close`, `Abandon` |

Met while modelling, and part of the model: the notification of the destructor
can come between two waits of the watchdog and is then lost, so the join lasts up
to two windows; a reply to a client that is gone raises `SIGPIPE`; the client does
not retry a refused connection; on Windows `stop()` does not wake `ReadFile`,
so a hung client keeps the helper; a helper whose watchdog has returned
before its client died waits for ever.  `HelperEnds` says what remains true.

### The scripts

`ScriptModules.tla` is one script and its classes: `loadModule`, `loadSource`,
`require()` with its cache, and the unpacking of instances.  A source is the set
of names it requires, in any order, and whether it exports a function; a circle
ends by the stack overflow at `MaxDepth`.  What a value is unpacked as is an
instance or a `CustomValue`, and `threw` says that it is the latter because its
constructor threw (`script_class.cpp` 183-200).  `DepthAssumption` says that the stack is
deeper than there are modules, as V8's is, so that nothing but a circle fills it.  Stream scripts load their source
before their classes, as the stream thread does.

`PacketScripts.tla` is one packet under the dissector scripts: `NextLayer` and
`WalkEnds` are the loop of `DissectorWorker` with `firstLayer`, and `Call` is one
`analyze` with the copies into and out of V8 (`ToScript`, `FromScript`).  A
script may add, remove, replace or rename layers, attach a stream, or throw.
With `shipped` scripts behave like those in `packages/dissector`: then
`NothingIsLost` holds; scripts that attach a stream to a layer that already has
one lose it, because the layer comes to them without its streams.

`StreamVisit.tla` is what `Dispatcher` has as one step: `FindStreams`, `Take`,
`AnalyzeStream`, `Analyzed`, `NextRound`, `EndVisit` follow the loop of the
stream thread (`dispatcher.cpp` 303-405) with its cache of script objects,
while `LoadStreamDissector` adds scripts at any time.  `segments` and `ended` are
history variables: the items of every stream, and the entries of those that are over.

### Buffers

`Buffers.tla` follows `buffer.cpp`: `sliceRange`, the reads with their check,
`search` (the loop of `indexOf`), the hex form, and `Cross`, what a buffer is
after msgpack.  Arguments are numbers modulo `Word`, so negative ones wrap as
they do when v8pp casts them.  `toString('utf8')` is not modelled: it reads from
the first byte of the array instead of the slice's.
Constants (`BoundsAssumption`): the number of digits is even, as 16 is, so that
a signed number has its own half of the range; `Word` is at least
`3 * MaxLen + 4`, as 2^64 is for any array in memory, so that offsets and widths that are no
wrapped negatives do not overflow when they are added to a start.

### The packet list

`PacketView.tla` goes from the dispatcher's counters over `get_status`,
`get_filtered`, `get_packets`, the poll of the session and the packet cache of
the client to the rows of `packet-list-view.es`.

| code | model |
|------|-------|
| stream and filter threads | `Dissect`, `EndVisit`, `FilterOne` |
| handlers (`server.cpp`), `Status::operator!=` | `ReadSize`, `GetStatus`, `GetFiltered`, `GetPackets`, `SetFilter`; `Changed` |
| poll (`session.es` 68-75) | `Poll` |
| events of the list | `StatusArrives`, `FilteredArrives`, `PacketsArrive`, `Scroll`, `ChangeFilter`, with `Update` and `UpdateCells` |

Calls and answers keep their order on the socket; what crosses is an answer
under way and a filter change or a scroll in the list.  Two history variables
tell what the list cannot: `old` counts the answers under way that the server gave
before its last change of the filter, and `heard` says whether the list, since it was
last emptied for a filter, was told nothing, only what holds for that filter, or
something that came late.  `RowsAreRight` and `RowsConverge` hold through any
changes of the filter, with two exceptions that are defects of the code: a late
page puts rows of the old filter among those of the new one and they stay until they are scrolled
away (`heard = "late"`), and a list that has emptied itself is not told the counts it was
told last (`LeftEmpty`, which the run `view_list` shows).

## 4. The runs

| run | configuration | properties | what it shows |
|---|---|---|---|
| `dispatcher` | `MCDispatcher.cfg` | `QueueIsSound`, `PipelineOrder`, `ReadersSeeFinishedPackets`, `FilteredIsExact`, `NoMatchHeldBack`, `ImplementsPacketLog`, `PagesAreStable` | Every interleaving of the three inserting threads, two dissectors, the stream thread, two filter threads and a server thread that sets, replaces and removes filters and closes the dispatcher, over four packets and a queue of one: the pipeline and the filter results are safe, the queue overshoots by at most one packet per other inserting thread, and the whole implements the log its clients rely on. |
| `live` | `MCDispatcherLive.cfg` | `EveryPacketIsPublished`, `ServerReturns`, `FetchedIsSettled` | Under weak fairness of the threads alone, accepted packets become readable, setFilter and the destructor return, and a filter settles what it fetched. |
| `stall` (expected violation) | `MCDispatcherStall.cfg` | `FilterCatchesUp` | A filter whose threads fall asleep before the stream thread publishes the last packet never learns of it: publishing does not notify filterCond. |
| `loading` | `MCDissectorLoading.cfg` | `TypeOK`, `NoScriptRejected`, `PacketsFullyDissected`, `EveryWorkerLoads` | Sources built in any order, a builtin and a registered class and two scripts that need them, sent to two workers while up to three packets are captured: no script meets a missing class, no packet is dissected by part of the scripts, and every worker loads every script it was given. |
| `control` | `MCControl.cfg` | `NeverTerminates`, `CapturingIsActive`, `QuietWhenStopped`, `CaptureIsFiltered`, `WatchdogIsSound`, `ClicksAreHonoured`, `HelperEnds` | Captures: three clicks on start and stop, the closing of the session, read errors, devices that do not open, for the filter or for the capture, and filters that do not compile, in any order: a capture is unfiltered only after one of the last two. Life: the helper from start to end on sockets or a pipe, with a client that connects in time or late, pings, hangs, dies or asks for the end, interrupted reads, failed calls and a watchdog that may miss its notification. |
| `data` | `MCData.cfg` | `CacheMirrorsRing`, `PublishedIsAmended`, `StreamIsSound`, `BuffersAreExact`, `CachedIsShared`, `StoredComesBack` | Cache: five packets stored in any order through a ring of three entries, read by anyone while the stream thread amends them. Stream: up to three chunks written in three Puts each while a script reads along and the user interface reads five times in any sizes. Buffers: every array of up to four two-digit bytes, sliced and stored again and again with every argument of a four-bit size_t. |
| `stream_view` (expected violation) | `MCBufferStreamView.cfg` | `ShowsOmittedBytes` | The third partial read of one chunk returns bytes that were returned before, because the offset is counted in the rest of the chunk and not in the chunk. |
| `replay` | `MCTestdataReplay.cfg` | `TypeOK`, `OnlyCurrentSource`, `InsertsAreStored`, `StopsAtFirstLost` | Two sets of two test packets replayed six times in all through a queue of two entries and two dissector threads, with starts, stops and set_testdata in between: the old source is gone when set_testdata is answered, every insert is stored once, and maxID stops exactly before the first id that an object lost on its way. |
| `replay_list` (expected violation) | `MCTestdataReplayList.cfg` | `ShowsPackets` | When the first packet is handed over again before it is stored, its id 1 is overwritten, no packet is ever stored as 1, and maxID stays 0: the list of the UI tests stays empty. |
| `scripts` | `MCScripts.cfg` | `LoadingIsSound`, `WalkIsSound`, `VisitIsSound`, `InstanceIffResolvable`, `EngineReturns` | Loading: requires among three names, circles included, any of them registered or not, exporting a function or not. Packet: up to four layers under scripts that add, replace, remove and rename layers, attach streams or throw, or that behave like the shipped ones. Visit: two packets with streams of one id in two namespaces on two layers, begun, ended and derived in every order, and stream scripts that register at any time. |
| `view` | `MCPacketView.cfg` | `TypeOK`, `RowsAreRight`, `AsksFinishedPackets`, `RowsConverge` | Two packets, a filter or none, and a user who scrolls or changes the filter twice while statuses, pages and packets are under way: the rows show the right packets at every moment and in the end all that are in sight, of whatever filter was applied last, unless an answer for an older filter comes late or the list is left empty; the list never asks for a packet the stream thread is still at. |
| `view_list` (expected violation) | `MCPacketViewList.cfg` | `ShowsPackets` | A filter set once more, or replaced by one that passes as many packets, while no packets come: the list has emptied itself, the status is the same as before and is not sent, and nothing is shown. |

Three runs check several modules.  `MCControl`, `MCData` and `MCScripts` are
sums: the first state chooses which of the models runs (`part`), and the
others rest in a state of theirs in which their fairness conditions ask for
nothing.  The models share no variables, so a behaviour of the sum is a
behaviour of one of them.  Their invariants are grouped there by what they
are about (`StreamIsSound`, `WatchdogIsSound`, ...), type invariants
included.

Bounds.  Two dissectors and two filter threads are the smallest pools in
which work finishes out of order; four packets allow a gap, an early match
before a late non-match and the reverse; a third thread of a kind does what the
second does, since the threads only share the context.  `QueueLimit` 1
replaces 32: full, empty and overshooting queues all occur.
`Filters` has one source that works and one that does not load.  Dissectors and
filter threads are interchangeable (`Symmetry`); no liveness run uses symmetry.
`MaxPackets` and `MaxDropped` bound the counters in the guards of
`NumberPacket` and `DropPacket`.

In `loading` two builtin classes, one registered class and two scripts give every
relation that matters: a script that needs a builtin class only, and one that
needs the registered one too; three packets let one worker be busy while the
other loads.

In `control` three clicks allow two overlapping starts with a stop before,
between or after them.  The periods of the helper keep the order of the real ones:
a ping every 3 of 9 units where the code has 10 of 30 seconds, a delay of at
most 2, and a client that may connect up to 3 late; one spurious wake-up
shifts the watchdog's window against the pings.  `PeriodsAssumption` is what
`NoFalseAlarm` rests on: connection, one ping period and one delay fit in a window.

In `data` five ids pass through three slots, so entries are evicted before,
during and after their visit.  Chunks of one, three and four bytes
are read by one, by two or whole, so that reads end inside, at the end of and
across chunks.  A word of 16 values over arrays of at most four bytes leaves
room for arguments inside, behind and, wrapped, before the slice; bytes of two
binary digits are enough for every search and hex string to be ambiguous.

In `scripts` three names allow circles of length one, two and three and a
chain; a depth of four is more than any chain without a circle needs.  Four
layers under three namespaces allow a layer to be replaced under a
namespace that was seen, and scripts unlike the shipped ones use two of the
namespaces.  Two packets, two layers, two namespaces and three pieces of streams
of one id let a stream begin in one packet and end in the next, or on another layer, or within a
derived stream.

In `replay` two sets of two packets are inserted six times in all, three
rounds of one set; a queue of two lets an object be queued, dissected and
inserted again at once.  In `view` one row and two packets let the list
scroll past its ends, and two gestures are enough for a filter to be replaced while
answers of the one before are under way, and for a scroll on either side of
a change; two calls are under way.

Fairness.  `Fairness` of `Dispatcher` is weak fairness of each thread's own steps: the
operating system runs every runnable thread, the critical sections are short,
and scripts are assumed to return.  Nothing is assumed of the environment: no
packet need come, nobody need set a filter or close, no spurious wakeup need
happen.  Mutex starvation is excluded by treating each thread's steps as
weakly fair, which is what a fair enough `std::mutex` gives.
`DissectorLoading` and `CaptureControl` assume weak fairness of the event loop,
of the server thread and of the helper's other threads; builds end, well or
not; no click, failure or packet is assumed.  `BufferStream` assumes that a
script finishes its write and that the server answers.  `ServerLifetime`
assumes that its two threads run, that time passes, and that the timer of a
client that lives fires.  In `ScriptModules`, `PacketScripts` and `StreamVisit`
the thread that runs the script goes on.  `PacketView` assumes that the server
thread, the poll timer and the event loop go on; no gesture and no packet.  It assumes
nothing of the stream and filter threads: a packet may stay unpublished, and a
filter thread may sleep on beside packets that are published, as `stall` shows, so
`RowsConverge` is about the list as far as the threads have come.
Deadlock is checked in every run: modules whose system ends say so with
`Terminated`, and in `data` the threads may leave the cache alone.

Disagreements found, each with a run that is expected to fail and an entry of
`findings` in `PROJECT.json`:

* `stall`: the wait of the filter threads is for `streamMaxID > fetchedMaxID`
  (line 139), and the assignment to `streamMaxID` (line 403) is not followed by
  a notification.  If the last packet of a burst is published after the filter
  threads went back to sleep, its match is missing from the results until the
  next packet.  `FetchedIsSettled` in run `live` says exactly what does hold.
* `stream_view`: the third partial read of one chunk starts at the wrong byte;
  `NothingSkipped` says what does hold.
* `replay_list`: when the first test packet is handed over again before it is
  stored, nothing is ever stored as 1 and the list stays empty;
  `StopsAtFirstLost` says where `maxID` stops in general.
* `view_list`: a filter applied while nothing is captured can leave the list
  empty, since the list has emptied itself and the unchanged status is not
  sent; `RowsConverge` says what holds otherwise (its exception `LeftEmpty` is this case).

## 5. The proofs

The proofs are in the modules named `...Proofs`.  They hold for every value of
the constants that satisfies the assumption named in the module, which the runs
evaluate on theirs.

The dispatcher (`DispatcherProofs`, `DispatcherFilterProofs`), for any number of
dissectors and filter threads, any filters and any bounds, under
`ConstantsAssumption` (the limit of the queue is positive, `NoFilter` is not a
filter, `Matching` gives a set of ids per filter):

* `TypeCorrect`: `TypeOK` is inductive as it stands; besides types it says
  that a thread holds an id exactly at the places of its loop where it does.
* `QueueSound`: that each accepted packet is in exactly one place is not
  inductive; `PlaceInv` says it of an arbitrary id: an id is in a place only if
  it was given (`GivenInv`), the places are apart (`ApartInv`), within the queue
  and among the threads no id occurs twice (`DistinctInv`), and none is dropped on the
  way (`KeptInv`).  `BoundInv` adds the threads that have passed the length
  check, and have not pushed yet, to the length of the queue.
* `PipelineOrdered`: `PipelineOrder` is not inductive alone, because
  `StreamPublish` copies `streamCursor`; `StreamInv` relates the cursor and
  the place of the stream thread to `streamMaxID`.  That `maxID` stops at the
  first gap is the definition of `Advanced`; that the gap is never filled
  below it needs `1..maxID \subseteq packets`.
* `FilteredExact` and `NothingHeldBack`: the inductive invariant `FilterInv`
  adds who holds what (`HandsInv`: filter threads hold different ids, each of
  which is in `filtering`) and where the settled
  ids end (`ContextInv`: an id up to `fetchedMaxID` is settled, being matched,
  or recorded; every id being matched lies above the frontier).  The
  lemma `AscendingConcat` says that appending an ascending batch above the
  frontier to an ascending list leaves it ascending.
* `Refinement`: under the invariants above every step of the dispatcher is a
  step of `PacketLog` (`NumberPacket` accepts, `StreamPublish` publishes,
  `SetNewFilter` and `InstallNext` select, `FilterMatch` scans) or leaves the
  log unchanged.
* `ReadersSafe` combines `PlaceInv`, `PipelineInv` and `HandsInv`: what is published is
  stored, so no dissector holds it, and the stream thread is past it.
* `PagesStay`, an action property: a step that does not install a filter leaves
  a prefix of the result list alone (`FilteredGrows`), and a page is a
  stretch of it (`PageOfPrefix`).

`DissectorLoadingProofs`, for any workers, classes and scripts
(`LoadingAssumption`): `LoadingInv` follows a class and a script from their
builds over the queue to the workers' tables.  `ClientInv`: what is sent was built, in the order
of the chain; `RequestInv`: a script stands behind the classes it requires in
the queue, and the request for the start behind everything; `TableInv`: a
worker that has a script has its classes.  `NoneRejected` and `FullyDissected`
follow from it.

`ControlProofs`, for any number of clicks, and for any periods with
`PeriodsAssumption`.  It is about `ControlSpec`, which a run checks, and
`CaptureRuns` carries the theorems on `Spec` over to it.

* Capture: `ThreadInv` ties the place of the server thread to the capture
  thread, and `OptionsInv` carries the handling of the options from `set_opt`
  over its reply to the `start` that follows, through both queues of the socket.
  `Filtered` has the exceptions of `CaptureIsFiltered`: the last `setBPF` that was not
  refused failed, on the filter or on the device.
* `WatchdogSound`: `PingInv` says that a client in time has a ping seen in this
  window, or one on the way that arrives in it, or sends one that does;
  `WaitInv` adds what the destructor has waited to what it may still wait.

`DataProofs`, for any capacity of the cache (`CacheAssumption`), any sizes of
chunks and reads (`StreamAssumption`) and any arrays (`BoundsAssumption`):

* The cache: `AmendedInv` adds to the three properties that a stored id is cached
  until it is evicted, and that the stream thread holds the cached object of the id
  after `published`.  `InsertFacts` and `InsertMirrors` are about `insert`;
  `GetKeeps` is what every `get` leaves.
* `StreamsSound`: `TableInv` numbers the bytes of the chunks through, each chunk going on
  where the one before ends (`EndOf`); `WriterInv` says what the three Puts leave to
  do.  `ReaderInv` says that `read()` goes on at most one byte behind the last one it has got,
  also when a chunk is read in parts and the offset is counted from the wrong place; so a
  byte may come twice but none is skipped (`Gapless`).
* `BuffersExact` and `CrossingKeeps`: `BytesInv` is types, `StaysInside` and the bound on the
  array.  That a slice keeps it (`SliceKeeps`) needs the two ends together: a
  start wraps round only when the new end is the old one.  From it, of each
  state: `SlicesRight`, since no sum wraps for arguments that are not negative; `ReadsRight`, place values by product inequalities
  (`PlaceValue`, `FourPlaces`) and the signed half by `Digits` being
  even; `HexReadBack` by quotient and remainder (`DigitsOf`); `SearchRight`.
* The search is a recursive function, so two facts take the place of an induction, each about the
  least number of a set (`Least`).  `RoundsEnd`: there is a function that
  satisfies the rounds, because the least index from which there is one is 1.
  `RoundsFind`: from each index on it finds the first occurrence, because the last index
  where it does not would be one whose round is wrong.  A round is right by
  `ShiftIs`: an occurrence a few bytes further right puts a byte of `sub` on each byte that
  differs, or is past it (`MovedOnto`), so no shift passes over one.

`TestdataReplayProofs`, for any number of dissectors and any test data
(`ReplayAssumption`):

* `OnlyOneRuns`: `ThreadInv` ties `active`, the thread of the source and the
  wait of the server thread together.
* `InsertsStored`: each step moves one packet from one term of the sum to the next
  (`CountInv` adds that the sets are finite).  That the step that stores one adds a
  call to `Stores` needs the id of the held object to be one that was given.
* `StopsRight`: `IdInv` says that no two objects have the same id and that an
  overwritten id belongs to none; `KeptInv` that an id is stored,
  overwritten, or on its way with its object; `MaxInv` what `Advanced`
  leaves.  With the sum above, everything stored leaves nothing on its way, so a
  gap is an id that was overwritten.
* `Least` and `Greatest` say that `Min` and `Max` of the sets they are
  used on exist, from the well-foundedness of the naturals.

`PacketViewProofs`, for any number of rows, packets, calls and any filters
(`BoundsAssumption`):

* `AsksFinished`: `ListInv` says of each call, answer and the view that they
  speak of packets that the server had published when it answered, also after the
  filter changed.
* `RowsRight`, through any changes of the filter: `RowsInv` adds that each
  answer on the wire that is not one of the `old` carries the packets of its places in the
  list of the server's filter, and that a list that has heard nothing has no rows;
  an answer that is late when it arrives is heard as such
  (`AnswerHeard`).  The places do not move while the
  list grows, which is a fact about sets of numbers: the n-th of a set is
  well defined (`NthIs`) and stays when greater ones join (`NthStays`).

`ScriptProofs`, about the script engine:

* `WalkSound`, for any layers, namespaces and scripts.  `VisitsInv` says that
  the namespace of a dissected layer is in the history, and that a layer that is
  taken out stays out.  That the walk ends with every namespace seen is a fact about
  paths: of the first layer of a path whose namespace is unseen, all above it are seen, so it is
  one that `firstLayer` returns (`AllSeen`).  `ChainInv` and `ShippedInv` say that scripts like
  the shipped ones build one layer upon the other, so that only the last can be waiting.
* `LoadingCorrect` and `UnpackingCorrect`, of `Spec`, for any modules with any requires;
  `LoadingSound` and `UnpackingRight` are the same of `ScriptsSpec`, the system the run
  checks, for any names and any depth but for the sources in `SomeSources`.
  `StackInv` says what the frames of `require()` stand for: each asks for a name
  that the frame below requires, and all that it has passed is cached; `ClassesInv` that what is
  cached can be resolved.  A script fails for one of three reasons: a name is missing or
  exports nothing, or the stack overflows.  The last means a circle because
  the stack is deeper than there are names (`DepthAssumption`): two frames
  ask for the same name (`OverflowIsCircle`, by the pigeonhole principle), and names on
  a circle cannot be resolved.
* `VisitSound`, for any streams, scripts and packets.  The history `segments`
  has, per key, the items of each stream.  `OpenInv` ties the last
  of them to the entry of the key, also while an item is at hand; `PastInv` says that the
  objects of the streams that are over saw all of it; `NowInv` that those of the open stream saw
  all, or all but the item at hand if their turn is to come.

Model-checked only:

* Liveness (`EveryPacketIsPublished`, `ServerReturns`, `FetchedIsSettled`,
  `EveryWorkerLoads`, `ClicksAreHonoured`, `HelperEnds`, `StoredComesBack`,
  `EngineReturns`, `RowsConverge`): out of the prover's reach, since it rests on fairness and on which actions are enabled.

## 6. What is not covered

What is left out is listed in `PROJECT.json` under `components`, with the
reason.

* *Packages* (`pkg.es`, `package-interface.es`): what is active is in the
  packages' own closures and in the file system.  The race of a quick disable
  and enable is listed under `hazards`.
* *PubSub*: no handler of the program publishes on its own channel, so a
  publication is a call; `PacketView` takes it as one.
* *Channel* (`channel.hpp`): included by no file of the program.
* *Filter compiler*, dissector packages: functions of one packet without state of their own; their
  results are data of the models (`Matching`, what a script does).
* *Log ring and `fetch_logs`*, the timer handles of the session, the registry
  of dissectors, menus, themes, dialogs and the shell: no concurrency of their own,
  or nothing that a document says and a model could refute.
* *Data races* on `waitingPackets` in the destructor and on `d->modules`: the
  accesses are treated as atomic, since a torn container has no state.
* *Overlapping reads* of a byte stream from the user interface, and reads of one that
  still grows: the reader keeps nothing that would hold then.
* Vendored code.
