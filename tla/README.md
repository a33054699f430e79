# gr-avs4000 in TLA+

gr-avs4000 is a GNU Radio module for the AVS-4000 transceiver: a receiving
block, a transmitting block and a status window, on top of a small C++ client
library (`src/lib`). Beside it the repository carries GNU Radio's documentation
tool, the Python under `src/docs/doxygen`, which is most of its lines. This
directory holds TLA+ models of the parts of the library in which threads, sockets
and time-outs meet, and of the documentation tool, the TLC runs that check them, and
proofs, for all sizes and bounds, of every safety property that the runs check and find
to hold.

## The system

```
 GNU Radio scheduler                                        other threads (GUI)
   | start, work, stop                                           | setters
   v                                                             v
 avs4000rx_impl / avs4000tx_impl ------------------------> AVS4000Client
   | ReceiveSamples / Send (packets)                             | Get, Set, ...
   v                                                             v
 TcpRxSignalClient / TcpTxSignalClient                     TcpJSONClient::Call
   | ReceiveStart/Complete, SendStart/Complete                   | signals, rsp
   v                                                             v
 BlockFifo <---- SocketRxBuffer / SocketTxBuffer pump      worker thread (Qt)
                   | recv / send                                 | lines of JSON
                   v                                             v
                 device's sample port                      device's API port
```

| Component | State | Operations | Interacts with |
|---|---|---|---|
| `BlockFifo` | ring of blocks (`len`, `read`, memory), `head`, `tail`, `count`, the block each side has in hand | `WriteStart`, `WriteComplete`, `ReadStart`, `ReadComplete`, `WaitNotFull`, `WaitNotEmpty`, `Reset` | two threads share it: mutex, two condition variables, copies outside the mutex |
| `SocketRxBuffer`, `SocketTxBuffer` | a fifo, a socket, a pump thread, `done` | `Attach`, `Detach`, `Pump`, `ReadData`/`WriteData` | the socket on one side, the signal client on the other |
| `TcpRxSignalClient` | `partial`, the packet at hand | `ReceiveSamples` | called by `work`; reads the fifo in place |
| `TcpTxSignalClient` | `plen`, the packet at hand, packet and frame counts | `Send` | called by `work`; builds packets in the fifo's blocks |
| `V49Packet` | header, trailer, where the samples are | `Init`, `Attach`, `Validate` | the two signal clients |
| `avs4000rx_impl`, `avs4000tx_impl` | the client, parameters, `txRetry`, the sample rate for tags | `start`, `work`, `stop`, setters | GNU Radio: one thread per block; setters from others |
| `TcpJSONClient` | `mutex`, `rsp`, the busy request and its timer, the socket | `Call` and its wrappers; slots `WriteREQ`, `ReadAvailable`, `BusyREQ`, `SendBusyReq`, `Init`, `Uninit` | callers on any thread, a worker with nested event loops, the device |
| `AVS4000Client` | a `TcpJSONClient`, `rxSig`, `txSig` | connect, disconnect, start, stop, reference update and the wait for it | the blocks; the device; other blocks through the device |
| Status window (`AVSAPICon`, `avs4000api.js`, `main.qml`) | a socket, the count of commits it knows, what its fields show | connect, poll once a second, update when the count has gone up | the device, over a connection of its own |
| `swig_doc.py`, `doxyxml/base.py`, `doxyindex.py` | the compounds of the index, their members, the docstrings made | parse the index, look members up, make the entries of blocks, functions and classes | doxygen's files; the classes below |
| `doxyxml/generated`, `doxyxml/text.py` | a tree of objects | `build` from a document, `export` to one, the text of a description | the tool above |

What is hard here:

- **Two threads on one fifo**, with tests before the lock, waits with time-outs,
  and copies outside it.
- **Streams cut anywhere**: TCP splits packets; work calls end inside packets;
  fifo blocks are 32 KB, packets 8 KB, work calls whatever GNU Radio likes.
- **Ends**: the stream's end or a socket's failure with data still buffered, a
  pump to be joined wherever it is, a connection that never was.
- **Remote calls without identities**: one response slot, a mutex that is only
  tried, requests queued and cleared behind the caller's back, late answers,
  event loops inside event loops, reconnection.
- **A window that never waits**: it writes a request and reads a line at once, so
  what it reads is an older answer, and the two answers it combines are not of
  one time.
- **Files that may be missing or torn**: one class's XML must not cost the
  docstrings of all the others.
- **Sessions**: several blocks that wait for each other through a counter in the
  device, remote calls of which any may fail or be queued as busy, setters that
  race with `stop`.

What makes each component correct: the fifo is a bounded stream in order, never
shares a block between its sides, and loses no wake-up; the receive path puts out
the device's samples in order with each packet's tag on that packet's first
sample; the transmit path writes whole packets that count on and carry the
accepted samples in order; both ends stop, and notice when there is nothing more
to be had; a remote call ends, with its own answer unless one came too late, and no
answer is given twice; a block is running when `start` says so and quiet after
`stop`; the window stays a bounded number of answers behind and comes to show what
the device is left with; everything that could be read is documented once, with
all its text.

## The modules

| Module | Models | Kind |
|---|---|---|
| `BlockFifo` | the fifo's state and its critical sections | component |
| `BlockFifoThreads` | the fifo's two callers, step by step | composition of `BlockFifo` with two threads |
| `StreamChannel` | a bounded stream in order | abstract specification |
| `BlockFifoStream` | the mapping from the blocks' memory to `StreamChannel` | refinement mapping |
| `BlockFifoProofs` | theorems about `BlockFifoThreads`, and that it implements `StreamChannel` | proofs |
| `RxPath` | device stream, pump, fifo, `ReceiveSamples`, `work`, end of `stop` | composition |
| `RxPathProofs` | theorems about `RxPath` | proofs |
| `TxPath` | `work`, `Send`, packets, fifo, pump, socket, `stop` | composition |
| `TxPathProofs` | theorems about `TxPath` | proofs |
| `JsonClient` | `TcpJSONClient`: callers, worker, network, device | component |
| `RemoteCall` | a call, asked and then answered or given up | abstract specification |
| `JsonClientProofs` | that `JsonClient` implements the safety of `RemoteCall` | proofs |
| `DeviceSession` | `start`, `stop` and the setters of several blocks over `AVS4000Client`, the busy worker, the device's parameters | composition |
| `DeviceSessionProofs` | theorems about `DeviceSession` | proofs |
| `StatusPoll` | the window, its `AVSAPICon`, the network and the device | composition |
| `StatusPollProofs` | theorems about `StatusPoll` | proofs |
| `DoxyDocs` | `swig_doc.py` over `base.py` and `doxyindex.py` | component |
| `MCDoxyDocs` | `DoxyDocs` with the memberdefs and descriptions to try | for TLC |
| `DoxyDocsProofs` | theorems about `DoxyDocs` | proofs |
| `DoxyClasses` | the generated classes as a table | data of `DoxyXml` |
| `DoxyXml` | `build`, `export` and `text.py`, over a table of classes | component |
| `MCDoxyXml` | `DoxyXml` with the table of `DoxyClasses` | for TLC |
| `DoxyXmlProofs` | theorems about `DoxyXml` | proofs |

### BlockFifo and BlockFifoThreads

`BlockFifo` has one action per critical section of the class: `TakeOut` and
`CommitOut` are what `WriteStart` and `WriteComplete` do under the mutex, `TakeIn`
and `CommitIn` what `ReadStart` and `ReadComplete` do. A unit of data is its
position in the stream, and the memory of every block is a variable, so that an
overwritten, lost or repeated unit shows.

`BlockFifoThreads` adds the producer `P` and the consumer `C` with a program
counter each. Their steps are cut where the code lets the other thread in: `Start`
is the test of `outBlk` or `inBlk` before the lock; `WaitBegins`, `WaitWakes` and
`WaitTimesOut` are `WaitNotFull` and `WaitNotEmpty` (the build with
`condition_variable`; the loop reads the condition again after a notification, a
spurious wake-up, and a time-out); `WriteTake` and `ReadTake` are the sections that
follow when the wait has given the mutex back; `Fill` and `Drain` are the copies
(`recv`, `send`, `memcpy`) with no lock at all; `WriteComplete` and `ReadComplete`
commit and notify. `WaitForReady` is a separate wait whose answer the caller trusts
in its next call, as the signal clients do. `Fill(0)` is the `SendComplete(0)` that
closes a block early; it needs something in the block, as the code's caller has.

`sent` and `taken` are histories. Compared with the code: the amounts are small
and the data abstract; everything that decides (the tests, the time-outs, the
order, who is notified) is there. `Reset` is only the initial state: it runs before
the threads start. `Flush`, which calls it later, has no caller in the repository;
under running threads it would break the assertions of `ReadStart`, which take a
block to be there after a wait that said so.

### RxPath and TxPath

Both are built on `BlockFifo` and take a call of the fifo as one step: that the other
thread sees nothing of the inside of a call is what `BlockFifoThreads` shows (its
`Exclusive`, `AssertsNeverFail` and `ReadyHolds`). Each has the pump thread
and the block's thread.

`RxPath`: `Select`, `WriteStart`, `Recv`, `RecvNothing` (EAGAIN), `RecvEnds` (end of
stream or error), `WriteComplete` and `PumpSeesDone` are `Pump` and `ReadData`;
`Work`, `Peek`, `Copy`, `WaitTimesOut` and `WorkReturns` are `work` with
`ReceiveSamples` inside it. A packet is a header unit and `PktSize - 1` samples. `recv`
returns any amount, so a packet may arrive in pieces and a piece may span packets.
With `useFracSec`, a tag needs the device's sample rate, which is asked for until
the device gives it: `WorkReturns` leaves out any first part of the tags until then.
`Detach` and `Joined` are the end of `stop` (or of the deferred delete, when
`StopRxData` has failed).

`TxPath`: `Work`, `WaitForReadySend`, `SendStart`, `SendRestart` (the second
`SendStart`, after a block was closed for want of room), `Attach` (the header, with
the counters' widths), `Copy`, `SendComplete`, `ReturnsShort` and `WorkReturns` are
`work` with `Send`; `ReadStart`, `Send`, `SendNothing`, `SendEnds` are `WriteData`.
`Stop` and `StopFails` are `stop` with `StopTxData` succeeding and failing: in the
second case nothing ever tells the pump. `Start` begins the next session with a new
fifo, pump and counters, and with the `txRetry` of the one before, which `start`
does not reset: `EndsForCause` says for what `work` may end a session, and that in
all but the first it may be for a single empty call.

In both, the pump may be absent from the beginning: a constructor that cannot
connect only warns, and `IsConnected` is still true.

### JsonClient

Callers run `Call` in the steps between which other threads act: `CallLocks` or
`CallIsBusy` (the `tryLock`), `ClearBusy`, `SendREQ`, `Listen` (the loop is connected
only after the request was posted), `LoopEnds`, `ReadResponse`. The worker runs one
slot after the other from its queue (`WriteSlot`, `BusyREQ`), its timer
(`SendBusyReq`) and its socket (`ReadLine`, `ReadPart`, `ReadRest`, `ReadGivesUp`,
`Disconnected`). A slot that waits in an event loop of its own is pushed on `frames`,
and further slots run above it until it is the innermost again. The device
(external) answers every request in order. A request is a number; an answer is the
number of its request, though the code cannot see it, for want of identities.

`late` is a history: some call has been given up while its request or its answer was on
the way, or some line while its rest was. On the way is (`OnTheWay`) what is posted to
be written, in the network or the device, in the socket's buffer, or half read; a line in
the buffer counts even when nothing is left that would make the worker look at it, since
it comes out when the next one arrives. That matters only from four calls on: after
`ReadGivesUp` has left half a line behind, a line may stay in the buffer until a call two
later reads it. The run makes three; the theorem is for any number.
`RemoteCall` is what callers may rely on: one call at a time, which ends; no answer is
given twice; and as long as nothing was `late`, the answer is the call's own.
`SafeRemoteCall` says that `JsonClient` does nothing else, and is proved as well as checked;
`CallsEnd` is the fairness of `RemoteCall`, so that the two together are its `Spec`.

`SendBusyReq` takes the kept request out and lets go of `busyMutex` before its own `Call`
tries the mutex; when that is taken, the request goes back by `BusyREQ`, with the timer. A `ClearBusy`
in between finds nothing to clear (`InHand`), so it may leave the request as it was.

Two things a reader of the code should know are left as facts of the model: a
request that found the client busy is reported as taken, and thrown away by the next
call's `busyReq.clear()` (`TcpJSONClient.cpp:345`), and of two such requests only the
second is kept. The provisos of `DeviceSession` come from there.

### DeviceSession

Each block has a thread that goes through `start`, `work` and `stop`; `blk[b].at` is the
remote call it is at. `CallBegins`, `CallReturns` and `CallIsBusy` are `Call` as a caller
sees it: the mutex taken, an answer, or the mutex found taken, the request left
to the worker, and true returned. `Handles` is what the code does with the result, one
operator per function: `StopData`, `UpdateRef` (with `SetRef` and `CheckRefLock`, its
steps), `Count`, `WaitForRefUpdate`, `Set`, `Connect`, `StartData`, `WaitForRxData`,
`GetRealMasterSampleRate`, `StopRun`, `Disconnect`. `Build` reads the parameters into the
map that `Set` sends: all of them, but for the gain of a receiver that is not in the manual
mode (`Sent`; `Manual` is the blocks in that mode, `ManualOnly` what is sent only there). `Over` is the `deleteLater` and `Deleted` the deletion, at the end
of the thread. A setter takes three steps: call, answer, and the store into the
block's member (`SetterKeeps`), which no lock protects. `BusyREQ` and `SendBusyReq` are
the worker's; a request posted and not yet kept survives one `Locks`, as `json_order`
shows it does.

A request is a function from names to values, as the `QVariantMap` is, and the device
keeps the last value of each name. A call has four ends: yes, no, no answer though
the device has acted ("lost"), no answer and nothing done (a no to the caller). A
setter has one more, a no with `apiBusy` or with no error code at all, which `SetRxFreq`,
`SetTxFreq` and `SetRxGain` may take for a yes. What is assumed: answers are prompt (each
call gets its own, the case of `RemoteCall` with nothing late; what happens otherwise is
`json_stale`); a
request that got no answer has been acted on by then or never will be; setting
the time base is what moves `ref.updateCount`; the device has samples only once
it runs. GNU Radio calls `work`, and in the end `stop`, whatever `start` has returned.

`StartedIsRunning`, `StoppedIsQuiet` and `ParamsAgree` have a proviso, `clean`: no setting of
this session was left to the worker or lost. Without it each is false, and that
is what a busy request costs: a `StopRxData` that met a setter's call is "true", is
thrown away by `DisconnectRx`, and the device runs on. `raced` is the other proviso of
`ParamsAgree`: `start` may send the old value after a setter has sent the new one. A gain that
`start` does not send is the device's own until a setter of the session has set it
(`given`), and `ParamsAgree` says nothing of it until then. What
the properties show is that nothing else makes block and device disagree: no
refusal at any step, no earlier session that failed half-way, no read that met
another call.

### StatusPoll

The window is one thread: `Opens` (`API.connect` when the window is there), `Triggered`
(the timer), `CallSends` and `CallReads` (the two halves of `getAll`, between which
nothing waits), with `ShowStatus` and `ShowParams` for what `onTriggered` does with an
answer, and `Closes`. `sendREQ` and `recvRSP` are modelled with all their ends:
`SendsREQ`, `SendFails` (a write not confirmed, or a connection made in the place of
one), `RecvLine`, `RecvNothing`, `RecvPart` (the first part of a line; the rest is read as
a line later and says nothing). The device and the network are `Commits`, `Answers`,
`Arrives`, `ConnectionLost` and `Restarts`. An answer is the device's life and its
`CommitCount` at the time, which is all that tells the window what to do. A timer that
fires before the last answer has come is a fault, like a lost connection, an
unconfirmed write, a refusal and a torn line.

What the run shows: the window falls behind by two answers in its first two reads and
stays there (`LagIsBounded`); a fault makes it one more, and nothing but a new
connection makes it less. The parameters are of a later answer than the count kept
for them, never of an earlier one (`ShownAsCounted`). So in the end the window shows what
the device is left with (`ShowsInTheEnd`), but for one case that the property names: a
device that has restarted and has not counted above the count kept (`main.qml:140`
lowers it to a count greater than 0) keeps its former parameters on show.

### DoxyDocs and DoxyXml

`DoxyDocs` takes any index of a few compounds, each with a file that is good, bad or
missing and any few memberdefs (functions, friends, and those of other kinds, of which nothing is
documented), and runs the loops of `swig_doc.py`: `ParseCompound`
(`DoxyIndex._parse`), `BlockEntry`, `FunctionEntries`, `ClassEntries`, `Writes`. `Members` is
`process_memberdefs`, with its one member for each name, of whichever kind is listed first: the
class it compares, `mem.__class__`, is that of the parsed XML and the same for all. So a typedef, enum
or variable drops a function of its name listed after it. `HasEntry` and `IsSpokenOf` are what
`make_entry` has something for: not an operator, nor a class without a description. `Described`
says of which classes, make functions and headers there is one. `NothingLeftOut` has these
exceptions and no others. `IsBlock` is `Block.includes`;
`Complete` is what `make_block_entry` needs and is not caught when it is missing;
`Unreadable` is what stops the run while it reads the index.

`DoxyClasses` has each generated class as a row of a table: the attributes
`buildAttributes` keeps, the children `buildChildren` knows, with their classes and
with how they are kept (one, a list, or among mixed content), and what is done with
text. The rows cover every class that a document can make the factories build, starting from
any of them. `DoxyXml` has the table as a constant, `Row`. What it assumes of a row is named there
(`RowAssumption`, `NamesAssumption`, `SimpleAssumption`, and `SchemaAssumption` for where a
class knows the text that doxygen's schema has); `MCDoxyXml` gives it the table, and TLC
finds the assumptions true of it.

The objects are in `heap`, known by their numbers as Python's are by reference. `Attribute`,
`Element`, `Unknown`, `Text`, `EndElement` and `EndDocument` are the steps of `build` over a
document chosen as it is read; `stack` is that of the nested calls. `Export` begins to write
what was read: `writing` is the stack of the nested calls of `export`, each with what is left
to write of its object (`Written` when it begins), and `WritesAttribute`, `WritesElement` and
`WritesText` are what comes next of it. Each node is read, by the same actions of
`build`, as soon as it is written, so both stacks grow and shrink together; `Malformed` is text
that the parser stops at. An object's attributes, and its lists of children, are written in an
order that is fixed and not said (`NextAttribute`, `NextTag`): nothing that is read depends on it. `description_bit` is `text.py`, as a recursive
function on the objects.

What the run shows, beside what holds: `docInternalS3Type` knows the fourth level of
sections as `sect3`; a paragraph writes its own text and none of its children; a
compound's title is written as the repr of an object (`compoundsuper.py:426`), and as an
empty `<title></title>` when none was read, since its default is `''` (`compound.py:30`), so
that a compound read again always has a title, of which nothing is left but whether there
was one (`KidsOf`, `AsString`, `TitleRead`); text
between elements, and simple elements among it, are written unquoted
(`compoundsuper.py:135`, `142`), which is the only way to get a document that cannot be
read. The tool itself never calls `export`.

## What the runs check

| Run | Module, configuration | Properties | Result |
|---|---|---|---|
| `fifo` | `BlockFifoStream`, `BlockFifo.cfg` | `TypeOK`, `Exclusive`, `InOrder`, `AssertsNeverFail`, `ReadyHolds`, `NoLostWakeup`, `SafeStream` and `GetsOn` (refinement) | hold |
| `rx_path` | `RxPath` | `PacketsAligned`, `SamplesInOrder`, `TagsExact`, `LittleIsLost`, `PacketsComeOut`, `StopReturns` | hold |
| `tx_path` | `TxPath` | `WireIsPackets`, `WireIsAccepted`, `EndsForCause`, `PacketsGoOut`, `FailureIsNoticed`, `StopReturns` | hold |
| `session_rx` | `DeviceSession`, `SessionRx.cfg` | `StartedIsRunning`, `StoppedIsQuiet`, `ParamsAgree` | hold |
| `session_tx` | `DeviceSession`, `SessionTx.cfg` | `StrayByBadStop`, `StartReturns`, `StopReturns` | hold |
| `session_ref` | `DeviceSession`, `SessionRef.cfg` | `WaitMeansUpdate` | hold |
| `json` | `JsonClient`, `Json.cfg` | `SafeRemoteCall` and `CallsEnd` (refinement), `BusyMovesOn` | hold |
| `json_order` | `JsonClient`, `JsonOrder.cfg` | `NewestLast` | violated |
| `json_stale` | `JsonClient`, `JsonStale.cfg` | `AnswerIsOwn` | violated |
| `status_poll` | `StatusPoll` | `TypeOK`, `LagIsBounded`, `ShownAsCounted`, `ShowsInTheEnd` | hold |
| `doxy_docs` | `MCDoxyDocs`, `DoxyDocs.cfg` | `DocumentedOnce`, `NothingLeftOut`, `StopsOnlyFor` | hold |
| `doxy_xml` | `MCDoxyXml`, `DoxyXml.cfg` | `TextComesOut`, `RoundTrip`, `SpoiltOnlyBy` | hold |

The two violations are what the code does against what its comments say:

- `json_order`: the clear in `Call`, "clears any pending busy request", misses one that is
  still in the worker's event queue: it goes out after the newer request.
- `json_stale`: an answer that comes after its call's time-out is returned by the
  next call. `rsp.clear()` (347) keeps old responses out only if they have come
  before it.

### Bounds, and why they are enough

- Fifo: 3 blocks of 2 units, 9 units. Three blocks are the
  fewest with which a block can be in each side's hand and one between; 9 units
  are more than four blocks, so both indices pass the end of the ring and the
  fifo is empty, partly full and full at every position. The theorems hold for
  any number and size of blocks.
- `RxPath`: 3 blocks of 2 packets of 3 units, 27 units sent (four and a half
  blocks), work calls of 1 to 3 samples: calls inside a packet, across two
  packets and across blocks, a last block that is not full.
- `TxPath`: 3 blocks of 7 units and packets of 3: with a block that holds a whole
  number of packets, as the real one does, `Send` never takes the branch for a
  block with no room left; 7 makes it take it. 14 samples fill the fifo more than
  once; `MaxLost` more are given after the pump has gone, enough for a full fifo
  and the retries. A header field of 2 values in a variable of 4 wraps both.
  `MaxRetry` is 1 for 20. Two sessions are what it takes for one to leave its
  retries to the next.
- `DeviceSession`: one receiver, not in the manual mode, that starts twice and two calls of a
  setter, of a parameter that `start` sends or of the gain, which it does not; one
  transmitter that starts twice and one call; a master and a waiting block that
  start once each. Two starts show what one session leaves for the next, two
  settings an older one after a newer one, and one update of the reference comes
  before, between and after the looks of the block that waits. Each wait asks
  once more (`MaxPolls`) for 200 times. The theorems hold for any blocks, parameters and
  bounds.
- `JsonClient`: two callers, 3 calls, one lost connection, one line in two parts: a
  call under way, a busy one and one more whose answer can be taken for another's.
  The theorem holds for any number of each, four calls included, the fewest with which a
  line left in the buffer comes out late.
- `StatusPoll`: two commits in each of two lives, two faults. Two commits are an answer
  of before and one of after the parameters changed, on either side of a count kept;
  two faults are one more than a fault alone, so that what it leaves behind meets the
  next. The theorems hold for any number of each.
- `DoxyDocs`: two classes, up to 3 compounds of 2 memberdefs: a block, a class that is
  none, the header of one, or two classes and a header with the same name twice; an operator,
  and a memberdef of another kind named as a make function and as a constructor. Something
  is said of one class in the class, of the other only in its header (8.9 million states).
- `DoxyXml`: documents of up to 4 nodes below a description or a section, and 3 below
  each of the other classes: an element with a child or an attribute with text on
  both sides; every row is a root, so every pair of a class and a child of it occurs
  with something in the child (1.1 million states). The theorems hold for documents of any
  size and depth.

### Fairness, and why the code justifies it

- `BlockFifoThreads`: each thread is scheduled (weak), and a socket or application
  that is asked again and again does not answer "nothing now" for ever (strong, on
  copies of at least one unit).
- `RxPath`: the pump and the block's thread are scheduled; GNU Radio goes on calling
  `work` while it returns samples. Nothing is assumed of the device.
- `TxPath`: the same, and the socket takes something in the end (strong on `Send`).
- `DeviceSession`: threads go on, a call ends (by its time-out if not before), and the
  worker's slots run. Nobody has to start, stop or call a setter, and nothing is
  assumed of the answers.
- `JsonClient`: threads inside a `Call` go on, and the worker's slots, the device and
  the network run. Nobody has to call, and nothing has to be lost. A loop ends by
  its timer if by nothing else.
- `StatusPoll`: the timer and the window's own steps go on, and the network and the
  device's answers do. Nobody has to commit, restart, lose anything or close.
- `DoxyDocs` and `DoxyXml`: none; they have no liveness property.

All but the fifo may stop (a block after `stop`, an application that makes no more
calls, a window that is closed, a tool that has ended), so their runs do not check for deadlock; that
nothing stops too early is what their liveness properties say.
`BlockFifoThreads` never stops, and its runs check that.

## What is proved

`BlockFifoProofs` proves, for every number of blocks (two or more), every block size
and every number of units, about `Spec` of `BlockFifoThreads`:

| Theorem | States |
|---|---|
| `ControlInvariant` | `[]Control`, the inductive invariant of the threads |
| `TypeCorrect` | `[]TypeOK` |
| `ExclusiveHolds` | `[]Exclusive` |
| `AssertsHold` | `[]AssertsNeverFail` |
| `ReadyAnswersHold` | `[]ReadyHolds` |
| `WakeupsArrive` | `[]NoLostWakeup` |
| `DataInvariant` | `[](Control /\ Data)`, the same with the blocks' memory |
| `InOrderHolds` | `[]InOrder` |
| `ImplementsStream` | `SafeStream`: `StreamChannel`'s `Init` and `[][Next]`, under the mapping of `BlockFifoStream` |

The assumptions are those of the modules: `BlkCount >= 2`, `BlkSize > 0`, `MaxUnits` a
natural number.

None of the properties is inductive. `Control` is: it says what each thread knows of
the fifo at each of its places (`ProducerOK`, `ConsumerOK`: for instance that a producer
about to take a block still finds one free, because only it can fill the fifo, and
that the pointers it holds agree with the block in hand), that a thread asleep with
no notification under way has nothing to wake up for (`WaitOK`), and that the blocks
from `tail` to `head` are those handed over, in their number and with something to
read (`BlocksOK`). `ControlInvariant` shows that each action keeps it, one lemma per
kind of action; the five theorems after it follow. The arithmetic of the ring is in
one lemma, `PINCIs`, which replaces the remainder by a case split.

`Data` is inductive relative to `Control`: the memory of each block handed over counts
up from its first unit, each block goes on where the one before it ends, the last
one ends at `Published`, and the first one, from its `read` on, begins at `taken`.
`DataInvariant` shows it, and `InOrderHolds` follows.

In `ImplementsStream` the queue is what is unread in the memory of the blocks from `tail` to
`head`, one block after the other (`InMemory`). `MemoryIsAhead` shows that these are the
positions of the stream from `taken` to `Published`, in order. It is about `FlattenSeq`, which
is defined by recursion over the blocks; in the place of an induction, the first block at which
the two would differ (`First`: a set of positions has a first one) cannot be there.
Closing a block puts all its units at once, `ReadComplete` gets what was
copied, every other step leaves the channel alone. That a block closed always has room in
the channel takes one more invariant, `Extent`: from any block handed over to the end
of the stream there are at most `BlkSize` units for each block up to `head`, so that what is
ahead of the consumer never exceeds the ring less its one free block (`Fits`).

`StatusPollProofs` proves, for every number of commits, restarts and faults, about `Spec`
of `StatusPoll`:

| Theorem | States |
|---|---|
| `InvHolds` | `[]Inv`, the inductive invariant |
| `TypeCorrect` | `[]TypeOK` |
| `LagHolds` | `[]LagIsBounded` |
| `ShownHolds` | `[]ShownAsCounted` |

The bound of two is not inductive: in the middle of a poll there is one request more,
which a line that is read takes back, and a read of nothing does not. `LagOK` gives each
place of a call its bound, and says that a call may be one above it only if so little
is on its way (`Pending`) that a read of nothing, which needs an empty buffer, means
that all of `Unread` is that little. `LinesOK` says that what can still be read is a copy
of the device in its present life, ordered by its commits, since a connection does not
outlive a restart; `UpdateOK` that the second answer of `onTriggered` is not older than
the first. `ShownOK` follows from these. There is one lemma for each action, and for each
of the three ways a read can end with nothing shown.

`RxPathProofs` proves, for every packet length, any number of packets in a block, any ring,
any number of units and any amounts asked for, about `Spec` of `RxPath`:

| Theorem | States |
|---|---|
| `InvHolds` | `[]Inv`, the inductive invariant |
| `TypeCorrect` | `[]TypeOK`, which no run needs to check any more |
| `PacketsAlignedHold` | `[]PacketsAligned` |
| `SamplesHold` | `[]SamplesInOrder` |
| `TagsHold` | `[]TagsExact` |
| `LittleLost` | `LittleIsLost`, an action property |

`TxPathProofs` proves, for every packet length up to a block, any ring, any width of the count in
the header and of the variable it is filled from (the one a multiple of the other), any number
of sessions and any calls of `work`, about `Spec` of `TxPath`:

| Theorem | States |
|---|---|
| `InvHolds` | `[]Inv`, the inductive invariant |
| `WireIsPacketsHolds` | `[]WireIsPackets` |
| `WireIsAcceptedHolds` | `[]WireIsAccepted` |
| `EndsForCauseHolds` | `[]EndsForCause` |

Both invariants have the same heart, `Memory`: there is a number `m` of blocks that have
been released, and what is in each block between `tail` and `head` is the stream from
`m + Dist(b)` blocks on. Neither path has a variable for `m`, and no property says it:
that packets stay aligned is only true because it never changes but by one, together
with `tail`. In `RxPath` the stream is the device's; what is read next is the first packet
not done with, whose number is a quotient of the samples put out (`Done`), and a packet
partly read is still in the block in hand (`PacketOK`). In `TxPath` there is a second
number `k`, of packets packed, and the stream (`Unit`) is made from the samples accepted:
the blocks handed over, the packet being built behind the block's `len`, and the wire are
one sequence. That a packet begun in a block ends in it is what makes the positions
come out: `Whole` in the one module, `FillIs` and `FullBlock` in the other, where a block is
closed with room left over. `EndsForCause` needs none of this, only that `txRetry` is
what this session has counted and what the last one left (`RetryInv`). At the head
of both modules is what both use: monotony of products, the uniqueness of quotient and
remainder, and how the distance from `tail` changes when `tail` or `head` moves.

The assumptions are those of the modules: a packet has a header and at least a sample, a
block of the receive path holds a whole number of packets (32 KB and 8 KB in the code),
one of the transmit path at least one.

`DeviceSessionProofs` proves, for any blocks, masters and parameters, and any numbers of
starts, settings and polls, about `Spec` of `DeviceSession`:

| Theorem | States |
|---|---|
| `InvHolds` | `[]Inv`, the inductive invariant |
| `StartedIsRunningHolds` | `[]StartedIsRunning` |
| `StoppedIsQuietHolds` | `[]StoppedIsQuiet` |
| `ParamsAgreeHolds` | `[]ParamsAgree` |
| `StrayByBadStopHolds` | `[]StrayByBadStop` |
| `WaitMeansUpdateHolds` | `[]WaitMeansUpdate` |

The invariant ties two things together that keep each other going. `Sound` says what the
device has, for the place a block is at: that it runs from `StartData` on, is quiet from
`StopRun` on, and has each parameter's value from `Set` on, or the setter's newer one.
`Link` says that nothing else can reach the device: in a clean session the worker has no
request, and a call under way is the block's own or the setter's. A request on its way
from outside would break `Sound`, and an unsound place would break `Link`. `Strays` counts a
signal client still there at the end of the thread as one the bad stop has already paid
for; That a receiver leaves none is shown here only: the run of
`StrayByBadStop` has a transmitter. `Waits` says that the count a wait compares with is one that was seen. `OneAtATime`
reduces a step to the block it is of.

`JsonClientProofs` proves, for any callers and any number of calls, lost connections and torn
lines, about `Spec` of `JsonClient`:

| Theorem | States |
|---|---|
| `InvHolds` | `[]Inv`, the inductive invariant |
| `IsSafeRemoteCall` | `SafeRemoteCall`: `RemoteCall`'s `Init` and `[][Next]`, without its fairness |

`Apart` says that a request is in one place at a time, from its `Call` to the end of its
answer: posted, kept by the worker, held by a `Call` that has not sent it, on the way, half read, read,
or returned; `Flow` puts socket, network and device in one sequence, so that `Arrive` and
`DeviceAnswers` change nothing. No answer is given twice because of it. `Own` says that
until something was late, all that is on the way is the present `Call`'s, and that nothing is once
its loop was told of an answer. That answers cannot be told apart enters nowhere else.
The first attempt at this proof did not go through, and TLC found why with one call more than
the run `json` makes: a line left in the buffer was not counted as on the way. The
definition of `late` above is the corrected one. `RemoteCall` was corrected too: what it has
answered (`given`) is a sequence, because in a set an answer given twice looks like a
request given up.

`DoxyDocsProofs` proves, for any classes and any index, of whatever length and with whatever files
missing or broken, about `Spec` of `DoxyDocs`:

| Theorem | States |
|---|---|
| `InvHolds` | `[]IInv`, the inductive invariant |
| `DocumentedOnceHolds` | `[]DocumentedOnce` |
| `NothingLeftOutHolds` | `[]NothingLeftOut` |
| `StopsOnlyForHolds` | `[]StopsOnlyFor` |

`DocsOK` says exactly which things have a docstring at each place of each loop: those of the blocks,
of the functions and of the classes that the three loops have gone over (`BlocksTo`,
`FunctionsTo`, `ClassesTo`), each once. `NothingLeftOut` is what that comes to at the end. That nothing is
added twice is not a matter of one loop: a make function has its docstring from the first
loop, at its block, and the second has to pass over it; `BlocksDiffer` and `ClassesDiffer` say
that the loops have nothing in common, since the names of classes differ. `NameIsKept` is
about `process_memberdefs`: dropping a memberdef for an earlier one of its name loses a
function only if that one is of another kind (`IsShadowed`). Two lemmas would ask for an
induction over data and are had without it: that a set of positions has a first one
(`First`, by ordering the sets `1 .. k` by inclusion), and that `SetToSeq` gives each element of a
finite set once (`SetToSeqIs`, by counting).

`DoxyXmlProofs` proves, for every table of classes that has the shape assumed, and documents of any
number of nodes, about `Spec` of `DoxyXml`:

| Theorem | States |
|---|---|
| `RoundTrips` | `[]RoundTrip` |
| `SpoiltByContent` | `[]SpoiltOnlyBy` |
| `DocstringIsText` | `[]TextComesOut` |

They rest on one inductive invariant, `Inv`, in five parts. `Types` gives the objects their shape.
`Stacked` says that what is begun is begun where it is a child of the one below it.
`Built` says that an object refers only to objects made after it which are done, each of the class
that its element has in the table, that one of two fields of text agrees with the other, and that
nothing else is in an object than its class knows. `Copies` says that what has been read of what
was written, and is done, is a copy (`IsCopy`) of its source. `Lockstep` is the part that
makes it inductive: at each depth of the two stacks, what the object being read has so far, with the child that is
still being read and with what is left to write, is all of the source: `OfFields`, `OfContent` and
`OfValue`, one for each way in which a class keeps what it has. A title is the exception throughout:
it is written from no object, and what is known of its copy is only whether it was written as a
string (`AsText`) or as nothing (`FromOne`). When nothing is left,
that is `IsCopy`; so `EndElement` turns `Lockstep` of one depth into `Copies`.

`SpoiltByContent` adds `Specials`: wherever an object or a frame holds special text that would be
written without quotes, `special` knows of a place that says so. `DocstringIsText` adds
`Outputs`: there is a function from objects to their text that obeys the equation of
`description_bit` (`Bits`), and `shown` is the text of the objects begun, from the outermost to the
innermost (`Shows`). An object's text depends only on objects made after it, so the function there is and
`description_bit` agree: the last object in which they would differ has only children in
which they do not (`First`, again in the place of an induction). Each `Text` and `EndElement` extends the
function for the objects begun and leaves the rest as it is.

Only model-checked: the liveness properties, those of `StreamChannel` and `RemoteCall`
included (`GetsOn`, `CallsEnd`), which are out of the prover's reach. The two properties
that the code violates have only their runs.

## What is not modelled

- `Reset` and `Flush` under running threads (see above); the fifo's build without
  condition variables, which polls; `Test`, which is what `StreamChannel` states.
- `SocketRxBuffer::Receive` and `SocketTxBuffer::Send`, the paths without VITA-49
  packets: both blocks always ask for packets.
- The values of samples, their conversion and their byte order; all formatting.
- `transferred`, `received` and `sent`, which are statistics.
- The destructors of `TcpJSONClient` and of the fifo.
- In `Call`, the branch for a response that is a bare Boolean, which returns with the
  mutex locked: `QJsonDocument::fromJson` makes only objects and arrays.
- `SetRate` and `AVS4000Client`'s sample rate wrappers, which nothing calls.
- A setter called while its block has no client, or still in its call when the
  client is deleted: the code tests for neither, and what follows is undefined.
- `V49Packet::Validate` and the header's other fields; no property of the streams
  depends on them.
- The layout and wording of the status window, and how Qt starts it.
- The text of docstrings, the categories `swig_doc.py` does not ask for, and of the
  generated classes: the 37 that nothing builds (`docTableType`, `docListItemType`
  and the like; a paragraph's children of those kinds are dropped before they are built), the
  accessors, and `exportLiteral`, which writes Python and has no caller.
- `build_utils.py`, CMake files, SWIG, Python and GRC declarations: straight-line
  generation and declarations; the tests, which are empty.

## What is left

Every safety property that a run checks and finds to hold is a theorem. Open are the header's fields of
`V49Packet` as integers of their width, and the setters that run while `start` or `stop` makes or
deletes the client, for which the repository does not say who has to prevent what.
