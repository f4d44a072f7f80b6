# Verification of DxTcpServer

TLA+ models of the program logic of this repository, the TLC runs that check
them on small instances, and proofs checked by TLAPS for instances of any size.

| module | of what | run | proofs |
|---|---|---|---|
| `NetConnection` | one pooled `DxNetConnection` of a server, over several uses | `Net_*` | `NetConnectionProofs` |
| `ConnSession` | what such an object promises: the abstract specification `NetConnection` implements | `Net_Reuse` (`ImplementsSession`) | theorem `Refinement` |
| `DxServer` | `Open`, `Run` and `Close` of a server, and its connections from accept to sign-off | `Srv_Life` | `DxServerProofs` |
| `Frames` | framing in one direction of a connection: `SendData` and `conRead`, with the server's counter | `Frames` | `FramesProofs` |
| `DiskSize` | the arithmetic of the traffic counters | with `Frames` | `FramesProofs` |
| `DxReader` | the buffered reader a protocol parses from, in its loop | `Reader_Queue` | `DxReaderProofs` |
| `RpcReconnect` | `RpcClient`: Connect, Close and the reconnect goroutine | `Rpc_Reconnect` | `RpcReconnectProofs` |
| `RpcCalls` | calls, results and timeouts over pooled packages | `Rpc_Calls` | `RpcCallsProofs` |
| `LogWriter` | `BufferLoggerWriter`: loggers, writer goroutine, `QuitWriter` | `Log_Writer` | `LogWriterProofs` |
| `FileServer` | the lock tables of the file server demo | with `File_Transfer` | `FileTransferProofs` |
| `FileTransfer` | a file client and that server, composed | `File_Transfer` | `FileTransferProofs` |

`MC_NetConnection`, `MC_Frames` and `MC_FileTransfer` add what TLC needs for its
instances (symmetry sets, small objects, a constraint). `tlc -config X.cfg M` runs a configuration
(`PROJECT.json` names the module of each), `tlapm MProofs.tla` checks a proof module.

## 1. The system

### Components

**Connection** (`ServerBase/dxnetconnection.go`). State: `unActive` (somebody is
closing or has closed), `isDelayClosing` (a closer is posted), the socket,
`selfcancelchan`, `conHost`, the two queues, the wait group of the connection's
goroutines, posted traffic counters. Server connections are taken from a
`sync.Pool` and put back. Operations: `run` posts a reader (`conRead` for framed
packages, `conCustomRead` for a protocol), a receiver (`checkHeartorSendData`
over `recvDataQueue`) and, when `LimitSendPkgCount > 0`, a sender; `WriteObject`,
`PostClose`, `Close`, `realClose`.
Hard: `PostFunc` starts goroutines after an arbitrary delay, also in the next use
of the object; `unActive` and `isDelayClosing` are each atomic and used together;
`realClose` waits for goroutines one of which may have called it; a handler may
write to, or close, its own connection.
Correct if: one teardown per use; nobody uses a queue that a teardown closes;
the server's count of connections is exact; a request to close is served; an
object comes back to the pool once and clean.

**TCP server** (`ServerBase/dxNetSrv.go`). State: `isActivetag`, the listener,
`srvCloseChan`, the map `clients`, a wait group with a unit per connection, a
buffer pool. `Open` starts `Run`, which accepts; `HandleDisConnectEvent` signs a
connection off; `Close` closes the listener and `srvCloseChan` and waits for all.
Hard: `Run` makes `srvCloseChan` after `Open` has returned, reads the listener
anew for each accept and sets it to nil when it ends, maybe after the next `Open`;
`Close` clears the map while a late client is being entered.
Correct if: the map and the wait group agree; `Close` leaves no listener, returns,
and clients that got in meanwhile leave.

**Framing** (`SendData` of server and client, `conRead`). A frame is a length
prefix of 2 or 4 bytes and an encoded object. State: the sender's buffer (one per
call in the server, one for all in the client), the reader's two buffers.
Hard: lengths that overflow the prefix, partial reads and writes, overlapping
senders, the reuse of the buffer for long packages. Correct if: the receiver gets
the objects sent, whole, in order, and never slices past its buffer.

**Traffic counters** (`DxDiskSize`). Bytes, KB, MB, GB in 16 bits and TB in 32;
`AddByteSize` per package, by posted functions; `Add`. Correct if: carries lose
nothing.

**Stream reader** (`ServerBase/DxBuffered.go`). A chain of chunks with a read and
a write position; `ReadAppend`, `ClearRead`, marks, `Read`, `WriteTo`,
`ReadBytes`. Correct if: it is a queue of bytes.

**TCP client** (`ServerBase/DxNetClient.go`). One `DxNetConnection` that is never
pooled, `Connect`, `Close`, and `SendData` with one shared buffer.
Hard: `Connect` over a teardown that is still running; concurrent senders.

**RPC client** (`RPC/rpc_client.go`). `isSelfClose` and `reconnectChan`, read and
written without a lock by the application, the disconnect event and the
reconnect goroutine. Correct if: one reconnector works at a time, it can be
stopped, and it connects once the server is there.

**RPC calls** (`RPC/rpc_handler.go`, `rpc_common.go`). `pkgpool`, and
`fRpcWaitReturnMethods` from a call's id to its package; a package has a wait
channel or a result handler. `ExecuteWait` and `Execute` on the calling
goroutine, `serverPkg` on the receiver of the connection.
Hard: a result races the timeout of its call, and the package may belong to
another call by then. Correct if: a call gets its own result, nobody waits for
good, packages are owned by one, entries do not pile up.

**Log writer** (`ServerBase/BufferLogWritter.go`). The channels `datachan`,
`bufferchan` and `quitchan`, read as fields without a lock by loggers (`Write`),
the writer goroutine (`WriteData2File`) and `QuitWriter`. Hard: several first
loggers each make `bufferchan`; `QuitWriter` closes channels in use. Correct if:
a buffer is in one hand, records keep their order, nobody waits for good.

**File server demo** (`Demo/FileServer`). `fReadingFile`, `fWritingFile`,
`fLockingQueue` under one lock; requests to lock, unlock, upload and download,
and the disconnect event that releases locks; a page that lists the clients.
Hard: one entry of `fLockingQueue` per connection; requests that are handled after
the disconnect event; handles that are used again. Correct if: a write lock
excludes, and locks do not outlive their connection.

**File client demo** (`Demo/FileClient`). A waiting list of files, the file being
fetched, `fbusystate`, a mutex, and one channel and one id for all waits; the user
interface calls `DownLoadFile`, and a goroutine per result carries a download on
and takes the next file. Hard: those goroutines race with the user interface, with
timeouts and with the disconnect event. Correct if: it asks for blocks under a
lock, writes them in order, and gets to every file that waits.

The other demos and the test of reflection have no state of their own.

### How they interact

`DxTcpServer.Run` takes a connection from the pool, registers it and posts its
`run`. The reader decodes and puts packages into `recvDataQueue`; the receiver
takes them and calls the host's `HandleRecvEvent` (the application's handler, or
`RpcHandler.serverPkg`), which may call `WriteObject`: the object goes to the
`sendDataQueue` or is written by the calling goroutine. Whoever meets an error,
a timeout or `host.Done()` calls `PostClose`, which posts one closer; `Close()`
runs `realClose` in the caller. `realClose` closes the cancel channel and the
socket, calls the host's disconnect event (there an `RpcClient` starts its
reconnector and a server signs off), waits for the goroutines, closes the queues,
clears the object, and puts it back.

The modules cut this system where the parts meet in few facts: `NetConnection`
has the whole life of one object and the server's fields it touches; `DxServer` has
the server and several connections, each reduced to its stages between accept and
sign-off; `Frames` and `DxReader` have the bytes; the RPC and file modules take a
connection that delivers in order, or breaks.

## 2. The models

Every action is named for the function, or the part of one, that it models;
`map` in `PROJECT.json` gives its lines. Where goroutines share data without a
lock, two accesses are two steps if another goroutine's step between them could
change what either does; a body under a lock is one step. Accesses merged on that
ground: `ConHandle` with `conHost`, the removal from `clients` with `Done()` of
`HandleDisConnectEvent` in `NetConnection` (two steps in `DxServer`), the fields that
`realClose` clears between `Wait` and `netpool.Put`, and in `FileTransfer` the accesses
of a thread that only the client's disconnect event could come between: after it the
client sends nothing more, and of its fields nothing is claimed but the type.
A panic (nil `conHost`, send on or close of a closed channel, a nil map, reuse of a
wait group before `Wait` has returned) ends the process: no step follows.

### NetConnection

A thread is a goroutine of a use (`<<use, role>>`), a closer posted by
`PostClose`, or an application goroutine that kept a pointer to the object
(`Caller`); `pc` says where each is. The variables are the fields of the
connection, plus `srvWait`, `listed`, `srvDone` of the server; `acc` is how far `Run`
is with the connection it has accepted.

| code | actions |
|---|---|
| `Run` | `Accept`, `Adopt` (`waitg.Add` and `GetConnection`), then an action per access to the object: `Activate`, `MakeCancel`, `SetHost`, `Insert`, `InitReceiver`, `InitSender`, `Serve` |
| `DxTcpServer.Close` | `SrvClose` |
| `run`, start of each goroutine | `Begin`; `Leave` is its end |
| `conRead`, `conCustomRead` | `ReadPackage`, `Put`, `ReadFail`, `ParseFail`, `ReadClosed` |
| `checkHeartorSendData` | `Take`, `Stop`, `HeartFail`, `HeartPanic`, `HandlerReturns` |
| `WriteObject`, `SendData`, `writeBytes` | `WriteObject`, `EnterWrite`, `Offer`, `OfferGiveUp`, `SendData`, `WriteOk`, `WriteFail`, `WriteClosed` |
| `PostClose` and its closure | `CheckUnActive`, `CheckDelayClosing`, `ArmClosing` (the compare-and-swap), `Claim` |
| `Close`, `UnActiveSet` | `CallClose`, `LoadUnActive`, `StoreUnActive` (load and store apart) |
| `realClose` | `StopConnection`, `Notify`, `Wait`/`WakeUp`, `Clear`, `Release` |
| `addDataSize2Host` | `Account` |

A closer that was posted in the last use may claim the object as soon as `Activate`
has set `unActive` to 0. Before `SetHost` it meets a nil `conHost`; after it, it may
sign the connection off, and put the object back, while `Run` still registers it.
`overtaken` is history: one signed off before `Insert`, and the entry that `Run` then
makes is of a dead connection, under its own handle or under 0.

Contents of packages, `WriteObjectSync`, user data and the hooks
`BeforeRead`/`AfterRead` are left out.

`ConnSession` is the promise: an object is free, is opened for a use, is closed,
signs off at the server once, and is released; `Phase` and `use - srvWait` map
the detailed state to it.

### DxServer

`opens` numbers the successful `Open`s and with them the listeners, the goroutines
of `Run` and the close channels; `run[r]` is where the goroutine of the r-th is,
`socket[r]` what it accepts on, and `con[c]` the stage of a connection.

| code | actions |
|---|---|
| `Open` | `Listen`, `PostRun` |
| `Close` | `BeginClose`, `CheckListener`, `CloseListener`, `CloseChan`, `StartWait`, `WakeUp`, `ClearClients` |
| `Run` | `MakeChan`, `CallAccept`, `Accept`/`AcceptFails`, `Add`, `MakeMap`, `Insert`, `Serve` |
| the connection | `Start` (takes the channel of `Done()`), `Leave` (it is closed), `End` (any other reason), `Cut` (a closer of the object's last use, from `Add` on) |
| `HandleDisConnectEvent` | `Unlist` (under the lock), `SignOff` |
| `srvInfoHandler` of the demo | `AskPage`, `ListClients`, which panics with the lock held as soon as there is a client |

`AcceptFails` is any error of `Accept`, on an open listener too: it ends the goroutine
and sets the field to nil, whichever listener that has by then. `lost` is history:
the listeners that were open and in the field when that happened; `Collect` is the
collector, which closes one that nobody refers to. `overtaken` is as in
`NetConnection`, and `Handle` what `ConHandle` is when `Run` enters the object.

### DiskSize and Frames

`DiskSize` has `AddByteSize` and `Add` with their widths: `Unit` is 1024, `Half`
2^16, `Word` 2^32. `AddByteSize` stops at the first unit without a carry, `Add` sums
in 16 bits before it carries.

`Frames` follows one direction: `from` says whose `SendData` it is. A byte is a digit
below `Base`, so that with `Base` 2 a prefix of two bytes overflows at 4.

| code | actions |
|---|---|
| `SendData` | `PutHead`, `Encode`/`EncodeFails`, `Write`/`WriteFails`, `Reset`; the server's buffer is the call's own, the client's is `Shared` |
| `conRead` | `ReadHead` (any part that may arrive; `ReadHeadPanics` for one too short to decode), `FitBuffer` (the buffer for a long package), `ReadBody`, `Decode`, `ReaderEnds` |
| `addDataSize2Host` | `AddDataSize`, in any order |

`spoilt` records what a frame may not survive: `"cut"`, a prefix that came in two
reads; `"long"`, an object longer than the prefix can say; `"mixed"`, two calls of the
client at once. What overlapping calls of the client do inside one step (a slice
of `sendBuffer` overwritten while it is written out) is left out, as is a client with
a protocol, which never resets its buffer.

### DxReader

Variables are the fields of `DxReader`; `pc` is where the loop of
`conCustomRead` is; `stream`, `got`, `kept`, `blind` are history. The parser is
any: it reads any number of bytes up to `Buffered()` (as the parser of `EchoDemo`
does), calls `ReadBytes`, accepts, puts back, or fails. A new chunk is filled
with `Zero`, and bytes of an earlier use of the chunk stay in it, so that reading
behind the write offset shows. `Read`, `WriteTo` and `ReadBytes` are modelled in
the chunk they start in: theorem `ChainIsOneChunk` says there is no other.
A line that `ReadBytes` returns is copied in the model and shares the chunk in
the code.

### RpcReconnect

`chan` is whose channel `reconnectChan` holds, `closed` the channels that were
closed, `event` where the disconnect event is, `pc[r]` and `frefcount[r]` the
loop of reconnector r, `user` where the application is in `Connect`
(`Connect` .. `Connected`) or `Close` (`Close` .. `CloseConnection`).
`MakeChannel` and `StartReconnector` are apart, since the field is read again for the
goroutine: after a `Close()` in between that one has a nil channel (`deaf`).
Time is not modelled: a timer fires at some time, so a `select` over a timer and
the channel is a choice. The teardown of a connection is assumed to be over
before the next dial; the first attempt comes three seconds later.

### RpcCalls

`Caller`s run `ExecuteWait` or `Execute` (`GetMethod`, `WaitChan`/`Handle`,
`Store`, `WriteObject`/`StartCall`, then `TimeOut`, `Delete`, `Reset`, `Put`, the
two halves of `FreeMethod` apart); each connection's receiver runs `serverPkg`
(`Take` is `Decode`, then `Load`, `Look` and `Channel` (the two reads of `fWaitchan` in
`CloseWaitChan`; on a channel that is nil by the second one the receiver is `"stuck"`),
`Deliver` or `SendPanics`, or `Respond` for a result handler, `Forget`, `Free`). The
peer's `serverPkg` is `Answer` and `Ignore`. Requests and replies travel in any order;
each may stay on its way for good.
`InHandler` callers make their call inside a handler, on the receiver of the
connection they call over, which then takes nothing. Objects are sent from the
calling goroutine (`LimitSendPkgCount = 0`), in a write without a deadline.

### LogWriter

A record is its number; `content[b]` is the record in buffer b, so that a buffer used
too early shows as a record that is lost or doubled. `free[g]` is the g-th buffer
channel that was made, and `bufferchan` says which one the field holds.

| code | actions |
|---|---|
| `Write`, `getBuffer` | `CheckChan`, `GetBuffer` or `MakeBufferChan` (which makes a channel unless its own test finds one by now), `ReadChan` (the second read of the field), `Send` |
| `WriteData2File` | `Opening`, `Evaluate` (each `select` evaluates the field), `TakeData`, `WriteRecord` (may fail; a full file is followed by one that may not open) |
| `reciveBuffer` | `GiveBack`, which drops the buffer when the channel is full |
| `QuitWriter` | `CloseData`, `ClearData`, `CloseBuffers`, `SendQuit` |

### FileServer

The three tables, the existence and length of each file in blocks, and the stage
(`phase`) of each pooled connection object, whose pointer and handle are the keys of
the tables. Actions are the handlers: `LockFile`, `UnlockFile`, `UpLoad`
(download changes nothing), `DisConnect`, and `Accept` and `Release` of the object.
`slipped` is history: objects that held two locks at once, gave back the lock of
another file or connection, or locked after their disconnect event.

### FileTransfer

Extends `FileServer` with one client on the connection `Me`; the other connections do
whatever they like. `Handle` is the server's receiver, with `LockResult` and
`DownLoadError` for its answers; `toSrv` and `toCli` are in order.

| code | actions |
|---|---|
| `DownLoadFile` (user interface) | `DownLoadFile`, `QueueFile`, `StartDownLoad`, `Refused` |
| `ExecuteWait` | operator `ExecuteWait` (a new id is expected), `SendLock`/`SendUnlock` (`SendRequest`, which reads the id again), then `WakeUp` (the unbuffered `fWaitchan` goes to whoever waits), `TimeOut`, `NilResult` |
| `parserRecvPkg`, a result | `Receive`, `Expected` (the comparison), `SetResult`, `ClearId`: another wait may have begun between any two |
| `parserRecvPkg`, a block | `WriteBlock`, `LastBlock`, `CreateFails`; after the `doNextFile` of that, `curOpFile` is tested again: `NoFileOpen` or `OldBlock` |
| `doneCurFileOperate`, `doNextFile` | `Unlocked`, `DoNextFile`, `TakeFile`, `NextDownLoad`, `NextRefused`, `NoMoreFiles` |
| disconnect events | `ServerDrops`, `ServerPools`, `ClientDrops`, `ClientGone` |

A write to the map of waiting files while another goroutine ranges over it may end
the program (`QueueFile`). The client connects once.

Two histories name what goes wrong. `late`: a parser went on with a result whose wait
was over, and stored it over the next one, cleared the next wait's id, or ended the
next wait. `mixed`: a block whose file could not be created was written into the next
file, which another parser had opened meanwhile, and another block was asked for;
the client is not followed any further then.

## 3. What the runs check

| run | checks | shows |
|---|---|---|
| `Net_Reuse` | `TypeOK`, `OneTeardown`, `ReaderSparedByClear`, `ServerCountsClients`, `ImplementsSession` | two uses of a connection with handlers that write and the heart check: although goroutines of the first use may start in the second, teardowns never overlap, no reader meets a closed queue, the count is exact |
| `Net_Live` | `RequestedCloseIsPending`, `CloseRequestIsServed`, `TeardownCompletes`, `ServerCloseDrains` | first use, with a sending queue: a request to close is never lost and a teardown ends, except when the reader is wedged at a full `recvDataQueue` whose receiver has left; the server's `Close` gets its wait group |
| `Net_App` | `CloseTakesEffect` | the application writes to and closes a protocol connection, from outside and inside its handler, and no socket stays open |
| `Srv_Life` | `ListedAreCounted`, `ClosedIsDeaf`, `CloseReturns`, `LateClientLeaves` | open, close and open again: the wait group is exact in every interleaving, and the map agrees with it unless a teardown overtook `Run`; no listener is left but one that a `Run` set to nil while it was open; `Close` returns unless the page of the demo keeps the lock or the process dies |
| `Frames` | `BufferHoldsPackage`, `FramesSurvive`, `TrafficAddsUp` | bytes in any parts, failed writes, overlapping calls: what arrives is what was sent unless `spoilt` says why; no package is longer than its buffer; the counter adds up |
| `Reader_Queue` | `OneChunk`, `InOrder`, `FullOnlyWhenPending` | the reader as a queue of bytes |
| `Rpc_Reconnect` | `OneWantedReconnector`, `ReplacedReconnectorEnds`, `StartedReconnectorConnects` | the races for `reconnectChan` |
| `Rpc_Calls` | `WrongResultIsALateOne`, `PackagesAreExclusive`, `WaitersChannelIsOpen`, `EntriesAreInUse`, `HandlerCallGetsNoResult`, `OnlyLateOnesBlock`, `ReceiverGetsOn`, `CallReturns` | which results can reach a wrong call, who owns a package, which entries stay, and which results can block a receiver for good; calls that wait come back |
| `Log_Writer` | `BuffersExclusive`, `LogIsWhatWasSent`, `QuitReturns`, `WriteReturns` | although each of several first loggers makes a buffer channel, no buffer is in two hands; records keep their order; who can be left waiting |
| `File_Transfer` | `WriteLockExcludes`, `LeftLocksSlipped`, `DownLoadHoldsLock`, `BlocksInOrder`, `QueueIsServed` | a client that downloads while another connection locks and writes: locks exclude and do not outlive their connection, blocks are asked for under a lock and come in order, files that wait are got to, each but for what `slipped`, `late`, `mixed` or `reasons` names |

Two runs end in a counterexample, each a disagreement of the code with the
repository's README (`findings` in `PROJECT.json`):

| run | what happens |
|---|---|
| `Net_IdleReuse` | a `PostClose` that swaps `isDelayClosing` after another closer's `realClose` has reset it leaves it at 1; the next use of the object never closes an idle connection |
| `Net_CloseInHandler` | `Close()` in `OnRecvData` waits for the goroutine it runs in |

Each property of a passing run has a mutant: a faulty variant of one definition,
beside it in the module, under which the property must fail.

### What the models reach and no run states

No document of the repository says what should happen in these cases; the
models contain them, and the properties name them as exceptions where they
matter.

- Two `Close()` at once both get past `UnActiveSet`, which is a load and a store, and
  close the cancel channel twice (`LoadUnActive`, `StoreUnActive`).
- A parse error ends the reader and leaves the connection open (`ParseFail`).
- A posted counter that runs after the teardown meets a nil `conHost` (`Account`).
- `Close()` right after `Open()` closes a nil channel; a late client is entered into a
  map that `Close()` has just set to nil (`CloseChan`, `Insert`).
- Any error of `Accept` ends `Run` with the listener set to nil, also when it is open, and
  also when it is that of the next `Open`; the next `Close()` leaves it open (`lost`).
- A closer of an object's last use may sign a connection off before `Run` has entered it:
  the map keeps the dead object (`overtaken`).
- A prefix cut in two is decoded from its first part, or panics (`ReadHeadPanics`).
- `ReadBytes` on an incomplete line returns old bytes and repeats the line (`blind`).
- `Close()` while `DoReconnect` starts a reconnector leaves one that nobody can stop
  (`deaf`).
- After a successful reconnection `reconnectChan` stays set: the next disconnect
  starts no reconnector (`ResetSelfClose`, `CheckChannel`).
- A request whose handler panics is not answered (`Ignore`).
- A late result goes to the call that owns the package by then
  (`WrongResultIsALateOne`), in the file client to the next wait, whose result it may
  also overwrite and whose id it may clear (`late`).
- A late result may block the receiver of its connection for good, on a channel that is nil
  when it is read again (`OnlyLateOnesBlock`).
- A direct write has no deadline: a call whose peer does not read has no timeout either
  (`WriteObject`, `StartCall`).
- In the file client a block of a file that could not be created may go into the next
  file, and two downloads are under way (`mixed`).
- `QuitWriter` closes channels that loggers and the writer still use (`Send`,
  `GiveBack`); a writer that could not open a file makes it wait (`dead`).
- Locks stay behind after a second lock of a connection or one handled after its
  disconnect event (`slipped`).
- After a refused lock `fbusystate` stays 1, and files wait for good (`reasons`).
- The list of clients keeps the server's lock when there is a client (`page`).

### Bounds, and why they are enough

- `MaxUse` 2: the second use is where leftovers of the first show; a third adds
  no new kind of leftover. Liveness is checked in the first use, since
  `Net_IdleReuse` shows that it fails in the second.
- `Closer` 2 slots: one closer on its way and one that lost the swap; a
  `PostClose` waits in the model for a free slot.
- `Caller` 1: one application goroutine beside the handler and the closers.
- `QueueCap` 1 where the code has 5, `SendLimit` 0 or 1: full, empty and the step
  between; `MaxStats` 1 is one posted counter that may outlive the use, 0 leaves
  them out.
- `Srv_Life`: two opens, so that an old `Run` meets a new listener, and one connection
  at a time, which two goroutines of `Run` may have one after the other. The two
  invariants were also checked once with two connections (1.6 million states) and are
  proved for any number; the liveness properties are too much for TLC there.
- `Frames`: `Base` 2, prefixes of 2 and 4 digits, objects of up to five bytes (one
  more than a short prefix can say), `MaxBufferLen` 1 so that long packages of
  different lengths follow each other, two writers with two calls; the counter
  has `Unit` 2, `Half` 4, `Word` 64, so that carries reach several fields.
- `bufsize` 3, `MaxStream` 6, three kinds of byte: the chunk is filled, emptied
  and filled again, with the delimiter at every place.
- `MaxReconnector` 2: one that is replaced and one that replaces it (the
  invariant was also checked once with three). `Close` is disabled when it would
  use up the last reconnector, so that liveness is not cut off by the bound.
- `MaxPkg` 3, `MaxCall` 3, one connection with two callers: a call that is late,
  one that takes over its package, and one more result. The invariants were also
  checked once with two connections.
- `Log_Writer`: two loggers that may both make the buffer channel, channels of
  one, a file of two records, three writes: a used buffer is filled again, a file
  is followed by the next, and both channels are full at some time.
- `File_Transfer`: two files of up to two blocks, two calls, two parsers at a time,
  one timeout while connected (without a bound when the connection is broken), and
  one other peer, which asks for one of the files only: a file is fetched in more
  than one block while another waits, is refused, or grows. The constraint `Followed`
  cuts off a client that had its disconnect event once no result is on its way: it
  sends nothing more, and the server goes on as it does when the connection breaks under
  a client that is still live. The theorems have no such bound.

Deadlock is checked in `File_Transfer` only; elsewhere the system may stop: the
pool lies idle, clients are closed, bounds are reached.

### Fairness, and what justifies it

- Goroutines are scheduled and posted functions run: weak fairness of each
  thread's own steps (`Internal`, `Running`, `Receiving`, `Event`, `Closing`,
  `RunGoesOn`, `ConStep`, `CloseStep`, `LoggerStep`, `WriterStep`, `QuitStep`).
- Handlers return: weak fairness of `Handler` for a receiver that handles.
- `select` chooses at random among the ready cases: a case that is ready again
  and again is chosen, hence strong fairness of `Stop` and `Cancelled`.
- Timers fire: `Loop` of a reconnector is strongly fair, as the timer case of its
  select is ready again and again, and so is an opening call that has to wait for
  the teardown to end (`Opening`).
- A `sync.Mutex` is handed to who has waited for a millisecond: `Insert` and
  `Unlist` of `DxServer`, which the page of the demo may keep from the lock again
  and again, are strongly fair.
- Nothing is assumed of the peer, the network, the clock of the heart check, or
  of the application beyond finishing a call it began. `ServerCloseDrains` thus
  holds only with a sending queue: a handler in a direct write to a peer that
  does not read holds `Close()` up. For the same reason `Running` leaves out the writes
  of `RpcCalls`, and `CallReturns` speaks of calls that wait; `RunGoesOn` leaves out an
  `Accept` on an open listener. In `Srv_Life`, where a connection has no
  handler, every connection that sees the closed channel leaves.
- `FileTransfer` has no liveness property: its state space is too large for it.
  `QueueIsServed` says instead that somebody is there to carry on.

## 4. What is proved

**`NetConnectionProofs`**, for any number of uses, closers, callers and any queue
lengths. `TypeCorrect`: `TypeOK`. Then, under `CloseFrom = {}` (the application
leaves closing to `PostClose`): `OneTeardownHolds`, `ReaderSpared`, `ServerCounts`
and `Refinement` (every step is a step of `ConnSession` or a stutter). The
assumption is needed: two `Close()` at once run two teardowns.
The properties are not inductive. `IInv` adds what the code relies on without
saying it: what there is before the first use (`FreshInv`), what a pooled object looks
like (`PoolInv`), that a closer of an old use cannot get beyond the disconnect event
before `Run` has set `conHost` (`EarlyInv`), that a live connection is counted and its
cancel channel not closed (`LiveInv`), what each stage of a teardown has done
(`TeardownInv`), how map and wait group follow (`ServerInv`), and that a reader that
still holds a package is in the wait group (`ReaderInv`). `ServerCounts` shows the wait
group exact in every interleaving, and the map with it unless `overtaken`. There is a
lemma per kind of step.
Without `CloseFrom = {}`, whoever calls `Close()`: `RequestsArePending`, that in the
first use `isDelayClosing = 1` means that somebody is on the way to close the open
connection. `PendingInv` adds that nobody has asked before the first use. From the
second use on the flag may be left over, and the property is only checked.

**`DxServerProofs`**, for any finite set of connections and any number of `Open`s:
`CountHolds`. A connection is counted from `Add` to `SignOff`; the invariant adds
that an accepted one is in the hands of one `Run` until it is counted (`InHand`), that
what `Run` is about to enter and what the map holds has not left the map, if no teardown
came first (`Entered`), and that the goroutine of the next `Run` is not there yet
(`Unused`). `ClosedServerIsDeaf` by `DeafInv`: a listener that is open is in the field
`listener` or lost (`OnlyListener`), so `Close` closes the only one that is not lost.

**`RpcReconnectProofs`**, for any number of reconnectors: `OneWanted`. The
invariant adds that nobody makes a channel between the test and the assignment of
`DoReconnect` (`MakesIntoNil`), that the channel made is in the field until a `Close()`
has closed it (`PostsItsOwn`), which is why a reconnector that gets none is one whose
channel was closed, and that `Close()` clears a channel it has closed
(`ClearsAClosedOne`).

**`RpcCallsProofs`**, for any connections, callers, packages and calls:
`PackagesHaveOneOwner`, `WaitersChannel`, `HandlerCallTimesOut`. The invariant:
every id in use was given out (`Ids`), calls in progress differ (`CallsDiffer`); a
package that was made is in the pool, with one caller or with one receiver
(`Owners`); a package has a channel exactly while an `ExecuteWait` has it, its own
and open (`Channels`), which is why the `ReSet` of a result closes nothing; a
receiver handles results of its own connection and stands still while a handler
of it makes a call (`Handlers`).
A second invariant, `Fates`, says what becomes of calls; `OnlyLateResultsStray`,
`OnlyLateBlock` and `NoStaleEntries` follow from it. An entry of the map is the package
of a call in progress (`Mapped`), and one whose call is over is there for a reason (`Entries`); a
package with a result handler stays out of the pool (`HandlersKept`); a call's result
is in one place at most, and nowhere once it was given to it or if the request
could not be sent (`Flights`). Then a result can reach another call only if its
receiver looked the call up, the call timed out or was itself given another
result, and the package was taken again (`LateOnes`); and only such a
receiver can find the channel nil that it has just seen.

**`DxReaderProofs`**, for any chunk length, any set of bytes, any stream.
`TypeCorrect` and `ChainIsOneChunk` by `IInv`: the comparison that should notice
a full chunk compares its length with index 0. `BytesInOrder` and
`FullMeansPending` by `Ordered`: what was taken and what is held, from the read
offset and from the mark, is the stream. Both leave out a parser that calls
`ReadBytes` with no delimiter there, which repeats bytes.

**`FramesProofs`**, for any byte base, buffer length, objects and writers.
`BufferHolds`: the invariant adds that `lastReadBufLen` never exceeds the length
of `tmpBuffer` (`Kept`), and that what is on the way are bytes, so that a decoded
length is a number.

`FramesAreWhole` by `SInv`. While nothing is spoilt, a buffer that a call of
`SendData` fills begins with the digits of its object's length (`Clean`, from
`FrameOf` and `UintOfPutUint`: a number below the base's power is what its digits
decode to). What is on the way is then described by the places where the frames
begin (`Survives`): what conRead has taken apart, the part it holds and the rest of
the stream are the frames of the objects sent, in order. Bytes that are taken in any
parts move the places and change no frame.

`TrafficIsCounted` by `TInv`: a writer posts the length that its buffer has at that
moment and the reader the length of a part it has read to the end (`Measured`), and
a closure that runs moves its length from the bag to the counter (`Counted`). It
has the hypothesis `Fits`: the traffic so far is less than the five fields can hold,
and no package's length, together with a unit that is not carried yet, exceeds 32
bits. Without it the property is false of the code, whose last field wraps. Every
state of the run satisfies it, and the run checks the property without it.
The step is `AddByteSizeKeepsTotal` (exactly the argument is added, and each field
stays below its unit); `AddKeepsTotal` says the same of `Add`, one carry after the other.

`Nonempty`, `Lengths` and `Waiting` are folds of the community modules. The library
states that the order of the numbers is well-founded as a fact about sets; `Least` and
`Induct` follow from it without an operator as a parameter, and with them the laws
that the proofs need: what each fold gives when an element is appended, and what
`Waiting` gives when a length joins the bag or leaves it.

**`FileTransferProofs`**, for any connections and files: `WriteLockHolds`, and
`LeftLocks` by `Tracked`: the file in `fLockingQueue` is the only one that a
connection holds which has not slipped, and only a live one then holds any. Then
for any parsers and lengths the client beside these tables, by `TransferInv`: the tables
keep their invariant, the types hold in any case (`Basic`, `TypeCorrect`), and unless
`mixed` so does `Turns`. `LockHeld`, `InOrder` and `QueueServed` rest on one turn
(`OneTurn`): a request for a block, its answer, the parser that handles it and the
`doNextFile` after it pass it on. So the position that is asked for is the one the
local file has reached (`Positions`), a busy client has its download somewhere
(`Served`), and whoever asks for a lock has the last id that was given, which nothing
on the way has before it sends (`Ids`): once it is answered nothing is on the way that
could give the lock back (`LockAsked`, `LockGiven`, `LockKept`). `late` is where that
argument ends for `LockHeld`; `mixed` is where there are two turns.

**`LogWriterProofs`**, for any finite set of loggers and any capacities:
`TypeCorrect`, `BuffersHaveOnePlace`, `LogIsSent`. That there is room for every buffer
and buffer channel that is made is a count (`Counts`): each buffer is made for a
record of its own, and a logger makes one channel at most. `Apart` says pairwise that
two places never have one buffer; `LogIsSent` needs it, since a logger that fills a
buffer would spoil the record that is still to be written from it (`Logged`).

Assumptions: those named in the modules (`BufsizeAssumption`, `CallsAssumption`,
`LoggersAssumption`, `ParsersAssumption`, ...), which TLC evaluates for the instances
it runs. They say that bounds are numbers, sets of goroutines are finite, and names
of different things differ.

Only model-checked: liveness (TLAPS does not prove fairness arguments or
`ENABLED`); `Net_App`, where the application closes, but for `RequestedCloseIsPending`
in the first use.

## 5. Not modelled

- `TCP client`: `Connect` while the teardown of the last connection still runs
  (`Clientcon` is one object and is prepared anew). `RpcReconnect` and `FileTransfer`
  assume it is over.
- `RpcCalls`: the sending queue with `onSendData`, which may free a package a second
  time; `Notify`; a decode error, after which the freed package is still used; the
  payload accessors of `RpcPkg`. A sending queue beside the pooled packages passes
  what TLC can enumerate with the same bounds; without them the case needs a module
  of its own.
- `WriteObjectSync`, which posts the call of `SendData`, and `WriteObjectDirect`, which
  makes it whatever `LimitSendPkgCout` is; `BeforeRead`, `AfterRead` and user data.
- The file client after a second connect; contents of blocks; `GetUpdateVersion`,
  which only reads a file.
- The unlocked counter of a connection, which is only shown on the web page.
- A line of `ReadBytes` that is handed on while its chunk is filled again.
- Encoders, user interfaces and templates of the demos, formatting of sizes,
  logging texts.
