# Verification of PC_ENV_VU14

TLA+ models of this repository's own logic, model-checked with TLC on small
instances and, where it matters most, proved with TLAPS for every value of the
parameters. Paths below are relative to `src/package`.

The repository is a build environment (Makefiles around CMake packages) with
two libraries and a dozen programs. What makes it hard to test is threads that
share a queue under one condition variable, signal handlers that change a
thread's state between two of its tests, poll, select and epoll loops that keep
per-connection state, sound devices whose mutex is held during blocking I/O,
and hand-written rings, codecs and parsers with wrong turns at their ends.

## Inventory

| part | state | operations | who calls it | what is hard | what makes it correct |
|---|---|---|---|---|---|
| `libs/cppUtils/src/MTQueue` | a deque of pointers, the exit flag, one mutex, one condition variable | `read`, `read(td)`, `write`, `write(td)`, `cycWrite`, `clear`, `get`, `getSize`, `setWaitExitState` | RtPlayer, RtspPullHandle, CPPBox test | unlock before notify, readers and writers on one `cond`, reads that never notify, exit flag without lock or notification | bounded, FIFO, each element in one place, no lost wakeup, exit releases the timed calls |
| `app/CPPBox/src/MTQueue` | two threads and a file | copy a file through a queue | `main` | exit state against data, deletion against use | complete copy, idle at deletion, termination |
| `app/CPPBox/src/RtPlayer` | recorder, player, two devices, pause flag, full flag | capture, play, `pause`, `resume` from SIGUSR1 | signal | flags tested before blocking calls, device mutexes taken in a handler, a device paused in hardware that blocks with its mutex | at most one stale chunk, the handler returns but for that device |
| `app/CPPBox/src/RePlayer` with `libs/lzUtils/src/alsa_ctrl` | one thread, two devices, pause flag | read, write, reset, `pause`, `resume` from SIGUSR1 | signal | faults in any call, resets, a paused device that blocks with its mutex, a handler installed early, a second handler that interrupts the thread | silence after `pause()`, faults survived, handlers that return, sound back after `resume()` |
| `app/RtspPullHandle/src` | the volatile status, queues `befor`/`after`, static variables of `readBuf` | pull loop, trigger, upload | camera, SIGUSR1, curl | status changes between two tests, peeked frame deleted, shared statics | every packet stored, one owner for each frame, whole frames in order, start at a flagged frame |
| `app/RtspPullHandle/src-v0.*` | two rings without a lock, the status, clip threads | the same, with clips cut around the trigger | the same | rings handed to a detached thread while the loop goes on | rings sound, one trigger harmless, clip without a gap |
| `app/SockServer` | list of clients, a handler thread for each, self-signalling socket | accept, select, respond, stop | clients | a step variable written by the handler and polled by the loop, descriptors closed twice, too few descriptors, a blocking `recv`, send failures counted as bytes | every finished client is reaped once while connections can be accepted, joined before it is deleted, Stop ends unless a peer or a stream holds a thread |
| `app/uartd` | `CondFifo` pipelines, frame parser | HardRead, HardWrite, Cmdparse, TtMaster | serial line | bounded fifos whose refusals are ignored, timed waits | framing survives any split of the input, commands answered once and in order |
| `app/rtmpServer` | per-client state, send queue, publisher and receivers | poll loop, connect, publish, play, pause, relay | RTMP peers | a failing receiver inside a broadcast, vectors changed inside the loop over them, chunks of several channels cut anywhere | no dangling publisher, nobody skipped, a viewer gets the frames of one publisher from a key frame on, without a gap; every message is put together again |
| `app/rtmpServer` AMF | encoder and decoder | write and read values | message handlers | type markers, lengths of 16 bits, messages cut short | what is read is what was written, or the message is refused |
| `libs/lzUtils/src/ut_socket` | descriptor tables, event arrays | eight servers, four client sockets | callbacks | copies of a descriptor in the table, events compared for equality, a full array | callbacks on open descriptors only, every peer has its turn, where the server does not take `EPOLLHUP` for nothing |
| `libs/lzUtils/src`: `un_fifo_ops`, `user_fifo` | a named pipe, the daemon's buffer | open, write a frame, read and find frames | applications | frames across a full buffer, stale errno, a full pipe | whole frames, in order, at most once |
| `libs/lzUtils/src` rings: `csrb`, `shrb`, `ccsrb` | buffer, indices, mirrored area | query, sync, clear | audio code | index wrap, mirrored bytes | bytes come out once and in order |
| `libs/lzUtils/src`: `autom`, `vad_op` | growing buffer; status and counter of the voice detector | write, read, reset; one call per chunk | applications | partial reads, foreign memory; one counter for two transitions | in bounds and in order; confirmed starts and ends |
| `app/CPPBox/src/BinSplit` | a piece of the file, what is carried over | cut a file at start codes | `main` | start codes across two pieces | sizes partition the file |
| `app/pkgSort`, `src/host-tools/pkgSort` | recursion over dependencies | order packages | Makefile | cycles | what is needed is listed, dependencies first, and the search ends |
| `app/fileBase64`, `app/myBase64`, `common/misc.c` | a line, a block | encode and decode a file | `main` | padding, newline, alphabet | the file comes back |
| timers, semaphores, logging, wrappers, dispatchers, media demos, build files | | | | calls into POSIX, FFmpeg and curl | |

MTQueue's `read` and `write` methods interact with RtPlayer, RtspPullHandle and
the CPPBox test through blocking calls; the programs interact with their threads
through flags and queues, and with the outside through signals, devices, sockets,
pipes and curl.

## Modules

`MTQueue` is the core. `MTQueueTest` and `RtPlayer` EXTEND it and conjoin its
actions with the steps of the program's threads: the queue is not abstracted
there, its notifications and timeouts interleave with the program. `RtspPull`
uses the queue as the atomic FIFO that the proofs show it to be. `RePlayer`
EXTENDS `AlsaCtrl` and `RtspClips` EXTENDS `AnyStream`, the libraries their
programs are written over. `Uartd` instantiates `CondFifo` twice, once for each of
its queues, and `UartFrames` once.

`Library` joins the parts of `lzUtils` that do not interact: the constant variable
`lib` says which of them is used, and the variables of the others are idle. It
instantiates `UserFifo`, `Rings`, `Vad` and `Autom`; `EventServers` has a run of its own. In the
same way `CPPBox` joins the two programs that run over the queue (`applet`), and `Tools`
the sequential programs (`tool`), which share the variables whose names they share.
`RtmpServer` EXTENDS `Rtmp`, the poll loop over whole messages, and instantiates `Chunks`,
the bytes of one of its connections; `part` says which of the two runs.

The `MC...` modules give constants their values where a `.cfg` cannot write them. Some join parts that do not
interact, so that one run asks the same kind of question of all of them: again a
variable that no action changes says which of them runs. It is `version` in `MCRtsp` (which
EXTENDS `RtspClips` and `RtspPull`) and `part` in `MCRtmp` (`RtmpServer` and `AmfValues`),
`MCSock` (`SockServer` and `SockSend`) and `MCMTQueue` (two queues: one for programs in which
nobody waits to write, and one with a timed writer).

| module | models |
|---|---|
| `BoundedFifo` | the abstract promise: a bounded FIFO of numbered elements with put, cyclic put, take and clear |
| `MTQueue` | the class, one action per critical section; a separate action for `notify_one`, one for a timeout, one for a spurious wakeup |
| `MTQueueTest` | the writer, reader and main thread of the file copy |
| `RtPlayer` | recorder, player, constructor and signal handler, with the devices' mutexes and their two ways to pause |
| `CPPBox` | the last two, of which one runs |
| `AlsaCtrl` | what each call of `alsa_ctrl` does to a device, as functions |
| `RePlayer` | constructor, destructor, the copying thread and the signal handler, on main and on the thread, over two devices |
| `RtspPull` | the current RtspPullHandle: pull thread, signal handler, upload threads, `BAStream` |
| `AnyStream` | the ring of the old versions, as functions |
| `RtspClips` | the pull loops, triggers and clip threads of v0.1 to v0.5 |
| `SockServer` | main loop, handler threads, `Stop`, and the kernel's descriptor table |
| `SockSend` | the loops around `TCPSocket::Send`, in bytes |
| `CondFifo` | the queue of uartd, a library of actions |
| `UartFrames` | the parser in `HardReadProcess`, in bytes, a library of actions |
| `Uartd` | the daemon's threads over the two |
| `EventServers` | the eight servers of `ut_socket.c` and the client sockets |
| `UserFifo` | writers and daemon of the command pipe |
| `Rtmp` | the poll loop of rtmpServer, its message handlers, publisher and viewers |
| `Chunks` | the chunk streams of rtmpServer: how a peer cuts and mixes messages, `recv_from_client` and `rtmp_send` |
| `RtmpServer` | the last two, of which one runs |
| `Amf`, `AmfValues` | the AMF encoder and decoder, and the values that are put into a message |
| `Base64` | fileBase64 and myBase64 |
| `PkgSort` | the search for the packages to build |
| `BinSplit` | the split of a file into units |
| `Tools` | the last three, of which one runs |
| `Rings` | `csrb`, `shrb`, `ccsrb` between a writer and a reader |
| `Vad` | the voice activity detector |
| `Autom` | the growing buffer |
| `Library` | the last three and `UserFifo`, of which one runs |
| `MTQueueProofs`, `RtspProofs`, `ProgramProofs`, `SockServerProofs`, `RtmpProofs`, `UartdProofs`, `LibraryProofs` | theorems: the first also about `CPPBox` and its parts, `ProgramProofs` about `RePlayer` and `Tools`, `RtspProofs` about `RtspClips` and `RtspPull`, `SockServerProofs` also about `SockSend`, `LibraryProofs` about `Library`, its parts and `EventServers`, `RtmpProofs` about `RtmpServer` and its parts |
| `ListLemmas` | lemmas on lists and finite sets that several of these rest on |

### How state and actions correspond to the code

*MTQueue.* `q` is the deque (front first). A thread's `pc` says where it is in
the method `op`: `waiting` is inside `cond.wait` or `wait_for`, `woken` and
`timedOut` compete for the mutex again, `notify` is between `locker.unlock()`
and `cond.notify_one()`. No critical section blocks, so lock to unlock (or to
the wait) is one action. `wait_for` with a predicate may be woken, find its
predicate false and go on waiting, and may time out although it was notified;
both are in the model. Elements are numbered by `push_front`; `taken`,
`destroyed` and `leaked` record where they went and influence nothing.
`setWaitExitState` is one unlocked assignment.

*MTQueueTest.* A chunk is its number. `fopen` may fail in either thread, and so
may `fwrite`. The destructors' joins are the guards of `MJoin`.

*RtPlayer.* The tests of `mPauseFlag`, the device I/O, the queue call and the
assignment of `mFullFlag` are separate steps. A device call holds the device's
mutex (the macro in `alsa_ctrl.c`). `canPause` says which devices pause in hardware,
as any may: one that does stands still (`Held`), and a transfer on it ends only with what
its buffer has; the stream of one that does not is dropped (`Dropped`), and a transfer
comes back without data. `era` records during which pause the recorder began a chunk;
it is a history variable. The signal handler runs on the main
thread, so its steps and the rest of `main` exclude each other. Here the next signal comes
when the handler is done; what a second one does meanwhile is in RePlayer, whose
handler and devices are the same.

*RePlayer, AlsaCtrl.* A device is the state of its PCM stream and whether it can
pause in hardware. Each call of `alsa_ctrl` is a function of the device, applied
under its mutex; `lock` names the devices that the thread holds, so a read or
write has a step that takes the mutex and one that ends. A transfer on a paused
device whose buffer is used up does not end (`Blocks`). `padded` says that a chunk
is shorter than what `write_stream` fills up to. At most `MaxFaults` calls fail or
suspensions happen. `late`, `heard`, `resets`, `openFailed` and `crossed` are history variables.
The handler's steps are those of `Handler(t)`, for main and for the thread: SIGUSR1 is blocked in
the thread that runs the handler only, so a second signal that comes while main is inside it is
delivered to the copying thread, which stops (`wpc`) wherever it is, also with a mutex. The two
test and set `isPaused` without a lock; `crossed` says whether they overlap, or ever did.
A third signal finds it blocked in both threads and comes when one of them is done.

*RtspPull.* `pullAt` names the next step of the loop; each test of the volatile
`mBAStream_status` is a step because the handler may write it in between.
`readBuf`'s static variables are the shared variables `frame` and `ri`. Where
the program dereferences NULL, uses a deleted frame or has two uploads inside
`readBuf` at a time, `misuse` is set and the model stops: the code promises
nothing from there on.

*RtspClips, AnyStream.* One module for five programs: `version` chooses the pull
loop, and the steps they share are shared. `streams` holds every BAStream ever
made, with its two rings as `AnyStream` records, `packs` the clip threads. The
model stops, with the reason in `broken`, where two threads would use a ring at a
time, a null pointer is dereferenced, or the input is used after its end.

*SockServer.* A client is the number of its connection. `file` is the kernel's
table, `sockfd` the number that the object keeps after it has been closed, so
that a second `close` hits whatever has that number by then. `step` is
`m_responseStep`, written by the handler and polled by the main loop. `Recv` tests
`m_exitWork` and then blocks (`HRecv`), and `hears` is the connection that a thread waits for;
it goes on when the peer sends a part (`HPart`), all of its request, or closes (`HRequest`). The
committed source lacks one `do{` in `SendOneStream` (line 261) and does not
compile; the models read it as restored.

*SockSend.* `Send` may return fewer bytes than asked for, -1, 0 or 7
(`ERROR_NOT_WRITEABLE`); `rem` counts modulo the width of `size_t`; a pointer
outside the buffer ends the behaviour in `overrun`.

*Uartd.* `Read` is one pass of `HardReadProcess` with a successful `read()`; what
`req += buf` appends is a choice where `buf` has no terminator. The queue's
`notify_one` is a step of its own. A string for the line goes out in `Pieces`
calls of `write()`. `sendCmd` has no `return` on success; no caller uses the
value, and it is not modelled.

*Rings.* A caller queries, uses the memory it was given and syncs; these are the
steps of each side. `shrb` moves its index before it takes the mutex for the
counts, which are two steps. The bytes are numbers, so a wrong byte is seen.
`clear` is called between the calls of both sides.

*EventServers.* `kind` chooses the server. `conn_a`, `watch` and `batch` are the
table, the interest set and the events of the round; one event or one entry of the
table is a step, and the peers act in between. The callbacks are external: they read
what is there and return 0, 1 or -1 as the interface asks; `closes` says whether they
close a descriptor whose peer has left. `accept` returns the lowest free number, so
numbers are reused. A stream that was reset, by its peer or because something was written to
a peer that has closed, keeps `EPOLLHUP` (`Broken`). SIGPIPE, which such a write may
raise, is assumed to be ignored: what the callback does is the caller's.

*UserFifo.* The pipe is bytes and lives while somebody in `holders` has it open.
`errno` is kept, because `un_read` tests it after a read that was good. A frame's
text is its number.

*Amf, Base64, BinSplit, PkgSort.* Sequential programs, one action per call or pass
of the main loop; the input is chosen in `Init`. An AMF number is one cell for the eight bytes of a
double, in the order in which an x86 machine has them; `as_integer` returns a double (amf.h:93),
so an integer is written as a number and is not `Faithful`. PkgSort's recursion is the variable
`stack`, and `asked` keeps what was asked for, which `pkg_list` loses. A byte of
`Base64` is four quarters and a digit three; the values of a quarter are the constant
`Quarter`, 4 in the code and 2 in the run. `BinSplit`'s files are bits, and memory that
was not written is a choice.

*Vad, Autom.* One action per call of the library. `loud`, `quiet` and `finished` of
`Vad` and `numbers`, `expected`, `ordered`, `partly` and `shrunk` of `Autom` are
history variables.

*Rtmp.* `clients` and `revents` are the two parallel vectors, `i` the index of
the second loop of `do_poll`. Entries without an event do nothing, so the loop
goes to the next one that has an event (`GoOn`). A `recv` completes one message
or none; several in one are several rounds in which nobody else is served. An exception is part of the
action that raises it: the catch in `do_poll` closes the client whose message
is handled (`CloseClient`), also if the failing `send` was to another one. A
send to a peer that has left succeeds, throws, or raises SIGPIPE (`Killed`).
`frames`, `keys`, `since`, `got` and `told` are history variables.

*Chunks.* `recv_from_client` is one action: any part of `wire` arrives, and `Parse` is
the loop over `client->buf`, as many times `Round` as the buffer has cells: each round
takes one at least or changes nothing any more. `Cut` says of each place what `rtmp_send`
puts there, because a recursion could not be reasoned about; so does its mutant. A header field is one cell, so that a portion may end
inside a header, and a byte is named by its message and its place in it. `said`, `under` and
`speak` are the peer's, who begins a message with any of the four headers once the one before it
on the channel is complete, and cuts with the new size after it has announced one.
`spoken` and `handled` are history variables. An exception ends the connection, as in `Rtmp`.

Definitions marked `Mutant:` are not part of the models. Each is a plausible
mistake in the definition that follows it, and PROJECT.json names the property
that fails when it is put in its place.

## Runs

| run | question | bounds | result |
|---|---|---|---|
| `MTQueue` | does the class implement the FIFO under all interleavings, and can a wakeup be lost? Do timed calls end, with a waiting writer? | 4 threads that between them call every method but the timed write, capacity 2, 3 writes; 3 threads with a timed writer, capacity 1, 3 writes | holds |
| `CPPBox` | what survives a pause of RtPlayer, and does its handler return, whichever devices pause in hardware? Is the copy through a queue complete, and does it end? | player: capacity 2, 4 chunks, 2 pauses; copy: capacity 2, 4 chunks | holds |
| `RePlayer` | is RePlayer silent after `pause()`, which faults does it survive, do its handlers return, and does the sound come back? | 2 pauses, 1 fault, a handler on main and one on the thread | holds |
| `Rtsp` | what does a trigger produce, in every version of RtspPullHandle? | v0.1 to v0.5: rings of 3, 7 packets, 2 triggers; current: capacity 2, 5 packets of size 2 or 3, read size 2, 2 triggers | holds |
| `Sock` | who closes what, is every client reaped, does `Stop` return, what do the send loops send when `Send` fails? | 4 connections on 2 descriptors; 9 bytes, 2 failures | holds |
| `SockSend_count` | is what `Send` returns what was sent? | 9 bytes, 2 failures | violated |
| `Uartd` | is every command found, is every query answered once? | buffer of 5 bytes, 8 bytes received, queues of 1, 1 line of stdin | holds |
| `Events` | does each of the eight servers serve whoever has something to say, on open descriptors? | 3 descriptors, 3 connections, an array of 3 events | holds |
| `Library` | does the command pipe deliver whole commands? Do rings and buffer give back what was put in, and does the detector confirm? | 2 writers, 4 frames, buffer of 5, pipe of 8 bytes, 1 interrupt; rings of `MCUses`; 7 bytes through the growing buffer; confirm counts up to 3 | holds |
| `Rtmp` | what does a viewer get, and are the tables consistent? Are the messages put together again, and are the values in them read as they were written? | 3 connections, 2 frames per publisher; 3 messages of 1 to 5 bytes on 2 channels, chunks of 1 to 3 bytes, 9 cells on their way; values nested once, one or two in a message, strings of up to 5 cells and a length range of 4 | holds |
| `Rtmp_ready` | does a paused client stop receiving? | the same | violated |
| `Tools` | does a file come back, is it cut where it should be, is the order right, and does the search end? | base64: files of up to 20 bytes, 7 to a line; every graph of 3 packages; pieces of 6 bytes, up to 3 of them | holds |

Why the bounds are enough. For the queue, two readers and two writers are the
smallest instance in which a notification can go to the wrong thread, and
three writes into capacity 2 reach empty, full and overwritten. A proof covers
all larger instances of its safety properties. Four chunks reach start-up, two
pauses and a stale chunk. In RePlayer one fault is any call that fails, the reset that
follows an overrun among them; the second pause may come while the thread is still busy
with the first, or in a handler of its own. Five packets fill
`befor`, overwrite it once, fill `after` and leak one; sizes 2 and 3 with a read
size of 2 give a flagged and an unflagged frame and a partial read. A ring of 3
holds two packets, so seven packets fill and overwrite `befor`, fill `after` and
begin the next clip. Four connections on two descriptors are two more than fit:
a number is reused while an older client still names it, and two clients that nobody
stops leave a fourth connection, for which there is no descriptor, in the way of a third
client that has finished. Three descriptors for connections fill an array of three events with and
without the listener, which the rounds then keep out. Nine bytes hold one failed send of 7 and more. The reads of
`MCUartd` begin and end everywhere in a command, hold two commands, a NUL byte
and fill the buffer; eight bytes are two commands and a rest, and queues of one
string are full at once. A buffer of 5 is filled by one frame and part of the
next, and 8 bytes of pipe refuse a third one. Three
connections are a publisher with two viewers, of which one may fail, and two
publishers one after the other with a viewer; two frames are a frame before and
one after a key frame, or a key frame and its successor. `Slow` (whose
`send_queue` may keep a rest) is one of them; the other two are symmetric, and
no property of that run is a liveness property. AMF's strings are shorter, as long
and longer than the length field holds. Base64 files end in every place of a line.
Three packages have every cycle and diamond that two dependencies on one package
can make. Pieces of 6 bytes put a start code of 3 or 4 in every place across two
of them, with a short piece behind. The rings' sizes are the proportions that
`csrb.h` asks for, those of the test in `csrb.c`, and one in which writes wrap.
Three messages on two channels are one in several chunks, an announcement between
two of them, and one with a short header after either; times of 0 to 4 with `EXT` = 3 reach the
forbidden value.
In every module the bounds `MaxPush`, `Chunks`, `MaxPause`, `MaxFaults`,
`MaxPackets`, `MaxTriggers`, `MaxConn`, `MaxSend`, `MaxFailures`, `MaxBytes`,
`MaxLines`, `MaxFrames`, `MaxMessages`, `MaxWire`, `MaxInterrupts` and `MaxRun` only stop the environment or
fold states that behave alike.

Deadlock is checked in the run of `MTQueue` itself.
The other programs stop by design (a bound ends the recording, the stream or
the peers), and there the liveness properties say that they do not stop too
early.

### What the runs show about the code

* One `cond` for readers and writers is safe only because no program of the
  repository calls the timed `write`. With it `notify_one` may pick a
  writer, `NoLostWakeup` is false, and only the timeouts keep the system alive
  (`TimedCallersReturn`, on a second queue in the run).
* After RtPlayer's `pause()` the queue may hold one chunk from before it.
* RePlayer is silent after a `pause()` that ran alone, but a player that pauses in hardware may
  still play the chunk that was on its way. A thread that reads or writes a device
  paused in hardware holds the mutex that `resume()` needs (`Stuck`), and neither
  returns; this goes for RtPlayer too. A second signal during the handler may interrupt the
  copying thread while it holds the mutex that its own handler then asks for (`SelfDeadlock`).
  Where neither happens, two handlers that overlap return, and may leave the player playing
  although it was paused last, or silent, until the next handler that runs alone. A reset that
  cannot reopen its device leaves a NULL handle for the next call. A chunk shorter than what `write_stream` fills up to counts as a failure each
  time, and the player is reset for every chunk.
* A trigger in RtspPullHandle is safe when it is the first and arrives after
  the first video packet, in the current version and in the five old ones; in the current one
  it is not lost either (`TriggerKept`), unless it comes between the making of the BAStream and
  the assignment of `CYCW` after it. A second may
  drop a packet between two tests, overwrite the flagged frame before the upload
  reads it, delete the frame that `getRiFlags` is looking at, or give a clip thread a
  ring that the pull thread still writes. A stream that ends under a clip thread takes
  its input away. `after` of the current version is never read, and `DUMP` never
  ends because a `bool` is compared with `< 0`.
* SockServer closes each descriptor twice. That is harmless until the number is
  given to another connection in between (`DescriptorsOwned`). A handler that
  returns early is never reaped before `Stop`. A finished client is reaped only in rounds in
  which no connection waits; with no descriptor left one waits for ever, and so does the
  client (`Starved`). `Stop` waits for a thread in `recv` as long as its peer says nothing:
  `m_exitWork` is tested before `recv` only (`Caught`).
* `SockSend_count`: `ERROR_NOT_WRITEABLE` is 7, positive, and its callers count
  it as seven bytes sent, although the comment at SockServer.cpp:63 tells it
  from the number of characters sent. `SendOneStream` adds whatever `Send`
  returned, also -1, to an unsigned count and a pointer.
* uartd takes one command out of `req` per `read()`: a second one in the same
  read waits for further bytes (`QueryAnswered` says that any bytes do).
  Commands and replies that find a full queue are dropped without notice.
* `un_select_tcp_server` stores a connection in every free entry of its table, and
  calls back on the copies when the number is closed or reused. The epoll
  servers compare events for equality with `EPOLLIN` and `EPOLLOUT`: what comes with
  `EPOLLHUP` is neither read nor dropped, and the loop spins on it; when such streams fill the
  array nobody is accepted any more. In `un_epoll_tcp_server` that is every connection that was
  closed, in `in_epoll_tcp_server` one that was reset, also by the server's own write to a peer that
  has closed. Peers that keep either busy keep the listener out as well: it is served only
  in a round that leaves room in the array. The other five servers serve everybody.
* `un_write` on a full pipe returns 0, so the caller is not told that its command was dropped:
  `user_fifo_write_str` returns 0 for it as for one that was written, and `user_fifo_write_fmt`,
  which compares that 0 with a length (user_fifo.c:69), returns -3 for both. An `EINTR` of an earlier
  read makes `un_read` go on until its buffer is full, and commands wait or are cut
  at its end. Nothing else loses a frame, and none is made of parts of two.
* AMF: undefined values are written as nothing, an empty key ends its object, a
  string of 65536 bytes or more is cut in its length only, arrays cannot be written, an
  integer is written as a number and comes back as one, and the AMF3 readers ask for AMF0 markers. Everything else comes back, and a
  message that was cut is refused.
* Base64: a last line without padding has its newline decoded as well, and the two
  programs have different alphabets. BinSplit's sizes always partition the file, but
  bytes carried over from a piece may be taken for the beginning of a start code.
  pkgSort ends on cycles.
* The mirroring loops of `csrb` and `shrb` start at the write index instead of
  the start of the written range. With a capacity that is no common multiple of
  the sizes, against the advice in `csrb.h`, a reader can get stale bytes (4
  bytes, written one by one, read in threes). A `ccsrb` writer that commits
  less than it asked for at the end of the ring passes a negative length to
  `memcpy` (`overrun`).
* `autom_write` after a partial read goes over bytes that are still to be read;
  `autom_breset` takes memory away and leaves its sizes as they are; memory that was
  handed in must not have to grow. The voice detector carries its counter from
  STARTED to SPEAKING, so with a confirm count of one it finishes a chunk later.
* In rtmpServer a viewer that leaves costs the publisher its connection if the
  server sends before it reads the end of the stream, or ends the server by
  SIGPIPE. The remaining viewers still never see a gap (`StreamComplete`).
  `Rtmp_ready`: a client that pauses stays `ready`, and still gets audio,
  although main.cc:39 explains `ready` as "Wants to receive and seen a
  keyframe".
* The chunk parser of rtmpServer puts every message together whatever the portions and
  the mixture (`ChunksAssembled`). It closes the connection for a message without bytes, which
  it takes for a message without a header, and for an extended time. A message that
  begins with a header of one byte does not advance the time (`drifted`). What is
  forwarded can be read (`SentIsReadable`) by a receiver that expects chunks of the size
  it announced for its own, because `chunk_len` serves both directions, and unless the low
  24 bits of the time are 0xffffff. `handle_connect` has an announcement by the
  server, but in a comment.

## Fairness

`MTQueue!FairSpec`: a thread that has been woken or has timed out gets the
mutex, since no critical section blocks; a writer past its unlock reaches
`notify_one`; the clock ends every timed wait. No thread is obliged to call a
method and no spurious wakeup is owed. The programs add that their threads are
scheduled (weak fairness per thread) and, in RtPlayer, that a thread which
finds a device mutex free again and again gets it (strong fairness on the lock
steps; POSIX mutexes do not promise it, but the holders sleep in I/O between
two calls) and that a capture device that is not paused goes on delivering
full chunks. A transfer on a device that is paused in hardware need not end. Signals and
failures are never owed.

`RePlayer`: main and the thread are scheduled, with strong fairness for
taking a device's mutex in main's handler, for the same reason; weak fairness is enough for
the handler on the thread, from which nobody takes a mutex away. The thread is owed nothing
while it waits on a paused device.
`SockServer`: the threads run. Nobody has to connect, to send, to close or to call `Stop`; a
stream may go on until `m_exitWork` is set. `StopReturns` excepts a client that stays `Caught`: a
stream in its send loop then (`Send` returns 0 for ever), and a thread in `recv` whose
peer is silent. `SockSend`: the
loops run. `Uartd`: the threads run and the line takes bytes; nobody has to send
any. `EventServers`: the loop of the server runs; start, peers and clients owe nothing, and the
peers may send without end.
`UserFifo`: the daemon runs. `PkgSort` runs. The other modules are checked for
safety only. A progress property of rtmpServer would rest on every peer completing
its handshake, which the code does not enforce: it reads with blocking `recv` in the
poll loop.

## Proofs

For all values of the constants, under the assumptions of their modules:

| theorem | statement | argument |
|---|---|---|
| `MTQueueProofs!TypeCorrect` | `Spec => []TypeOK` | inductive; one step per action |
| `NeverOverfull` | `Spec => []Bounded` | inductive with `TypeOK`; every action is a pop, a push, an overwrite, a clear or leaves the deque alone (`DequeSteps`) |
| `DeliveredOnce` | `Spec => []EachOnce` | the queued elements are the last ones pushed, newest in front (`Consecutive`, kept by pushing the next number and by popping the smallest), so what leaves is always the successor of what left before |
| `QueueRefinesFifo` | `Spec => ImplementsBoundedFifo` | under `fifo <- Reverse(q)` each of the five deque steps is one abstract action or a stutter; needs `Bounded` for the cyclic write |
| `WakeupsAreNeverLost` | nobody may call the timed `write` `=> (Spec => []NoLostWakeup)` | strengthened with "every sleeper is a reader" (`SleepersRead`): then a notification always turns a sleeper into a resuming reader, and each step changes both sides of the inequality alike |
| `FileCopied` | `TestAssumption => (TestSpec => []TransferComplete)` (`MTQueueTest`) | `Copied`: taken and queued elements are together the pushed ones; `InTurn`: the exit state is set after the last chunk, so a reader that sees it in an empty queue has them all |
| `DeletedInPeace` | `TestAssumption => (TestSpec => []DeletedIdle)` | from the same invariant: each join means that its thread has left the queue |
| `PauseKeepsOneChunk` | `P!PlayerSpec => []P!OneStaleChunk` (`RtPlayer`) | `EraInv`: from the clear of one `pause()` to the next at most one chunk was begun before the pause, counting the one in the recorder's hands (`InHands`); whatever it begins afterwards is new |
| `BoxKeepsOneChunk`, `BoxCopiesFile` | the last three for `BoxSpec`, which the run checks: `[]OneChunkSurvivesPause`, `[]CopyIsComplete` | a step of one program leaves the variables of the other alone |
| `RtspProofs!CycWriteSound` | `cycWrite` keeps `RingOK` | in a ring with one free entry the packets between the indices are those not yet deleted; the cases are full or not, and wrapped or not |
| `RingsStaySound` | `Spec => []RingsSound` | every step leaves a BAStream alone, makes a new one or changes it by an operation of `AnyStream` |
| `TimelyTriggerSafe` | `Spec => []TriggerSafe` | `SafeInv`: with at most one trigger, and that in time, the status goes once from CYCW over GETI and DUMP to START; `befor` is filled before a clip thread gets it, and the pull thread makes a new BAStream before its next write |
| `ClipsInOrder` | `Spec => []ClipInOrder` | before the clip `befor` holds a run of packets a..m and `after` those from m+1 to the last one written (`Gathered`), and none falls through the tests of the status (`Collecting`); afterwards the file and what is left of the rings are a run of packets (`Packed`) |
| `FramesHaveOneOwner` | `PullAssumption => (Spec => []OneOwner)` | `IInv`: until two uploads meet inside `readBuf` the queues hold different frames, each once, the packet just received is in none until it is written, only the upload inside moves the static pointer, and a new BAStream comes before the first frame is lost |
| `TimelyUpload` | `PullAssumption => (Spec => []UploadInOrder)` | while there was one trigger at most, and that in time, `Stage` says which steps of the pull loop go with which status and `Single` that with one trigger they are taken once, in order; `befor` holds its frames in the order of the stream (`Ordered`), and what was sent is whole frames up to the bytes of the one in hand (`Reads`) |
| `ProgramProofs!PausedIsSilent` | `Spec => []SilentAfterPause` | after a handler that ran alone (`Alone`) the flag is set from the first step of `pause()` to that of `resume()`, so a late chunk was in flight and is the last one, and a player that does not pause in hardware has dropped it; nothing is claimed while two handlers overlap, and a signal that finds neither running begins anew |
| `FaultsSurvived` | `Spec => []ErrorsSurvived` | `HandleInv`: only a failed open leaves a handle NULL, and no call closes an open one, in whichever thread the handlers are; `ResetInv`, while no handlers have overlapped: the resets made and the one owed are at most two from one `pause()` to the next, one before it stops the stream and one after, because a reset prepares it |
| `PackagesInOrder` | `PkgAssumption => (P!Spec => []P!ListedInOrder)` (`PkgSort`) | `SearchInv`: every call on the stack is for a dependency of the one above it and no package is under way twice; `un_list` holds the calls above and nothing that is neither listed nor under way (`Barred`), so what a call passes over is met, and a package that is not behind a dependency of its own was called from it, along the stack (`Leads`): the dependency needs it in turn. What is listed has its dependencies listed or under way (`Closed`), so at the end all that is needed is listed |
| `SizesCoverFile` | `SplitAssumption => (S!Spec => [](S!SizesPartition /\ S!CutsAtHeads))` (`BinSplit`) | `SplitInv`: the place in the file, less the bytes of the unit found before and its head, is the last cut (`Running`), so a size is always the way from one cut to the next; in `mBuf` the bytes behind those carried over are those of the file in the same place (`SplitFind`), so a head found there is one, and one found before them begins less than a head's length before the end of a piece |
| `ToolsListInOrder`, `ToolsPartitionFile` | the last two for `ToolsSpec`, which the run checks: `[]ListedInOrder`, `[]UnitsPartitionFile` | a step of one program leaves the variables of the others alone |
| `FilesDecodeBack` | `Base64Assumption => (B!Spec => [](B!ComesBack /\ B!LinesAreFull))` (`Base64`) | `CodecInv`: the text is the lines of the blocks read so far (`LinesIn`), the output the blocks of the lines read so far, and at most three bytes more behind the last (`Good`). A line is found again in the text because no character of it is a newline (`LineCount`); one quantum comes back because what is shifted out of a byte does not count (`RoundTrip`), a line because its quanta lie at multiples of 3 and 4 (`Flattened`, `BlockBack`). The other program's first character stands for another digit (`OtherTrip`) |
| `ToolsFilesComeBack` | the same for `ToolsSpec`, which the run checks: `[]FilesComeBack` | as above |
| `SockServerProofs!ThreadsJoined` | `Spec => []JoinedBeforeDelete` | `Types` and `Listed`: a client that is listed is one that was started and not deleted, a handler runs on a listed one only, and Stop deletes when the main loop has ended |
| `ClosedTwiceHarmless` | `Spec => []DescriptorsOwned` | `Owned`, as long as no number was given away while a listed client names it: the numbers of the listed clients differ, so the second close finds nothing |
| `RepliesInOrder` | `SendAssumption => (SendSpec => []SentInOrder)` (`SockSend`) | `SendInv`: every byte sent is at most the index, which only grows and stays within the text, so that the next ones are larger; index and rest add up to the size until a Send fails. The width is more than twice the size, so that no sum wraps |
| `RtmpProofs!NoDanglingPublisher` | `Spec => []ClientsAreOpen` | the two vectors stay parallel and list different connections; whoever is erased stops being the publisher |
| `NobodySkipped` | `Spec => []RoundServesAll` | every client that poll() reported and that was not served is at or behind the index with its events (`Waits`); entries are erased at the index only, which stays, and appended behind it |
| `NoGapInTheStream` | `Spec => []StreamComplete` | while a viewer gets frames of the present publisher they are the frames from `since` on, and the last one it was told of is the last one published; a new publisher, a pause or a failed send ends its run |
| `ChunksComeTogether` | `C!ChunksAssumption => (PartsSpec => []ChunksCarry)` (`RtmpServer`, `Chunks`) | `ChunkInv`: there is a log of the peer's chunks with its state between each two, and the server stands at an entry of it: it knows of each channel what the log says there (`Knows`), and what is in its buffer and on the wire are the cells of the chunks that follow (`OnWire`), of which it may have read the first one's header, which changes nothing the second time (`DueIs`). A round takes a whole chunk to the next entry or stops (`RoundKeeps`); the peer makes the log longer, which takes nothing back (`SendKeeps`). `SentIsReadable`: what `rtmp_send` cuts stands in the way of the rounds as chunks of one message, and its quotients find the place of every byte (`CutIs`, `ChunkRead`) |
| `UartdProofs!EveryCommandOnce` | `Spec => []NoCommandLost` | `Consumed`: what was received and is no longer in `req` is a text in which no command is left open (`Closed`) and whose commands are `cmds`; the commands of a text behind a closed one are those of both (`CommandsBehind`, by counting the places where commands begin) |
| `EveryQueryAnsweredOnce` | `Spec => []OneReplyEach` | `IInv`: numbers rise along `rFifo`, so a query taken is new; the queries answered, refused and in the handler are disjoint, so their sizes add up |
| `NoReadIsIdle` | `Spec => F!EveryReadDelivers` | the bytes that the parser drops hold no '^', so a command of the text and its newline are behind them |
| `LibraryProofs!EventsHold` | `MaxFd \in Nat \ {0} => (Spec => []CallbackOnOpen)` (`EventServers`) | `ServerInv`: a round of epoll has one event per descriptor, and what the events say holds until they are served; a select server's table has open descriptors, each once. A number that accept reuses was closed by its own event, which is out of the round, or is in no entry behind the loop |
| `IndicesFollowCounts` | `RingsAssumption => (R!Spec => []R!IndicesAgree)` (`Rings`) | `RingInv`: the write index is `Filled` places behind the read index, and `Filled` is the count corrected by what each side has half done |
| `BytesReadInOrder` | `RingsAssumption`, every use of a ring `Suits` `=> (R!Spec => []R!ReadsWhatWasWritten)` | `ContentInv`: from the read index on the bytes are numbered in order, first those in the ring, then those in the writer's hand; as many as a read may need are repeated behind the end, because a read begins at a multiple of a divisor of the capacity and of all reads, or, in `ccsrb`, are in the reader's copy |
| `BufferInOrder` | `AutomAssumption => (A!Spec => [](A!InsideMemory /\ A!ReadInOrder))` (`Autom`) | `AutomInv`: the memory is as large as `pre_bytes` says, and its bytes up to `tail` are the last `tail` written, unless one of the two wrong uses has happened |
| `SpeechConfirmed` | `VadAssumption`, every chunk sounds as `isChunkSpeaking` says `=> (V!Spec => []V!Confirmed)` (`Vad`) | `VadInv`: the one counter is the number of loud chunks in a row until speech has started, and of quiet ones after that |
| `CommandsInOrder` | `FifoAssumption => (F!Spec => []F!HandledInOrder)` (`UserFifo`) | all bytes the pipe ever took are one stream of frames; what is in the daemon's buffer and in the pipe is its end (`Placed`), from a place in a frame `lo` up to which the handled texts come from; the texts found in a part of the stream are those of the frames that lie in it whole (`TextsAre`), and while no buffer was full and no byte vanished every boundary is the end of a frame |
| `LibraryHandles`, `LibraryReads`, `LibraryConfirms` | the last five for `LibrarySpec`, which the run checks: `[]HandledInOrder`, `[]BytesInOrder`, `[]Confirmed` | a step of one part leaves the variables of the others alone (`PartsStep`) |

`ListLemmas` holds what they share: the largest number of a table, `RemoveAt`, `Tail` and `Append` on lists without
repetitions, `Cons`, `Front` and `Reverse` of a deque, an element that goes from one
list to another, parts of a list, the first place of an element, sizes of disjoint sets,
quotients and multiples.

Assumptions on constants are those of the modules: `ThreadsFinite`, `MaxCountType`,
`CallsType` and `MaxPushType` of `MTQueue` (`MaxCountType` excludes a capacity of 0, for
which the code is undefined); `MaxAssumption` of `AnyStream` and `ClipsAssumption` of
`RtspClips` (more than one entry); the `PlayerAssumption` of `RePlayer` and `BoxAssumption` of
`CPPBox`, which is those of its two programs;
`ServerAssumption`, `RtmpAssumption` and `UartdAssumption` (a read returns at least a byte
and no more than the buffer holds). The others are hypotheses of the theorems, and true in
the runs: `TestAssumption` (which thread of the copy calls what), `PullAssumption`, `SendAssumption` (the width
of the counters is more than twice the size, as it is with 64 bits), `MaxFd \in Nat \ {0}`,
`RingsAssumption`, `AutomAssumption`, `VadAssumption`, `FifoAssumption` (a pipe takes the
longest frame; the buffer has any size), `PkgAssumption` (finitely many packages),
`SplitAssumption` (a head has a byte, and a piece too), `ChunksAssumption` (chunks have a
byte, and the time that means a longer one is more than the difference of two times, which
is 1 in the model) and `Base64Assumption` (files are
bytes, a full block leaves one byte over as 16 does, some digits are figures and some are
not, and the part of `getline`'s buffer that is looked at holds a line). Two hypotheses are more than types:

* `Suits`: the writer of a `csrb` or `shrb` asks for one size only, and no read needs
  more bytes behind the end than one write repeats there, which is so when the sizes are
  as `csrb.h` asks. Without it the statement is false (see "What the runs show").
* `isChunkSpeaking(chunk) = Heard(chunk)`: that the code's sums and divisions find what
  share of a chunk is loud is induction over the chunk. TLC evaluates both hypotheses for
  the values of `MCLibrary`.

Only model-checked: every liveness property (liveness under fairness and
ENABLED are beyond the prover), and one invariant. `MessagesSurvive` of `AmfValues` says
what the codec's recursion over nested values computes: that is induction over data, which the
provers cannot apply, and `Amf` has RECURSIVE operators, with which tlapm loses its SMT
backend. Where a proof here needs an induction over numbers, it takes the least number for which
the statement would fail: a recursive function over quanta (`TableIs`, `Flattened`), the
rounds of the chunk parser (`RoundsAre`, `RoundByRound`).

## Plan

Done: the queue, its programs and their proofs; RePlayer and the sound devices;
RtspPullHandle in all versions that compile; SockServer; uartd; rtmpServer with its
chunk parser and codec; the servers, the pipe, the rings, the buffer and the detector of `lzUtils`;
the sequential tools; safety theorems of every threaded program and of all sequential ones but AMF.
Left, in this order:

1. An abstract byte FIFO that `Rings` implements under a refinement mapping.
2. The volume functions of `alsa_ctrl`.

## Not modelled

* Timers and semaphores (`trd_timer`, `user_timer`, `px_timer`, `px_sem`): wrappers
  without a caller in the repository; how they are used would have to be invented.
* `common/un_fifo.c`, an older `un_fifo_ops` that nothing includes; `slog` and the
  wrappers of `fd_op`, `fp_op` and most of `misc.c`, which keep no state.
* `RtspPullHandle/src-v0.55`, which includes a header that does not compile, and
  `src-v0.6`, which frees a packet that it copied by value.
* Parsing of requests in SockServer: the outcomes are choices. A second signal during RtPlayer's
  handler, which RePlayer shows. A chunk size of 0, which a peer of rtmpServer may announce
  (main.cc:471) and with which `rtmp_send` never ends: `ChunksAssumption` asks for a byte. A peer of rtmpServer
  that breaks off a message for another one on its channel, or begins a channel
  without a full header.
* Creating and attaching the memory of the rings; setting up the serial line; volume,
  abort and prepare of `alsa_ctrl`, which no program calls.
* `RtspStorage`, `ffbox`, `curlBox`, `mkMp4`, `pushStream`, `ffapp`: fixed sequences of
  calls into FFmpeg and curl. CPPBox's dispatchers, Makefiles and scripts.
* Memory exhaustion: the code cannot see it (`new` throws).
