# Verification of the bleOnSTM32 firmware

TLA+ models of the firmware in this repository (STM32 NUCLEO-F103RB, mbed and
RTX), checked with TLC and, where a result should hold for every size, proved
with TLAPS. The firmware talks a small framed protocol over a Bluetooth UART:
an interrupt and a thread receive characters, a thread runs the handlers, and a
shell thread sends commands and waits for answers.

To run: `tlc -config EventList_Safety.cfg MCEventList.tla` (and so on, see
*Runs*), `tlapm EventListProofs.tla`.

## 1. The system

| Component | Source | State | Operations |
|---|---|---|---|
| Linked list | `list/list.c` | `list_t`: head, tail, a pool of 16 links, count | `listAdd`, `listRemoveData`, `listRemoveAll`, `listCount`, `listGetAt` |
| Frame format and receiver | `protocal/protocal.c` | last four characters, parser status, type, length, command, checksum, `buffer[32]` | `protocalMakePackage`, `protocalCheckHeader`, `protocalUartReceiveChar`, `protocalReset` |
| Event pool and dispatcher | `protocal/protocal.c` | `eventPool[8]`, `eventStack` (a list) | `protocalPushEvent`, `protocalDispatchEvents` |
| Query and wait | `protocal/protocalApi.c`, `protocal.c` | `waitingStat`, `waitingCmd`, `replyErr`, `replyLen` | `protocalApiQueryWait`, `protocalSendCmdWait` |
| Sending | `protocal.c`, `protocalApi.c`, `main.cpp` | `package[32]` | `protocalSendCmd`, `protocalApiSet*`, `electronicVehicleSendData` |
| Internal commands | `protocal/protocalInternal.c` | `connectionStatus` | `protocalPreprocessCmd` |
| Vehicle commands and data | `electronicVehicle/`, `electronicVehicleCustom/` | `evCustomData` | `onCmdQuery`, `onCmdSet`, getters and setters |
| Threads and interrupts | `electronicVehicleThread/`, `main.cpp` | a `Queue` of 20 characters | `rxInterrupt`, `uartThread`, `timerThread` |
| Shell and its commands | `shell/`, `commands/commands.cpp` | line buffer, a `Queue` of 20 characters, table of commands | `getLine`, `process`, `findCommand`, `cmd*` |
| Trace, utilities | `util/` | none that matters | blocking `printf` |
| Not built | `commands/sensors.cpp`, `PID/`, `mpu6050Dmp/` | | not in the Makefile |
| Queue | `mbed-rtos/rtos/Queue.h`, RTX's `rt_Mailbox.c` | ring of messages, the waiting thread, the request of the interrupt | `put`, `get` |
| Vendored | the rest of `mbed-rtos/`, `mbed-src/`, `tools/` | | RTX, HAL, CMSIS |

How they interact. The receive interrupt puts each character into a queue; the
*uart thread* takes it out and calls `protocalUartReceiveChar`, which completes
a frame with its last character. The frame is an acknowledgement or an answer
somebody waits for (it is then left in `buffer` and `waitingStat` is changed),
or it becomes an event: copied into the pool, its address put into the list.
The *timer thread* takes one event from the list every 10 ms and runs its
handler, which may send, or passes what came with type `CMD_TYPE_ROUTER` on to the
line as it is. The *shell thread* sends, or sends and waits. The three
threads have one priority and RTX switches between them every 5 ms wherever
they are. The program has no mutex: the list, the pool, `waitingStat`, the
parser and the package are shared as they are.

What is hard, and what makes each part correct:

* **List.** Pointers, used marks and count tell the same story after any
  sequence of calls; nothing leaks; it is a FIFO. Two threads use it.
* **Receiver.** A lost or changed byte costs the frame it was in and no other;
  nothing wrong is accepted; the buffer is not overrun although the length in
  the frame is trusted.
* **Pool and dispatcher.** Two data structures, written by two threads, must
  agree on which events are in use; every message is handled once, whole, in
  order.
* **Query and wait.** A call returns; it succeeds only with the answer to its
  own question; it leaves nothing behind that disturbs later traffic.
* **Sending.** What is sent is what was made, though two threads use one buffer,
  and nothing is sent that a waiting query has forbidden.
* **Queue and shell.** No character is lost while there is room, none is left
  behind in front of a sleeping thread, and each line runs the command it says,
  whatever came while an earlier one ran.
* **Command handling.** A query is answered, also while the device itself waits.

The complete list of hazards, each at its line, is `hazards` in `PROJECT.json`.

## 2. Modules

| Module | Models |
|---|---|
| `EventList` | `list.c` for one thread; loops one action an iteration |
| `EventFifo` | what the list promises: a bounded FIFO with deletion |
| `EventListProofs` | theorems about `EventList` |
| `Frames` | the bytes of a frame |
| `FrameReceiver` | `protocalUartReceiveChar`, one call an action `ReceiveChar(ch)` |
| `FrameLink` | a peer that sends frames, a line that loses and changes bytes, the receiver, a dispatcher |
| `FrameLinkProofs` | theorems about `FrameLink` |
| `LossyLink` | what the line promises, in terms of messages |
| `EventPipeline` | `protocalPushEvent` and `protocalDispatchEvents` as whole calls |
| `EventQueue` | what they promise: a bounded queue of whole messages |
| `EventPipelineProofs` | theorems about `EventPipeline` |
| `EventThreads` | the same two functions, with `list.c`, one statement a step in two threads |
| `EventThreadsProofs` | theorems about `EventThreads` |
| `QueryWait` | `protocalApiQueryWait` against the uart thread, one read or write of a shared word a step, with the buffer the reply is copied from |
| `QueryWaitProofs` | theorems about `QueryWait` |
| `SendPath` | `protocalSendCmd`, `protocalSendCmdWait` and `electronicVehicleSendData` of shell and timer thread on one buffer, one statement a step, and the bytes of `CMD_TYPE_ROUTER` events |
| `SendPathProofs` | theorems about `SendPath` |
| `SerialQueue` | what a thread expects of the queue that an interrupt fills |
| `Mailbox` | that queue as RTX has it: ring, deferred request, waiting thread |
| `Shell` | `shell.cpp` on top of `Mailbox`: interrupt, line editor, words, lookup, call |
| `ShellProofs` | theorems about `Mailbox` and `Shell` |
| `Devices` | two devices that run this code, one whole call a step but for the loads and stores of `waitingStat`: commands of the users, `protocalSendCmd`'s busy test, the waits of a query, receiving, dispatching, `protocalInternal.c`, `electronicVehicle.c` |
| `DevicesProofs` | theorems about `Devices` |
| `MC...` | the instances TLC checks |

They fit together by refinement rather than by one large composition.
`EventList` implements `EventFifo`; `EventPipeline` uses a bounded sequence
where the code uses the list, which that justifies, and implements `EventQueue`;
`FrameReceiver` uses a bounded queue where the code uses pool and list, which
that justifies, and `FrameLink` implements `LossyLink`. `EventThreads` and
`QueryWait` take the calls apart again and show what is left of these promises
when the threads are switched anywhere. `Devices` goes the other way: it takes
a frame or an event as a step, a queue of messages for pool and list, and a line
of frames that may be lost, and looks at two devices in dialogue; of the races
of their threads it keeps those for the bits of `waitingStat`. `SendPath` is the
sending side of `QueryWait` with the package in full and the waits in outline.
`Shell` extends `Mailbox`, which implements `SerialQueue`, alone and composed.

Correspondence to the code. Variables have the names of the C fields; `order`,
`sent`, `delivered`, `accepted`, `handled`, `taken` and the like are history
variables and are marked so. A pointer to a link or an event is its index in
the pool, from 1, and `NULL` is 0. Actions are named after functions, or after
the case of the `switch` or the statement they are. `PROJECT.json` maps each
definition to its lines. Operators whose comment begins with *Mutant* are
plausible mistakes; each property is seen to fail when one of them takes the
place of the definition that follows it.

Abstractions. Commands and data are small values where no property looks into
them, but bytes in the modules on frames. Traces are left out except that they
take time. In `FrameReceiver` a call is atomic: only one thread makes it.
In `QueryWait` a frame arrives in three parts (header, body, checksum) and
`protocalReset` is one step (in `Devices` it may cost the frame that is next to
arrive); in `EventThreads` buffer and `buffSize` of an
event are one field, and the handler reads `cmd` once and then the data. In
`QueryWait`, `SendPath` and `Devices` every bit of `waitingStat` is set and
cleared with a load and a store, as in the code. `SendPath` has the waits in
outline: a loop ends when its bit is cleared or, at any time, by its count. The
acknowledgement `protocalAck` would build in the uart thread is not there: it is
called with result 0 only and returns at once. The users and the phone of
`Devices` send no `CMD_TYPE_ROUTER` frames. In `FrameReceiver` the status
`"overrun"` stands for everything after a byte was stored behind `buffer[32]`: the
code writes on over `cmdSize`, `bufferIndex`, `package` and the pool, and what
becomes of that is not followed, so what is said of more than one fault is said
up to there. What the C standard leaves open is a choice (in `GetFirst`
the local pointer that `listGetAt` did not set is any event or none) or the end
(`"fault"`: a write through NULL). In `Shell` characters are named for what the
editor does with them, `line` is the text before the terminating NUL, and a
command takes as long as it likes.

One fact of time is used in `Mailbox`: the kernel works off the interrupt's
request (a few microseconds) before the next character comes (87 us at 115200
baud), so there is at most one. It matters: `rt_mbx_check` counts the stored
messages and not the requests, and with two requests for the last free place the
second would end in `os_error`, which stops the firmware. The model has no step
there, so the run's `InputIsConsumed` would fail.

## 3. Runs

| Run | Bounds | Shows |
|---|---|---|
| `list` | 4 links, 2 values | type, form, completeness of removal, no leak, FIFO refinement, termination |
| `link` | streams of 3 frames, some with 24 bytes of data, one a frame in a frame; 1 event; 1 lost or changed byte, one of the values a length beyond the buffer | undamaged frames arrive once, in order, with their contents, or are refused, for as long as nothing is stored behind `buffer[32]`; nothing is while no message repeats the header |
| `pipeline` | 3 events, list of 3, 2 types, 2 bodies | pool and list agree, queue refinement, drains |
| `threads_outside_windows` | 2 events, 3 links, 4 messages | all is well if no switch falls into a window |
| `query_calls` | 3 frames, 2 bytes of buffer and reply, 2 waits, calls at any time | a call returns; a success leaves no wait; a call that began while the uart thread was clearing no bit of the one before succeeds only with an answer, and copies that answer |
| `devices` | a vehicle and a phone, 3 commands, 1 event each, 1 lost frame | the dialogue comes to rest; sending is refused only after a failed query |
| `send` | 3 calls, of a setting, a query, an answer and a routed event of different lengths | all indices stay in `package[32]`; a call that is not interfered with sends its own frame; `protocalSendCmd` sends one package of the timer thread at most while QUERY stays set |
| `shell` | queue of 2, line of 5, inputs of up to 9 keys | queue refinement, nothing left behind, the right commands with the right arguments |

and these, in which TLC is expected to find the property violated:

| Run | What the code does |
|---|---|
| `threads_event_window` | an event is released before it is read: `HandledInOrder` |
| `threads_list_windows` | list operations of two threads overlap: `EveryMessageHandled` |
| `query_lost_frame` | a timeout resets the parser in the middle of a frame: `EveryFrameIsReceived` |
| `send_mixed` | two calls build in one buffer: `FramesAreWhole` |

What else the models show of the code. A query that ended with an error or a
timeout returns with QUERY still set (`protocalApi.c:204`): the next setting is
swallowed though nobody waits, `protocalSendCmd` is busy until then, and the next
query waits for its whole time first; that this comes only of a query that failed
is `RefusesOnlyAfterFailure`. The shell takes ACK back when it gives up
(`protocal.c:198`), but a uart thread that has loaded the word before, to clear
QUERY, stores ACK again; then nothing ever clears it, every later query times out
at its busy test and `protocalSendCmd` refuses for good. QUERY comes back, too:
the shell's store of ACK (`protocal.c:183`) undoes the uart thread's, so one query
may take two settings for answers. `waitingCmd` is stored and never read, so a
setting of any command is taken for the answer.

A setting that comes between the setting of QUERY and of ACK is taken for the
answer, and the uart thread may store back a word it loaded before ACK was in
it: the call succeeds unacknowledged; `QueryWait` and `Devices` contain these
behaviours, and so no property says that a success was acknowledged. And a uart
thread that is late with the store that ends one query may do it in the next: the shell does
not sleep between two calls when the next line was typed ahead
(`shell.cpp:273`), the stale store wipes QUERY and ACK of the new call, and it
succeeds with what an earlier frame left in the buffer.
`SuccessNeedsAnswer` and `ReplyIsTheAnswers` are therefore about the calls that
are `fresh`: at some time before they set QUERY the uart thread was clearing no
bit. `replyLen` is stored after the bit that announces it, and the buffer is the
parser's: `ReplyIsTheAnswers` further excepts exactly the call that looks between
those two statements and the call during which the next frame has begun.

**Why the bounds are enough.** Four links hold a head, a tail and two links
between, so that equal values can be adjacent, apart, at either end or
everywhere. Three frames are one before, one in and one after the damage; a
message that repeats the header, a length of zero bytes and the greatest length
are among them. The number of faults matters: two changed bytes of one frame
can cancel out in a sum modulo 256, and the receiver then accepts the frame;
that is the format's limit, and the run is about single faults. With one event
a frame also follows one that a full pool refused.
`NeverOverruns` is a statement about isolated faults and messages that do not
repeat the header: after one wrong length the code reads on into the next frame,
and the last character of that frame's header ends it when `bufferIndex` is 32 at
most, one behind the buffer, so that this character is not stored. A second fault
in that header would let the code write on. So does a message that looks like a
frame in a frame, which ends its own frame and gives the inner one a length
beyond the buffer: behind it a lost byte of the next header is enough, and the
stream with `SetFrame` gets there.
In the thread modules two events and two messages are enough for the thread that fills and the thread
that reads to meet on one event, and for a list of one and of two links.
Waiting twice in place of 102 times does not change
what can happen between two looks at `waitingStat`. In `devices` three commands
are two queries that cross, or fail one after the other, and a third command that
meets what they left; one event a device makes the pool overflow. Within these
bounds both devices can end up with QUERY set, each waiting for a setting that
the other one refuses to send, and a bit can come back that was taken back. In `send` three calls are the two that mix, or a query and the answers and routed
bytes beside it, and one after them, which finds what the mixture left in `package` and
`packageSize`; the messages differ in length, so each size is once the larger. In
`shell` a queue of two wraps, is empty and is full; a line of five holds a
command, a blank and an argument, and is too short for more; the inputs hold
empty, erased, cancelled and over-long lines, an unknown name, too many
arguments, a name that extends another, and lines typed while a command runs.

**Deadlock** is checked where the system does not stop: `FrameLink`,
`EventThreads` and `Devices` have a step `Done` for the end of a bounded run, so
that stopping anywhere else is an error. It is off where a thread may fault
(the violation runs) and in `QueryWait`, `SendPath` and `Shell`, where the peer may
simply stop and the user type nothing more; that nothing is then left undone is
`QueryReturns` and `InputIsConsumed`.

**Fairness.** `EventList`: a call that has begun goes on, nothing in it waits.
`EventPipeline`: the timer thread calls the dispatcher every 10 ms.
`EventThreads`: threads of equal priority share the processor round-robin, so
each of the two that can run does. `QueryWait`: the same for the shell in a call
and for the uart thread with a frame complete; nothing is assumed of the peer or
the user. `Devices`: the threads of both devices run, also one that stands between a load
and a store, and a frame on the line arrives or is lost; a waiting call may time out before or after its answer
comes. `Shell`: the kernel follows the interrupt, the shell thread gets its turns,
and a command returns, which is `QueryReturns`. One more fact of time is used in `QueryWait` (`owed`): `pfnWait`
sleeps for 10 ms and a slice is 5 ms, so a uart thread that has work when the
shell goes to sleep finishes that work before the shell is back. It is used for
the sleeps of `pfnWait` inside a call and for no others: between two calls the
shell may not sleep at all.

## 4. What is proved

`EventListProofs` (any pool size, any set of values):

* `TypeCorrect`, `ListWellFormed`: `TypeOK` and `WellFormed` always hold.
* `RemoveIsComplete`: `listRemoveData` leaves no occurrence.
* `AddRefusesOnlyWhenFull`: no sequence of calls leaks a link.
* `Refinement`: the list implements `EventFifo`.

The inductive invariant (`IInv`) is `TypeOK`, `WellFormed` and `LoopPosition`
together. None of them is inductive alone: `RemoveMatch` keeps the chain only
if `plinkPre` is the link before `plink`, which is `LoopPosition`; that in turn
needs the chain to move on; and `count` stays in its type only because it is
the length of the list, whose links are distinct members of the pool
(`ListedOnceFits`, by cardinality). `AddRefusesOnlyWhenFull` is the other half of
that argument: all links used and listed once means the list has `PoolSize`
of them (`AllListedIsFull`). Refinement maps `contents` to the data in list
order; a step of the loop is a deletion or a stutter.

`EventPipelineProofs` (any number of events, any messages, a list at least as
long as the pool):

* `TypeCorrect`, `PoolAndListAgree`: `TypeOK` and `PoolMatchesList`.
* `Refinement`: pool and list implement `EventQueue`. The invariant gives that
  a free event is not listed, so filling it changes no waiting message, and
  that the first event is listed once, so removing all its occurrences is
  removing the first.

`DevicesProofs` (any commands, any number of them, any losses, both threads of
a device switched between the load and the store of any bit):

* `RefusedOnlyAfterFailure`: `RefusesOnlyAfterFailure`. `Race` says of each device
  what the word and the copies of its two threads may be: the uart thread's copy
  is part of the word, so that its store only clears bits, except after a call
  that gave up, where the word is {QUERY} and the copy may bring ACK back
  (`UartOnlyClears`); and the shell's copy covers the word while ACK is set, and
  has lost nothing but ACK when it is taken back (`ShellKnows`). A call that
  passed its busy test or ended well found or left the word empty, and then so
  is the uart thread's copy. The weaker statement is the true one: after a
  failure a bit of either kind may stay for ever.
* `TypeCorrect`: `TypeOK`, with a bound on the pool of events.

`QueryWaitProofs` (any frames of the peer, any sizes and number of waits):

* `QueryTypeCorrect`: `TypeOK`. The loops keep to their counts, and the copied
  length to the buffer and to the caller's variable.
* `SuccessIsAnswered`: `SuccessNeedsAnswer`, and `SuccessIsClean`:
  `SuccessLeavesNoWait`. The second holds for every call, the first for the fresh
  ones. The hard part is the window between a load and a store of `waitingStat`.
  `Race` says what the word and the threads' copies of it may be: the uart
  thread's copy can only clear bits, except where it brings ACK back after a call
  gave up (`UartOnlyClears`, `Between`), and then the word is {QUERY} and no call
  passes the busy test; the word is known at each place of the shell
  (`ShellKnows`); a uart thread that is still clearing ACK of an earlier call when
  QUERY is set does not occur in a fresh call (`FreshStart`); and so QUERY goes
  only when a setting is taken (`AnswerAwaited`). No sleep is needed for any of
  it.
* `ReplyIsAnswered`: `ReplyIsTheAnswers`. The invariant `Contents` adds that the
  buffer holds the frame at hand from its body on (`ParserFilled`), and after the
  step that takes the answer keeps that answer, with its length once it is
  stored, until the header of the next frame (`AnswerInHand`, `Taken`).

`FrameLinkProofs` (any streams of messages; `LinkAssumption`: fields and data are
bytes, and the data fits into an event):

* `TypeCorrect`: `TypeOK`, for any number of faults and any changed bytes. Up to
  the first byte behind the buffer the parser's fields keep to a byte, its index
  to the buffer or one beyond, the waiting events to the pool, and no frame is
  pushed that was not sent.
* `EveryIntactFrameArrives`: `IntactFramesArriveUntilOverrun`, for any number of
  faults. The invariant is `Framing`, kept as long as `InBuffer` holds: what is
  left of a frame on the wire is its end, and the next frame is whole
  (`WireInOrder`); behind the header of an undamaged frame the parser is where
  that frame was left, with its length, its data in the buffer and the sum of
  what it has read (`Tracks`); and what left the wire whole is in the history
  (`Arrived`). It holds because a header is recognised wherever it comes, so that
  the state the damage left is forgotten with its fourth character.
* `OneFaultNeverOverruns`: `NeverOverruns`, with `MaxFaults` at most one and messages
  that do not repeat the header; both are needed (see the bounds above). The
  invariant is `Budget`: the characters the parser took since it was told that a
  type comes, and those it may take before an intact header is complete, are
  never more than 35, which are three fields and 32 data bytes. With it go that only one frame
  is damaged (`Apart`), and where the parser is before the fault (`Between`).
* `OneFaultIntactFramesArrive`: `IntactFramesArrive` with no condition, from the two
  before it, for one byte lost or changed into any other.

`ContentsAreGenuine` and `ImplementsLossyLink` are model-checked with the messages
of the run. For every message they are false as soon as there is a fault: an
eight-bit sum can be right by coincidence when the damaged length makes the
parser stop early or read on into the next frame.

The checksum is a recursive function; `CheckSum` of every sequence of bytes
is found by taking the least index at which a statement fails (`SmallestExists`,
from the library's theorem that `<` is well-founded on `Nat`). `SendPathProofs`
needs the same of a package that is built, with `Sums` for the loop's `sum`.

`EventThreadsProofs` (pools of any size, any messages):

* `ThreadsTypeCorrect`: `TypeOK`, for every set of switch points, so also for the
  firmware's, which is all of them.
* `ThreadsHandleInOrder` and `ThreadsLeakNothing`: `HandledInOrder` and
  `NothingLeaks` hold, wherever the scheduler switches, unless one of two things
  happens (`Apart`): both threads are inside the statements of `list.c` that touch
  shared links at once, or the event that the dispatcher has released and still
  reads is allocated again. The runs `threads_list_windows` and
  `threads_event_window` show that each of the two does harm; the theorems say
  that they are all that does. A lock around `listAdd` and `listRemoveData` and a
  release after the last use would exclude both, and nothing else needs one:
  switches where a link is sought, while an event is filled, between removal and
  release of an event, and while the timer thread walks on from a link it has
  given back do no harm, whatever the pools and the messages.
  The invariant `Together(q, taken)` says which links q the list holds and
  whether the timer thread has taken its event out: the fields of the list
  describe q, up to the statements that are still to come (`Chain`, `Tail1`,
  `Counted`, `Used`); each thread is where q allows (`UartPlace`, `TimerPlace`);
  every event is in the list, in the hands of one thread, or free
  (`EventsKept`); and the accepted messages are the handled ones, the taken one,
  those in q and the one being filled, in this order (`MessagesKept`). Nothing
  smaller is inductive: that listed events differ needs the free mark of each,
  which needs to know who holds it. That `listFindEmptyLink` always finds one is
  by cardinality: the used links inject into the events other than the uart
  thread's. With Together, `q` at rest is a bijection between
  its indices and the used links, and so are its data to the used events.

`SendPathProofs` (any messages, any number of calls):

* `SendTypeCorrect`: `TypeOK`. The invariant bounds an index by where its
  thread is (`Sized`) and says that a size of at least eight has been stored
  before anything is sent (`SizeStored`); without it the last byte of a package,
  which ends the loop, might never come.
* `QueryIsHardlyDisturbed`: `AtMostOneBesideQuery`, for as long as QUERY stays set,
  also if a store that undoes another thread's has set it again. The package that
  may still go out is the one past the busy test (`InFlight`), and while it is
  none has gone; a package that goes out with QUERY set is the last until the bit
  is cleared. Routed bytes are not counted, since nothing keeps them back.
* `AloneIsSentWhole`: `UndisturbedFramesAreWhole`. The other thread is outside
  the building of a package as long as one is alone (`OthersKeepOut`), so what
  that one stored is still its own (`AloneBuilds`): the bytes up to where it is
  (`KeepsBytes`), in `sum` those it has been over (`KeepsSum`), and the size
  (`KeepsSize`). The header is never stored again (`HeaderStays`). What is in
  the rest of `package` does not matter, and nothing is assumed of it.

`ShellProofs` (any size of queue, any keys, any line length and
table of commands):

* `MailboxTypeCorrect`, `ShellTypeCorrect`: the ring's indices, `count` and the
  line keep to their arrays.
* `MailboxRefinement`, `ShellRefinement`: `ImplementsSerialQueue`. The invariant
  says that `first` is `count` places after `last`, that a thread waits only on
  an empty ring, and that an outstanding request finds room.
* `ShellRunsWhatWasTyped`: `RunsWhatWasTyped`. The invariant (`LineInv`) says that
  `line` is the edited rest behind the last end of a line (`LineOf`) and `called`
  the calls of the ended lines (`CallsIn`) of what the thread has worked off. A key
  that ends no line is edited into the one (`KeyIsEdited`), a key that ends one puts
  its calls behind the other (`EndIsCalled`), and no other step moves either
  (`ConsumedStays`). Two lemmas join code and reference: `StrtokIsWords`, that the
  recursion of `_strtok` gives the maximal runs without blanks of every string, and
  `FindIs`, that the first match of the table is the least one. What a recursive
  function computes for every input is shown here without an induction theorem:
  where a statement failed, it would fail at a least number (`LeastExists`,
  `UpTo`), and a function that meets the recursion is exhibited (`TokensAre`,
  `EditsBy`, `Flattens`).

Assumptions: those named in the modules and nothing else. `PoolSize` and
`EventNum` are positive, the list holds at least `EventNum` (16 and 8 in the
code), and no peer sends the frame type 0, which the pool uses for *free*.
`CMD_TYPE_*` start at 1 and every sender of this code uses one of them; with a
peer that sends 0 `PoolMatchesList` would not hold.

Only model-checked: liveness (`CallsReturn`, `FullPoolDrains`,
`EveryMessageHandled`, `QueryReturns`, `ComesToRest`, `InputIsConsumed`), which is
out of the prover's reach, and `ContentsAreGenuine` and `ImplementsLossyLink`, which
no proof for every message can give. Of `EventThreads` nothing is proved beyond
`TypeOK` once its threads have collided: two runs show that its properties fail
then.

## 5. What is not modelled

* **Vehicle data** (`electronicVehicleCustom.c`): getters and setters of one
  structure. A model would repeat one assignment a function. The exception is the
  mileage getter, which counts up what it returns: asking for the mileage changes
  it, and `mile++` in the timer thread against a store of the shell thread can
  lose a mileage that was set. It is listed as a hazard without a property.
* **Commands that print** (`help`, `arg`, `jok`) and what `atof` and `atoi` make
  of an argument. A command typed without its argument calls them with NULL: in
  the model, a call with no arguments.
* **Start-up** (`main`, constructors, callbacks that are set once) beyond the
  initial states.
* `util/` (formatting and printing); sensors, PID and `mpu6050Dmp` (not built).
* **Vendored code**: `mbed-src/` (HAL, CMSIS), `tools/` (the compiler with its
  headers) and all of RTX but the mailbox. The scheduler, the sleep and the UART are
  used as documented. This is nearly all of the repository by lines: the program
  proper is some two thousand, so that a complete model of it maps a small
  share of the tree.

What could follow: the two UARTs' `putc` when its register is full, which the
HAL decides; a bound on how many
messages the races of `EventThreads` can cost.
