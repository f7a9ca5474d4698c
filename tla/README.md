# A model of the Pico W WebSocket server

TLA+ modules, TLC configurations and TLAPS proofs for the program in `src/`: a
Raspberry Pi Pico W that accepts a TCP connection through lwIP's raw API, runs
a *task* on a stack of its own that reads an HTTP request in blocking style,
serves a page or upgrades to a WebSocket, and then answers one-byte commands in
WebSocket frames. The interesting code is what lets a blocking task live among
callbacks: the I/O task lock, the callbacks that wake the task, the task's
waits, and the framinator, which builds WebSocket frames in a ring buffer that
TCP sends from without copying.

## Inventory

| Part | State | Operations | Talks to |
|---|---|---|---|
| I/O task lock (`iol_lock.c`, `.h`) | `global_core_lock`; per object `locked`, `waiting_reason`, `active_err`, `waiting_task` | `iol_task_run`, `iol_notify`, `iol_continue`, `iol_trylock`, `iol_unlock` | runs the task by `sub_task_run`/`sub_task_continue`; asks `check_reason` of its user |
| Sub-task switch (`sub_task.S`, `.h`) | a stack and its saved stack pointer; a trap word when the task has ended | `sub_task_run`, `_continue`, `_yield`, `_reset` | called by the lock (run, continue), by the task (yield), by accept (reset) |
| Client connection (`testing.c` 95-353, 606-807) | `printed_circuit_board` (the pcb), `p_current` and `recved_current`, `notify_ack`, `ack_callback` | callbacks `tcp_cli_con_recv`, `_sent`, `_err`, `tcp_server_accept`; task-side `ws_read`, `ws_peak`, `ws_consume`, `ws_t_read`, `ws_t_peak`, `ws_t_write`, `ws_t_write_barrier`, `ws_cli_con_close` | lwIP; announces every change with `iol_notify` |
| HTTP/WebSocket task (`testing.c` 355-604) | its place in `do_ws_header`, the key, `websocket_upgrade` | request line, header fields, answer, command loop | the connection's blocking calls and the framinator |
| Framinator, write side (`websocket_framinator.h` 141-425) | `buf`, `head`, `tail`, `current_marker`, `current_payload_len`, the markers in the buffer | `websocket_write`, `_flush`, `websocket_complete_and_send_frame`, the acknowledgement callback, initialisation | `ws_t_write`; called back from `tcp_cli_con_sent` |
| Framinator, read side (427-552) | `read_length`, `read_mask`, `read_lastOp` | `websocket_read`, `websocket_apply_mask` | `ws_t_read` |
| Bufferless strings (`bufferless_str.c`) | the selector's list index and position | select, reset, base64 encode and decode | the header parser |
| Bring-up and main loop (`testing.c` 809-end) | link status, UART command | initialisation, LED, statistics | the SDK |
| Page, build files, library configuration, `Scraps.S` | none | none | none |

How they interact: lwIP calls a callback; the callback changes the connection
and announces one or several reasons with `iol_notify`; when the task waits for
that reason the callback's own thread continues the task, which reads and
writes the connection, calls lwIP, and yields with the next reason; the lock
stores that reason, releases itself, checks whether the reason already holds
and, if so, continues the task again. A task therefore runs *inside* callbacks,
and a callback that announces three reasons may run the task three times.

What is hard here, and hard to test:

- the order of announcements within one callback against the reason the task
  waits for by then (the `FIXME` at `testing.c:677`);
- what the task knows is stale after a yield: the pcb, the send-buffer space,
  the ring's tail;
- errors, which are announced like data and are then sticky, and must bring
  every wait of the task to an end;
- the lock itself, once more than one interrupt level or core calls it;
- the ring: four cases of head and tail, acknowledgements of any length, and
  arithmetic in `size_t`;
- the end of a task: its result is stored as a waiting reason, and its stack
  must never be continued.

What makes each part correct:

- *lock*: one context at a time on the task's stack; the lock is neither leaked
  nor stolen; no event is lost between the task's last look and the unlock; an
  ended task is never continued; a task whose reason came true runs.
- *connection and task*: a lost connection ends its task (or every later client
  is refused); a task that waits, waits for something that can still come; no
  write through a pcb that is gone; what the ring counts is what is in flight;
  an answer and a reply come to an end; errors end the task; received data is
  freed.
- *framinator, write side*: frames are sent in the order and with the bytes
  written; unacknowledged bytes are never overwritten; the tail always stands
  on a marker; a flush ends when everything is acknowledged.
- *read side*: the bytes returned are the unmasked payload, whatever the sizes
  of the frames and of the calls; control frames do not disturb a message.
- *sub-task*: a reset succeeds exactly on an ended task; yield and continue
  alternate and leave both stacks balanced.
- *strings*: the selector finds the entry that equals the input however it is
  cut in pieces; base64 agrees with its definition.

`PROJECT.json` lists the components with their status and the hazards, each at
its line, with the properties that cover them.

## Modules

| Module | What it is |
|---|---|
| `IolLock` | the lock, any number of contexts, one step per access of shared memory |
| `IolLockCalls` | the lock with what its promises depend on: have calls overlapped, was the lock taken away? |
| `IolLock_proofs` | types for every interleaving; exclusion until the lock is taken away; no lost wakeup and no continue of an ended task until calls overlap |
| `MCIolLock` | instance for TLC |
| `WsConnection` | the callbacks, the lock as one context runs it, and the task from the request line to the close |
| `WsConnection_proofs` | one inductive invariant and seven theorems |
| `MCWsConnection` | instance for TLC (the lengths of the answers) |
| `Framinator` | the ring of the framinator's write side, in bytes |
| `FraminatorFaults` | the ring until one of the three events it does not provide for |
| `Framinator_proofs` | one inductive invariant of the ring, and that it implements the queue |
| `FrameQueue` | what the ring promises: a queue of frames; `Framinator` implements it |
| `MCFraminator` | instance for TLC |
| `WsRead` | `websocket_read`: frames, masks, fragments, pieces |
| `WsRead_proofs` | one inductive invariant of the reader and the bytes on their way, and three theorems |
| `MCWsRead` | instances for TLC (the frames a peer may send) |
| `SubTask` | the context switch, word by word on two stacks |
| `Coroutine` | what the switch promises; `SubTask` implements it |
| `SubTask_proofs` | types, balance of the stack, and the refinement |
| `MCSubTask` | instance for TLC |
| `HttpHeader` | the header parser with the selector, and the accept key |
| `HttpHeader_proofs` | base64, the selector as a search, one inductive invariant of the parser and four theorems |
| `MCHttpHeader` | instance for TLC (names, values and requests) |

### IolLock

`mutex`, `locked`, `waiting_reason` and `active_err` are the code's. `pc` says
where in `iol_notify`/`iol_continue`/`iol_trylock` a context is: every access
of the mutex or of the lock object is one action (`iol_notify` is the read of
`waiting_reason`, `SetError` the write of `active_err`, `TryEnter`,
`TestLocked`, `SetLocked`, `MutexExit` make up `iol_trylock`, `Resume` and
`TaskReturns` are the two ends of `sub_task_continue`, then `iol_unlock` and
`Recheck`). `task` stands for what the stack of the task holds; continuing one
that is not suspended gives `"crashed"`. The callback's change of the user's
object and the task's use of it are abstracted to `ready`, the reasons whose
condition holds. The field writes at the head of `iol_task_run` are one step.

The program is built with `pico_cyw43_arch_lwip_threadsafe_background`, where
every lwIP callback runs in one context and none interrupts another. The
comments of `iol_lock.c` claim more ("multi-core and/or interrupt"). So
`IolLockCalls` lets any contexts call at any time and remembers two things:
`alone`, that so far no two of them have been in their calls at once, and
`kept`, that `iol_task_run`, which clears `locked` with a plain store as soon as
the last task has ended, has not done so while a context held the lock. What
holds in the build is stated for as long as `alone` is true, what holds for any
contexts for as long as `kept` is.

### WsConnection

Callbacks run one after another, so `turn` says how far the current one is:
`"idle"` (none), `"task"` (the task runs inside it), `"check"` (the task
yielded; `iol_continue` looks again), `"notify"` (announcing what is left in
`pending`). `Recv`, `RecvClose`, `ConnectionError`, `Sent` are the callbacks,
`Accept` is `tcp_server_accept` with the reset and `iol_task_run`; `Notify`,
`Recheck`, `CallbackReturns` are the lock. The actions of `TaskStep` are the
stretches of the task between two looks at shared state; `at` names the place:

    request -> header <-> key;  header -> write <-> writing -> barrier
    -> draining -> init -> frame <-> reply -> acking -> frame;  close -> ended

`err` is what the last yield returned. `"fault"` is a NULL or wild pointer
followed, or an ended stack continued; nothing is said about what comes after.

Abstractions. Received bytes are *items*: a piece of an unfinished line, a line
nobody looks at, the upgrade field, the key, the blank line, a command that asks
for the ADC value. The peer may send any item at any time while it has window.
Send-buffer space and everything in flight are counted in units; a reply frame
is one unit, acknowledged as a whole (the acknowledgement of part of a frame is
a matter of `Framinator`). `frames` counts the frames between the ring's tail
and head. The space of the send buffer is looked at in the same step as the
write that uses it, because the task cannot be interrupted between the two. lwIP
is external: `Sent` acknowledges any part of what is in flight, a connection may
fail or be closed at any moment between callbacks, and `tcp_close` may fail
(result `ERR_ABRT`). `tcp_write` may run out of memory at any call: a
`ws_t_write` of the answer then gives up (`WriteGivesUp`), a reply is in the
ring and not in the send queue (`Reply`). `InitFraminator` has the three
outcomes of the code: the send buffer is in use and nothing is set; it is free
and the callback is set, but `malloc` fails; or the ring is ready. Nobody looks
at which it was. With a NULL pcb the first look is at whatever lies there, so
any of them may happen. What a framinator that was not set up holds
(`"garbage"`) is any value. A client that connects while a task is alive is
refused without any change, so that is no action.

### Framinator

`head`, `tail`, `current_marker` and `current_payload_len` are the code's, in
bytes. `buf` is abstracted to `markers`: at which offsets a marker is stored and
what it says. A copy or a store erases the markers it touches, and old ones stay
in the buffer as they do in memory. `in_flight` is what TCP refers to, as offsets
and lengths. The packing of a marker is modelled by its effect: a scratch length
of more than six bits would run into the wrap flag. The constants of the code's
heuristics are constants of the module; `Minus` is subtraction in `size_t`.

`at` names the place in `websocket_write` or `websocket_flush`:

    idle -> copy <-> space;  copy -> send -> copy | idle
    send -> wrap | snake -> copy | idle;  idle -> flush | empty -> idle

`AwaitSpace`/`SpaceFound`, `WrapAround`, `GoOnBeforeTail` and `Flushed` leave
the four waits. A step between two waits cannot be interrupted, so `Sent` (the
acknowledgement callback) happens only in a wait or outside; after it the task
may be a while in waking, which allows more orders than the code has.
`websocket_complete_and_send_frame` is the operator `CompleteAndSend`, in which
`HandOver` is the `ws_t_write` and the `tcp_output`. The ring is far smaller
than `TCP_SND_BUF`, so `ws_t_write` does not wait in it. With `"refused"` in
`TcpFaults` either call may fail (`MaybeTaken`): the frame is not in flight, or
its payload length is not reset, or both, and the callers go on, since none
looks at the result. `FlushEmpty` is the flush with no payload, which sends
nothing and waits all the same (`"empty"`, to tell the two waits apart). An
acknowledgement of several frames has the effect of one for each, in a row, and
is modelled so; `"partial"` in `TcpFaults` adds those that end within a frame.
When the callback meets no marker, or one of fewer bytes than are acknowledged,
it reads or goes round on whatever the buffer holds: `"astray"`.
`ConnectionLost` ends whatever waits; what an application calls afterwards is
not modelled. `FrameQueue` sets no limit to what is in flight: that it fits the
buffer is `FramesKept` with `TypeOK`.

`FraminatorFaults` adds `intact`: none of three events has happened yet. TCP
does not take a frame (`Refused`); it acknowledges part of one
(`PartAcknowledged`); or the wait at line 364 lets a frame begin whose head
stands on the tail (`OntoTail`). All three are in the model and in the runs; the
first two come from TCP and the third from the code itself, and each is followed by
states in which the ring has lost its order. The properties of the ring are stated
until the first of them, and `con_reply_lost`, `ring_partial_ack` and
`ring_full` show what comes after each.

`SizesAssumption` has the code's static assertions and what its heuristics
take for granted: a buffer of whole words with room for two long headers, and a
`NotWorthIt` of at least a header and a marker.

### WsRead

One action for each place where `websocket_read` has got what its `ws_t_read`
asked for: `Payload`, `Header`, `Length16`, `Length64`, `Mask`, `Skip`, and
`Opcode`, which reads nothing; `Take` is `ws_t_read` itself, in as many looks as
the bytes need to arrive. `Wanted` says how much is asked for at each place. A
byte is its place, byte k of frame i: what it stands for (`KindOf`,
`LengthByte`, `MaskByte`) follows from the frame the peer sent. `Unmasked` need
not compute an XOR: a byte is right when the mask byte taken off is its own, and
`InOrder` asks that each byte given is the one after the byte before it
(`Follows`). `MaskOn` and `AfterMask` are the three parts of
`websocket_apply_mask` and its two rotations, for any address of the buffer. A
rotation by all 32 bits is undefined in C; the processor's shifts give the mask
itself, and so does the model. `Byte` is how many values a byte of a length
field has; in the run it is two, so that lengths of a few bytes need all three
encodings. `Ntohs` and `Ntohl` are the byte order. The peer (external) sends
legal sequences of frames. `TakenForError` is the `err_t` of eight bits. A lost
connection is left to `WsConnection` (`ReadFails`).

### SubTask

A stack is a sequence of words, the top last; `sp` says which of the two is in
use, the other is at `stack_ptr`. A word is known by what it was made for (a
register, a local, the trap) and a mark, so that a word in the wrong register or
on the wrong stack is seen. `Push`, `Pop` and `Popped` are the two pushes and
pops of `sub_task_run`; `Start`, `Continue`/`Yield` and `Return` its three ways
through; `Reset` is `sub_task_reset`. The threads between switches are compiled
C: they use registers and locals as they like (`UseRegisters`, `PushLocal`,
`PopLocal`), and the task function saves and restores the callee-saved registers
(`Prologue`). `Continue` has a guard against ended tasks that the code does not
have; that nobody tries is what `IolLock` and `WsConnection` are about
(`NoResumeAfterEnd`, `EndedIsFinal`). Overflow of the stack is not modelled, nor
the word in `r0` to `r2`, which nothing changes on its way.

The FIXME at `sub_task.S:49` says that the trap leaks a word with every task;
`StackBalanced` says that it does not, since `sub_task_reset` pops it.

### HttpHeader

`request` is the client's text, `pos` what is consumed of it and `ends` where
the unread pieces end: `ws_t_peak` shows the first (`Byte`, `Size`),
`ws_t_read` (`ReadKey`) reads across. `at` is the place in `do_ws_header`:

    first -> eol -> name -> colon -> tag | key | tail;  tag -> tail | rest
    key -> tail;  tail -> name | rest;  rest -> tail;  name -> done -> answered

Each action is one look at a piece. `EatWhite`, `ConsumeLine` and `ConfirmTag`
are the helpers, at whichever place they are called. `Select` is `bl_str_select`
with `list_index` and `str_index`, `"wild"` the use of a name behind the list.
`encode_base64` computes the codes of the characters; `char` is unsigned on this
processor, so `>> 2` needs no mask. `UpTo` and `Select` are recursive functions,
which the proofs can follow. SHA-1 is external. Names are shorter than the real
ones. Errors of the connection are left to `WsConnection`. The texts modelled
(`RequestsAssumption`) have no NUL, no empty values and keys of the right
length; an empty value makes the parser take the next line for the value
(`testing.c:481`), a short key makes it read into the next line.

## Runs

| Run | Question | Result |
|---|---|---|
| `iol_calls` | two contexts, tasks restarted: exclusion, one holder, lock given back; and, until calls overlap, lost wakeups, continued ended tasks, progress | seven properties hold |
| `con_session` | whole connections, one after the other, any `tcp_write` and the `malloc` failing | eleven properties hold |
| `con_header_error` | does an error end every task? | violated: header parsing drops it, and `iol_continue` spins inside the callback |
| `con_reply_lost` | does every reply come to an end? | violated: when `tcp_write` refuses it the flush waits for an acknowledgement of nothing |
| `ring_stream` | writes and flushes round the ring, acknowledgements at any time, until the first fault | six properties hold |
| `ring_full` | the code's sizes, writes of 192 bytes: are frames in flight left alone? | violated: head comes onto tail at line 364 and the next frame is written over five in flight |
| `ring_partial_ack` | does the callback find its markers when part of a frame is acknowledged? | violated: the tail is in the frame, and payload is read as a marker |
| `read_frames` | frames of all kinds, in pieces, at any alignment: the payload and nothing else? | four properties hold |
| `read_fragments` | control frames between fragments: is the message kept? | violated: FIN of the control frame resets the opcode |
| `task_switch` | any sequence of starts, switches, ends and resets | three properties hold |
| `header_text` | requests cut anywhere but in a foreign name: understood and answered? | five properties hold |
| `header_pieces` | cut there too: does the selector stay in its list? | violated: it is asked again after it found no match |

Defects that other values of the constants show, without a run of their own:

- `IolLock` in the bounds of `iol_calls`: `NoResumeAfterEnd` is violated once
  calls overlap, because the reason is compared before the lock is held, and
  `NoLostWakeup`, because `mutex_try_enter` fails for any reason. The build does
  not let calls overlap.
- `WsConnection`: a property `at \in FramePlaces => fram = "ready"` is violated,
  after an error during the upgrade answer (`testing.c:561` and `566` drop the
  results of the barrier and of the initialisation, which follows a NULL pcb),
  and on an open connection when there is no memory for the ring.
  `FraminatorReady` says what does hold: with a pcb, the initialisation is not
  refused.
- `[][Accept => p_current = <<>>]_vars` is violated: what arrives behind a page
  request is not read before the close, and `testing.c:774` forgets it without
  freeing it. `PbufsFreed` says what does hold, for WebSocket sessions.
- `FlushEmpty` after a write that sent its frame by itself does not return: the
  head stands behind the place of the next header, where no tail comes
  (`EmptyFrameApart` in `Framinator_proofs`). `FlushEnds` is about flushes with
  payload.
- `WsRead` with reads and frames of 200 bytes: `ReadEnds` is violated. The count
  does not fit `err_t` (line 468).

The properties of `con_session`, in the order of what they need to fail: an
announcement that is missing or comes in the wrong order (`ClosedHasEnded`,
`WaitCanEnd`), a result that looks like a reason (`EndedIsFinal`), a stale pcb
(`WritesToOpenPcb`), bytes of the answer that reach the ring's callback
(`AcksMatchFrames`, `FraminatorReady`), a wait that is not left on an error or
entered for nothing (`AnswerEnds`, `ReplyEnds`, `ErrorEndsAnswer`), a read that
gives up before it has read what came (`PbufsFreed`). `ErrorEndsAnswer` speaks
of tasks past their header: for the others it is false, which is the finding of
`con_header_error`. `ReplyEnds` and `WaitCanEnd` name one exception,
`ReplyRefused`, a reply that `tcp_write` did not take: without it they are
false, which is the finding of `con_reply_lost`. The model does not exclude the
case: that nothing else waits in vain is what the two say.

Bounds. `iol_calls` uses two contexts, because each
violation or exclusion needs one holder and one intruder, and two reasons, so that
an announcement can be of the wrong one (111 416 distinct states); any number of
tasks follow each other. The theorems have no bound.

`con_session` uses `RcvWnd = 3` (the peer can send a field, the end of
the header and something behind it before the task looks), `SndBuf = 2`, a page
of four writes whose last is larger than the send buffer (so that
`ws_t_write` waits with nothing written, in the middle, and in two pieces) and
three writes that answer an upgrade. Any number of connections follow each
other. There is no other bound: the state space is finite by itself (62 914
distinct states).

`ring_stream` scales the ring down to 96 bytes, with a largest payload of 40,
frames sent from 28 bytes on and the long header from 36 on (`NotWorthIt` and
the marker and header sizes are the code's). One write is 13, 17 or 31 bytes,
none a multiple of the alignment, in any order: frames of one write or of two,
padded or not, and flushes put their ends anywhere else. All four waits occur,
with the tail ahead of, behind and at the head, TCP may refuse any frame and
acknowledge any part of one, and the head meets the tail at line 364. After one
of these faults the head can run out of the buffer for ever; the constraint
`UntilFault` therefore keeps each behaviour up to its first fault, that step
included, and goes no further (243 366 distinct states). `ring_full` and
`ring_partial_ack` have the sizes of the code, no constraint, and one length of
write each, which is enough for their counterexamples (106 and 6 states).

`IntactFramesKept` and `IntactMarkersLead` are the two halves of what the ring
has to get right: TCP's bytes are not overwritten, and the acknowledgements find
their way. `IntactIsFrameQueue` is what follows for the user: with the ring
forgotten there is a queue of frames that keeps every byte once, and a flush
that waits for all of it.

`read_frames` has three frames of the six kinds in `MCFrames`, fragments and
control frames included (between messages only), reads of two and seven bytes
at all four alignments: a read ends inside a frame, a frame inside a read, and
every part of the mask code has zero to several bytes (279 690 distinct states).
`task_switch` has two marks, so that a word that is stale differs from the one
that belongs there, and up to two locals per thread; any number of tasks.
`header_text` has nine requests with the two fields in both orders, twice, in
wrong spelling, and values that begin like the tag; two unread pieces are
enough for a look, a read across a cut, and a cut not yet seen, and every place
of the text is cut in some behaviour.

Fairness. A callback that was entered runs on (`WF` of `Step`; the processor
does not stop). Nothing forces data to arrive. TCP keeps retransmitting: while
something is in flight, an acknowledgement, the peer's close or an error comes
at last (`WF` of `Sent`, `RecvClose`, `ConnectionError` while `unacked > 0`);
lwIP gives up after its maximum number of retransmissions. In `IolLock` every
context that is inside the lock runs on (`WF` of `Proceed`), and no event has
to happen. In `WsRead` and `HttpHeader` the task
runs on while it has bytes; in `WsRead` what the peer has sent arrives, in
`HttpHeader` the property asks only for what has arrived. In `Framinator` a task
goes on when its condition holds (`WF` of `Step`), and what is in flight is
acknowledged or the connection is lost at last. No strong fairness is used.

Deadlock is checked in every run but `iol_calls`, where both contexts can end up
on the stack of a task that was wrongly continued, after overlapping calls, and
nothing is left to happen. In `WsConnection` only a faulted program stops
(`Halted`), in `Framinator` only a lost connection or a callback gone astray
(`Stopped`), in `WsRead` only a reader to whom nothing more is sent (`Silence`),
in `HttpHeader` only the answered request or a wild pointer (`Stopped`).

## Proofs

`IolLock_proofs`, for any contexts and reasons, whatever they do and however
often tasks are started. *Exclusion* (`LockHeld`, `Exclusion`): until a held
lock is cleared (`kept`), `locked` is set exactly while one context is between
winning the trylock and unlocking. Induction needs to know who is inside the
mutex (`MutexInv`: `mutex` is the set of contexts at the four places between
enter and exit, at most one; whoever is about to set `locked` found it unset and
nobody set it since). `kept` is needed: `iol_task_run` clears `locked` with a
plain store, also when another context is on its way to `iol_unlock`. *Serial*
(`SerialNoLostWakeup`, `SerialNoResumeAfterEnd`): until calls overlap (`alone`),
at most one context is in its call (`Caller`), and `Orderly` says at each of its
places what the lock and the task look like. `alone` and `kept` are part of the
specification and of the properties, so no theorem has a hypothesis.

`WsConnection_proofs`. `Consistent`: `Spec => []ConInv`, for any `RcvWnd`,
`SndBuf` and answers, whichever `tcp_write` fails and whether there is memory or
not. The parts of `ConInv`:

- `WaitInv`: a task that is not running waits for the reason of its place;
- `PendingInv`: what is left to announce is a suffix of what a callback
  announces, and `READ` never comes last with an error;
- `ErrInv`, `LossInv`: an error means that the pcb is gone; a task whose pcb is
  gone has been told, or the reason it waits for is still to be announced with
  the error; one that has been told does not wait. This is where the order of
  the three announcements in `tcp_cli_con_err` and the recheck of
  `iol_continue` come together, and it is what `ClosedHasEnded` alone, which
  looks only between callbacks, cannot carry through a step;
- `SleepInv`: what a task waits for has not come yet or is about to be
  announced; `WindowInv`: window and unread data add up;
- `AckInv`: nothing is in flight when the framinator's callback is set, and
  from then on what is in flight is frames of the ring;
- `EndInv`: an ended task has no pcb, and `ERR_ABRT` goes with no error.

One lemma per callback, per step of the lock and per group of task steps keeps
it. From it: `TypeCorrect`, `LostTaskEnds`, `WaitsCanEnd`, `EndedSleeps`,
`WritesAreSafe`, `FramesAreInFlight`, `BarrierEmptiesBuffer`.

`SubTask_proofs`, for any number of words on the stacks (`Depth`) and any marks
in the registers. `TypeOK` and `StackBalanced` say nothing of the stack of the
thread that does not run, so neither is inductive: whether the registers are in
order after a switch depends on the nine words that were saved, and whether the
trap ends up alone on the stack depends on how many words are below. `IInv` adds

- `WhileMain`: the main stack has the main thread's own words and no others; the
  task's stack is empty, or has the trap, or has the prologue of the task
  function, the task's words and a saved context (`Saved`);
- `WhileTask`: the main thread's context is saved on top of its words, and the
  task's words lie above the prologue only;
- `WayBack`: under them are still the return address and the task pointer with
  which `sub_task_run` called the function.

`PushPop` shows once that the nine words that a push adds come back into the
same registers (`IndexOfRegister`: every register has one place, although r8 to
r11 pass through the low ones), and `SameBelow` that the words under them stay.
One lemma says what each step of the switch does, and one that it keeps `IInv`.
From it: `TypeCorrect`, `Balanced`, and `Refinement`: `Spec => IsCoroutine`,
where `StepSeen` matches every step with one of the abstract steps.

`Framinator_proofs`, for every buffer of whole words, every payload limit, any
lengths of writes and any `TcpFaults`. `TypeOK`, `FramesKept` and `MarkersLead`
are not inductive: that a copy spares the frames in flight depends on which side
of the tail each of them lies, and where an acknowledgement leads depends on
markers nobody has looked at for a long time. `IInv` is `TypeOK`, "not astray"
and `Ring`:

- `FramesInPlace`: a frame lies between its marker and the place its marker leads
  to, aligned but for the last frame of a flush;
- `Straight`, `Wrapped`: which stretches of the buffer belong to frames, with the
  tail behind or ahead of the head; when it is ahead there is a wrap marker no
  frame extends over, and room for a marker between head and tail;
- `Ordered`: frames at the tail are older than those at the start, and on either
  side they follow one another;
- `Chained`: every marker leads to the place of the next one, over the wrap if
  need be;
- `TailInPlace`, `HeadInPlace`: where tail and head stand at each place of
  `websocket_write` and `websocket_flush`.

One lemma per action keeps it (`Sent`, `Copy` and the four waits are the long
ones), and `FramesApart` and `MarkersInOrder` lead from it to the properties;
`QueueNext` matches every step with a step of `FrameQueue`. Each theorem is
about every behaviour of `FSpec`, faults included, and says what holds until the
first: `IInv` is kept by every step but the three events (`NextIInv`), and
`IntactIInv`, which is `IInv` as long as `intact` is true, by every step. That the
third event is needed is `ring_full`, the second `ring_partial_ack`; after the
first the tail has to pass a frame that nothing acknowledges.

`WsRead_proofs`, for any frames the protocol has, any sizes of reads, any number of
values of a byte and bytes that arrive in any pieces. `InStep` and `InOrder` look at
the bytes the current `ws_t_read` has; that these are the right ones depends on
where the reader stands in a frame it has not seen the end of, and on bytes still
on their way. `IInv` ties the two together. With `Stream`, what the peer has sent
and the reader has not used,

- `Whole`: from every place of the stream on, the rest of its frame follows, and
  then the next frame;
- `UsedUpTo(c, o)`: the stream begins behind byte o of frame c;
- `Knows(c, o)`: at each place of `websocket_read`, what `read_length` and the
  header say of frame c agrees with o (`Reader` is the existence of c and o);
- `MaskInPlace`: `read_mask` begins with the mask byte of the next byte of payload;
- `Messages`, `LastOpInPlace`: without control frames inside a message,
  `read_lastOp` remembers an opcode exactly while a message is open;
- `GivenInPlace`: all the payload before the reader's place has been given, and
  the frames since the last byte given have none for the application.

The lemmas on the way say that `lwip_ntohs` and `lwip_ntohl` undo the digits of a
length (`LengthOf2`, `LengthOf8`), that the three parts of `websocket_apply_mask`
put every mask byte on its own byte and leave the mask at the next one (`MaskFits`,
`MaskGoesOn`), and that a `ws_t_read` uses up what it asked for (`Advance`). From
`IInv`: `ReadTypeCorrect` and `ReadStaysInStep`, with control frames anywhere, and
`PayloadInOrder` without them inside a message, which is the other side of
`read_fragments`.

`HttpHeader_proofs`, for any two names (the second not the beginning of the first),
any requests that keep to `RequestsAssumption`, any hashes and any pieces.
`ParsedAsSent` looks at the parser when it is done, and what it has by then
depends on every look at every piece on the way. The proof goes from the bytes up:

- `LeastOf` and `Induction`: a set of numbers that has 0 and, with each number,
  the next one has them all. It is what the inductions rest on, with the property
  as a set, since the library's rules cannot be used with an operator;
  `Recursion` gives from it what a recursive function is;
- `EncodesBase64`: `encode_base64` is `Base64`, by the bits of three bytes
  (`BitsOfByte`, `Sextets`), for inputs of every length;
- `SelectFinds`: fed with a stretch of text, the selector stands at the first name
  that begins like it, or behind the list if none does (`FinderAt`, `Begins`);
  `SelectionIs`: it selects exactly the name that the whole of the line's name is;
- `LineByPosition`, `EdgesLaidOut`: where in the text the lines of a request are,
  and which bytes stand where;
- `ToReturn`, `ToBlack`, `NameStops`, `TagAgrees`, `KeyTaken`: what a look at one
  piece does in `ws_consume_line`, `ws_eat_whitespace`, the search for the end of
  the name, `ws_confirm_tag` and `ws_t_read`.

`IInv` says for each place of `do_ws_header` where in which line of the request
the parser is (`PlacedFor`, with `InName`, `InTag`, `InKey` and the like), that
the selector, the tag and wsKey agree with the text up to there, and that upgrade
and key are what the lines before say (`Seen`: `Upgraded`, `KeyKnown`). One lemma
per action keeps it. From it: `HeaderTypeCorrect`, `HeaderParsedAsSent`,
`AcceptKeyIsBase64`, and `SelectorStaysInList`, which needs `~CutNames`, the other
side of `header_pieces`. `HeaderParsedAsSent` does not need it: where the code
reads behind its list the model stops at `"wild"`, so that the theorem is about
requests that were read to their end.

Only model-checked: liveness (`WaiterRuns`, `LockReleased`, `AnswerEnds`,
`ReplyEnds`, `ErrorEndsAnswer`, `WriteEnds`, `FlushEnds`, `ReadEnds`,
`HeaderEnds`), which the prover cannot do under fairness, and `PbufsFreed`.
Every other property of a passing run is a theorem.

## Plan

1. `IolLock`, `WsConnection`, `Framinator`, `WsRead`, `SubTask`, `HttpHeader`
   (done), with the abstract `FrameQueue` and `Coroutine`.
2. Theorems about `Framinator`, for any sizes that satisfy the code's static
   assertions (done).
3. Theorems about `WsRead`, for any frames and reads (done).
4. Theorems about `HttpHeader`, for any requests, names and pieces (done).

## Not modelled

Bring-up, UART commands, the LED and the statistics only call the SDK. The page
is data. lwIP and the SDK appear as the environment. `Scraps.S` is not built.
The main loop's calls into `netif` and `dhcp` from the other thread are about
state of lwIP that is not in the models; they stay on the list of hazards.
`decode_base64` and `base64bits` have no caller. `SUB_TASK_ON_STACK` has no user.
How much heap there is, and overflow of the task's stack, depend on the library
and the compiler; that the ring's `malloc` fails is in `WsConnection`.
