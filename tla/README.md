# A verification of RTT_NONOS

RTT_NONOS is RT-Thread 4.0.1 with the preemptive kernel taken out.  A "thread"
is a callback without a stack: `rt_schedule` walks one list and calls the entry
of each thread that is ready; the entry runs to completion and returns.  The
only concurrency left is between that code and interrupts.  A boot loader for
the STM32F1 (`Project/STM32F1_STD`) is built on the same components: it keeps
its environment in a page of flash and receives firmware over YMODEM.

This directory holds TLA+ modules of the parts that carry the program's own
logic, TLC configurations that check them, and proofs that TLAPS checks.
`PROJECT.json` lists components, runs, hazards, theorems, and the source lines
each definition stands for.

    tlc -config MCScheduler.cfg MCScheduler     (one run)
    tlapm TickWalkProofs.tla                    (one module of proofs)

## 1. Inventory

Paths are under `src/`; `rtt` is `rt-thread`.

| Component | State it keeps | Operations | Meets | What is hard |
|---|---|---|---|---|
| Thread scheduler: `rtt/src/scheduler.c`, `thread.c`, `rtt/include/rtservice.h` | the list `rt_thread_priority`; per thread `tlist`, `stat`, `remaining_tick`, `init_tick`; `rt_current_thread`; the cursor of the walk | `rt_schedule`; init, startup, detach, suspend, resume, sleep | entries call it from inside its own walk; the tick interrupt walks the same list | the list changes under the walk; stores the tick can fall between; `stat` overwritten after the entry |
| System clock: `rtt/src/clock.c` | `rt_tick` | `rt_tick_increase`, conversions, busy wait | called by SysTick; wakes threads | runs between any two stores; tick wrap-around |
| Idle thread: `rtt/src/idle.c` | hook table | set, delete, run hooks | one of the threads | hooks that change the table they are called from |
| Ring buffer: `rtt/components/drivers/src/ringbuffer.c` | two indexes of 15 bits, a mirror bit in the same word as each | put, put_force, get, their one-byte forms, reset | producer in the receive interrupt, consumer in a thread (`at_cli.c`); audio blocks (`audio_pipe.c`) | wrap and mirror bits; the word that both sides modify; what an overwriting put discards |
| Ring block buffer: `ringblk_buf.c` | set of blocks, list of blocks, offsets | alloc, put, get, free, block queues | producer and consumer, interrupts masked | free space is computed from the two ends of the list |
| Boot environment: `Project/STM32F1_STD/func/mem.c`, `drv_flash.c` | `g_param` in memory, one page of flash | load, defaults, set, save; erase, program | shell commands; the countdown | a reset between erase and the last word; flash errors |
| Boot countdown: `applications/main.c` | `bootdelay`, `bootcmd` | countdown, CTRL+C, run the command | runs the saved command through the shell | a command that returns; the command edited in place |
| YMODEM receiver: `components/utilities/ymodem/ymodem.c`, `ymodem_ota.c` | stage of the session, blocks written | handshake, data, end of file, next file | a sender across a serial line; the flash driver | losses, damage, repetitions, answers that cross |
| AT client: `components/net/at/src/at_client.c`, `at_cli.c` | lock, response, its status; the steps of a command and the length of a response in static variables | `at_obj_exec_cmd`, polled; `client_parser`; command line mode | callers and the parser are threads of the scheduler; a modem on the UART | late, short, long and unsolicited lines; responses that are deleted; two callers in one step machine; a session that takes the client over |
| Small heap: `rtt/src/mem.c` | chain of items in the heap, `lfree`, the statistics | malloc, calloc, realloc, free | every component | splitting, merging, the lowest-free pointer |
| Shell: `components/finsh/shell.c`, `msh.c` | line buffer, its two positions, the key sequence, the history | line editor, completion, history; running a command | runs the commands of `BootEnv`; one character per dispatch of its thread | an in-place buffer with unsigned positions; discarded lines; the history ring |
| Memory pools, multi-region heap, slab: `mempool.c`, `memheap.c`, `slab.c` | free lists | alloc, free | | vendored; no project configuration selects them |
| Start-up, `kservice.c`, UART drivers | - | - | - | fixed sequences, string functions, registers |
| Vendor libraries, network stacks, file systems, the finsh virtual machine, device framework | - | - | - | third-party code |

What makes them correct:

- *Scheduler*: the list stays one ring whose members are the live threads; the
  walk never reads a removed node's links; entries run one at a time; a thread
  that waits is woken, not before its time; a pass of the list ends.
- *Tick*: an interrupt at any store of a list operation counts every thread
  once, and returns.
- *Ring buffer*: it is a bounded FIFO, also while the interrupt writes it, and a
  forced put discards the oldest bytes only.
- *Ring block buffer*: live blocks never share memory; the consumer sees them in
  order.
- *Boot environment*: an environment is loaded whole or not at all; a saved one
  survives; the countdown always comes to a decision.
- *YMODEM*: no block of the file is missing in flash, both ends stop and agree on
  success.
- *Heap*: what it hands out is inside the heap and belongs to one caller; no
  memory is lost between blocks.
- *AT client*: the parser writes only into a response somebody waits for; a
  command is answered with its own answer; the client is always given back.
- *Shell*: the user sees the line he typed and recalls the commands he ran.

## 2. Modules

| Module | Models | Uses |
|---|---|---|
| `RtList` | `rt_list_*` store by store, and the reading of a ring | |
| `RtListProofs` | what insert and remove do to a ring, proved | `RtList` |
| `Scheduler` | `scheduler.c`, `thread.c`, `rt_tick_increase` | `RtList` |
| `SchedulerProps` | its invariants, the refinement, liveness | `Scheduler`, `Coop` |
| `Coop` | abstract: run-to-completion scheduling of a set of threads | |
| `SchedulerProofs` | its safety properties, proved | `SchedulerProps`, `RtListProofs` |
| `TickWalk` | the tick interrupt between the stores of a list operation | `RtList` |
| `TickWalkProofs` | its safety properties, proved | `TickWalk`, `RtListProofs` |
| `Fifo` | abstract: a bounded queue of bytes | |
| `RingBuffer` | the structure and every operation on it | |
| `RingIsr` | a masked or unmasked thread against the receive interrupt | `RingBuffer`, `Fifo` |
| `RingBlock` | the ring block buffer | |
| `RingProofs` | the refinement of `Fifo` and the safety of the ring block buffer, proved | `RingIsr`, `RingBlock` |
| `BootEnv` | environment page, flash driver, countdown, shell commands, resets | |
| `Ymodem` | receiver, OTA callbacks, sender, line | |
| `YmodemProofs` | its safety properties, proved | `Ymodem` |
| `Allocator` | abstract: memory that belongs to one caller at a time | |
| `Heap` | the small heap | `Allocator` |
| `HeapProofs` | its safety properties and the refinement of `Allocator`, proved | `Heap` |
| `AtClient` | callers, parser, command line mode, modem | |
| `AtClientProofs` | where the parser writes and whose answer a caller gets, proved | `AtClient` |
| `Editor` | abstract: a line of text with a cursor, and a history | |
| `LineEditor` | the shell's buffer, positions, key sequences, history | `Editor` |
| `ConsoleProofs` | the refinement of `Editor` and the safety of the boot environment, proved | `LineEditor`, `BootEnv` |
| `MC*` | instances for TLC | |

A definition whose name starts with `Bad` is not the code.  It is a faulty
variant of the definition after it - a dropped guard, a swapped order, a missing
reset - and stands there so that TLC can show that a property notices the fault.

### Scheduler

`list` holds the links of every `struct rt_thread` and of the list head;
`stat`, `remaining`, `current` and `l` are the code's `stat`, `remaining_tick`,
`rt_current_thread` and the local cursor.  `pc` says where thread-level code is:
`main` (outside `rt_schedule`), `visit` (at the test of a list element), `entry`
(inside a callback), `suspend` and `sleep` (before the last store of
`rt_thread_suspend` and `rt_thread_sleep`).  `parked` and `due` are history: who
waits without a timeout by request, and how many ticks a sleeper still has to
wait.

`Schedule`, `Skip`, `Dispatch` and `Return` are the loop.  `Call...` are the
operations of `thread.c`; an entry calls any of them, on any thread, up to
`MaxCalls` times.  The code masks no interrupt, so `Tick` is enabled at all
times; only stores to `stat` and `remaining_tick` that the tick tells apart are
separate steps.  A call that the code refuses changes nothing and is no step.
`CallInit` carries the precondition its callers keep: `rt_thread_init` is applied
only to a closed thread that is not running.

`TickWalk` drops states and timers and keeps the four stores of each list
operation, with an interrupt that follows `next` from the head.  Its steps run
to the end before thread-level code continues.  The order of the stores is the
program's; a compiler that reorders them moves the window that `tick_hang` finds
and does not remove it, unless it happens to store the new node's `next` first.

### Ring buffer

`ring` is the structure, `out` what the last call handed out, `call` (history)
which call it was; with `call` the abstract `Fifo` cannot explain a put that lost
its bytes as a reset.  `Put`, `PutForce`, `PutChar`, `PutCharForce`,
`Length`/`Taken`/`Consumed` and `NextChar` are the operations.  `RingIsr` adds the
use in `at_cli.c`: `rt_ringbuffer_getchar` without masking, cut at every load and
store, and the receive indication between any of them.  `read_mirror` and
`read_index` share a word, so each store is a load, a change and a store
(`LoadWord`, `StoreWord`).  Between the store of the mirror bit and the store of
the index the pair names no position: `Settled` is the position the reader has
reached, and the refinement maps it to `Fifo`.

`rt_ringbuffer_put_force` (`ringbuffer.c:139-143`) flips the read mirror whenever an
overwriting block reaches the end of the buffer.  That is right when the unread
bytes already run across the end (`ring.rm # ring.wm`), as in a ring that was
filled byte by byte; otherwise both positions end up equal on the same side, and
the ring is empty.  `IsQueue` says exactly this - the strict `Fifo`, plus a
forced put that keeps nothing, possible only from `ring.rm = ring.wm` - and the
run `ring_force` shows the promise of `ringbuffer.c:96` broken.

`KeepsUp` states an assumption: the interrupt does not overwrite.  When it
does, `rt_ringbuffer_put_force` moves the read position too, and both sides
update one word without a lock: bytes can be repeated or dropped, and if the
compiler loads the index again between the wrap test and the increment the index
can leave the buffer.  No checked property covers that case (see section 7).

### Ring block buffer

A block is an index of `blk_set`, `list` is `blk_list` as a sequence.  `Room`
gives the offset `rt_rbb_blk_alloc` computes from the first and last block.
`Bytes` adds up the sizes of a run of blocks; a run ends where the next block does
not follow in memory, is not put, or would be too much (`RunEnd`).  `Without` is
the list without some of its blocks, the others in their order.
`QueueGet` takes a run of put blocks off the list; a queue is a first block and
a count, as in the code, and `QueueFree` frees that many *consecutive elements of
the set*, which after reuse need not be the blocks that were taken.  Blocks of a
queue leave the list, so allocation takes their memory for free while it is read
(`OverlapOnlyHeld`: that, and nothing else, makes two blocks share memory).  Where the
code would then fail its assertion, or leave the set, there is no step: the
system has stopped, which is why the configuration says `CHECK_DEADLOCK FALSE`.

### Boot environment

`flash` is the page, with a value per field in the order in which the fields are
programmed; `g` is `g_param`.  `StartUpdate`, `ErasePage`, `Program` (one field a
step) and their failures are `mem_param_update` over the flash driver; every
failure returns to the caller as in the code, which looks at no result.  `Reset`
may come at any step and may leave the field being programmed torn.  `known` is
the set of environments the page may hold at present, `saved` that the last save
completed.  `cut` (history) says that `msh_split` has cut the command since it was
set or loaded.  A page erase happens or does not; what a power loss *during* an
erase leaves is hardware the source says nothing about.  Command lines are
values with two functions: what is left of one after `msh_split` has written
NULs into it (`FirstWord`) and what running it may do (`Result`).

### YMODEM

The receiver reads a packet and answers; a packet is a kind and a number, and
the checksum is the difference between an intact packet and `Junk`.  `fresh` is
`ctx->stage == RYM_STAGE_ESTABLISHED`, `got` the blocks in flash in the order they
were written, `erased` the blocks `ymodem_on_begin` erased.  `ymodem_on_data` compares
no length: behind the erased pages a block is written and acknowledged if the
flash happens to be blank, and refused if it is not, so `Write` may do either there.  The sender is not in
the repository.  It does what the code and its comments expect: it sends again
what is not acknowledged, takes a `C` while it waits for an acknowledgement as a
request to repeat, and outlasts the receiver.  `Fault` loses, damages or invents
a packet or an answer, `MaxFaults` times.  `FlashFails` is counted too.
A timeout is enabled only when nothing is on the way to the receiver; `late`
records that the receiver gave up with an answer still unread at the other end.

### Heap

An item of `heap.items` is a header at an offset from `heap_ptr`, with `used`,
`next` and `prev`; a header that a merge swallows leaves the function.  The
operators are the parts of `mem.c`: `FirstFit` is the search from `lfree`, `Take`
the rest of `rt_malloc`, `PlugHoles` the two merges in their order, `Freed`
`rt_free`, and `Keep`, `Shrink`, `Move` the three ways through `rt_realloc`.  `mem.c`
masks nothing, so only threads use it, and they are cooperative: a call is one
step.  `owned` (history) maps blocks to the bytes their callers asked for, which
is what `Allocator` speaks of.  `shrunk` says that `rt_realloc` has split a block
since the heap was empty; from then on `lfree` need not be the lowest hole.

### AT client

In this tree `at_obj_exec_cmd` does not block: callers poll it, and `exec_step`, a
static variable shared by all of them, counts the steps `Send`, `Notice`, `Finish`.
`ParseUrc`, `ParseResponse` and `ParseUnknown` are `client_parser` for one line.  A line
has a length, and a byte of a response is its place in a line, the last place
being the NUL.  `Fits` and `Copy` work with the `buf_size` of the response the parser
has at the moment; `resp_buf_len` and `line_counts`, also static, survive commands
that are given up and are used with the next response, whatever its size.  `EnterCli` ...
`ExitCli` are the command line mode, which takes the client over between any two
steps and, by sending a command without a response, resets the steps and the
lock whoever holds it.  The modem is outside the repository: per command it sends
some data lines and OK, an error, or nothing, as late as it likes, and lines of
its own.  `answer`, `asked`, `strange` and `excess` are history: the last command's
answer, who sent it, whether anything else is, or may be, on the wire or in the
parser, and whether the command was sent while the parser held more lines than
the buffer of its response has ended ones for.  `strange` goes back to FALSE when the line is silent and the parser
empty, so `AnswerIsOwn` also says that the client recovers.

### Shell

`line`, `line_position`, `line_curpos`, `stat` and the history are `struct
finsh_shell`; a character is one step, since the thread handles one per dispatch.
Each operation is the action of its key.  A line that fills the buffer is
discarded by setting the positions to 0 (`discarded`); its text stays, without a
NUL.  TAB then takes `strlen` of it and reads on behind the buffer; there the
model ends (`lost`).  `Editor` is what the user sees: text, cursor, the commands
remembered and which of them the arrow keys are at.

## 3. Runs

Passing runs:

| Run | Shows | Bounds, and why they are enough |
|---|---|---|
| `sched` (163 438 states) | list integrity, cursor, one runner, nobody stranded, no short sleep, refinement of `Coop`; a pass ends, ready threads run, timed waits end | three threads: the walker, one ahead and one behind it, so that each can remove, move or restart its neighbours; two calls an activation, so that a call meets the effect of the one before; periods 0 and 1, sleeps of -1, 0 and 1, around both sides of each test of the countdown |
| `tick_walk` (894, up to symmetry) | every walk that ends counted every thread once; only the insertion window can trap it | three threads: one being moved, with a neighbour on each side; symmetric |
| `ring` (46 088, up to symmetry) | refinement of `Fifo` at each instruction, but for the forced put that empties | four bytes, the smallest aligned ring; blocks up to five, so that one exceeds the ring and one ends exactly at its end; two byte values tell lost, repeated and swapped bytes apart |
| `rbb` (213 451) | blocks share memory only with one held in a queue, ring order, nothing pending lost, oldest first and announced length | three blocks of one to three bytes in six: wraps with and without a gap at the end, and is exhausted by blocks and by bytes |
| `boot_env` (303 282) | whole environments only, saved ones kept, what is saved was set, a decision always reached | two resets: one in a save and one in the recovery from it; three delays (none, zero, two), four commands by what they do |
| `ymodem` (78 602) | blocks in order, success is whole, agreement, termination, success on a clean line, no more blocks behind the erased pages than errors | a file of a page and a half, so that the erased area has room for one repeated block and not for the next, and a file of one block; three tries; three faults, so that one may hit the repair of another and a third the repair of that |
| `heap` (49 929) | chain whole, no neighbouring holes, exact statistics, `lfree`, refinement of `Allocator` | half scale: header 6, least block 6, alignment 2, the 3 : 3 : 1 of a 32-bit build, in 48 bytes: up to four blocks, so that a block has used or free neighbours on both sides; requests of 1, 7, 15 and 30 leave rests with and without room for a block |
| `at` (886 062) | no write past or into a response nobody waits for, the lines counted are there, own answers, the client is given back | two callers, one waiting for OK with a buffer of four bytes and one for a line with a buffer of two, a command each; an answer whose first line is too long for both and whose later ones fit, so that one response gets a hole and the other can meet what the larger one left in the parser; errors, silence; one unsolicited line and one typed line at any moment; a timeout of one tick; lengths to scale, the shortest line being 1 |
| `shell` (600 341) | positions in the buffer, refinement of `Editor`, what can take the NUL away | lines of up to three characters, so that one has a middle; a character that also ends an arrow key; three commands with common beginnings; two lines of history, so that it is empty, partly filled, full and shifted |

Runs that end with a counterexample (section 6): `wake_lost` and `tick_hang` with two
threads, `ring_force` on the instance of `ring`.

Deadlock is checked in the scheduler, tick and ring runs.  The other systems may
stop: `rbb` in an assertion, `boot_env` in the application or the `while (1)`
behind it, `ymodem` at the end of the session, `heap` when the bounded requests
find no room, `at` when all commands are done, `shell` when it has read past its
buffer.

## 4. Fairness

- `FairSpec` of the scheduler: `main()` calls `rt_schedule` for ever and entries
  are finite code (`WF(Walk)`, `WF(Finish)`), SysTick keeps firing (`WF(Tick)`).
  An entry need not call anything.
- `FairWalkSpec`: an interrupt handler is executed until it returns.
- `BootSpec`: the processor executes (`WF(Loader)`).  Nobody has to type, and no
  reset is promised.
- `YmodemSpec`: both programs run, and waiting times pass (`WF` of receive,
  timeout, the sender's read and its giving up).  The line is fair to nobody.
- `AtFairSpec`: the tick goes on, and a caller with a command in progress keeps
  polling (`WF(Tick)`, `WF(Poll(c))`).  The modem need not answer, the parser need
  not run, and nobody has to leave the command line mode - `LockReleased` is
  therefore about executions that do.

`ScheduleReturns` and `ThreadsRun` have the premise `RequeuesStop`: from some time
on no entry resumes or starts a thread.  Both calls move a thread to the tail,
ahead of the cursor; two entries that resume each other keep one call of
`rt_schedule` going for ever, `main` does not get control back, and a thread behind
the cursor stays where it is even when a tick makes it ready.  Nothing in the
code forbids that; liveness is a property of applications that do not do it.

## 5. What is proved

TLAPS proves these for every value of the constants that satisfies the named
assumptions (`SchedulerAssumption`, `TickWalkAssumption`, `RingAssumption`, `RingBlockAssumption`,
`BootAssumption`, `YmodemAssumption`, `HeapAssumption`, `AtClientAssumption`,
`LineEditorAssumption`), so for any number of threads, callers, blocks, periods,
delays, commands, answers, faults and resets, and any size of heap, buffer, page,
line and history.  The assumptions say what type
a constant has and which of them fit into which: a heap larger than its least
block and aligned like it, blocks no larger than the block buffer, command names
shorter than the line buffer.

*Lists* (`RtListProofs`).  `RemovePointers` and `InsertPointers` say what the four
stores of each operation amount to, pointer by pointer.  From them:
`RemoveKeepsRing` - removing a linked node leaves a well-linked ring of the other
members; `InsertKeepsRing` - inserting a node that is on no list adds exactly it.
A ring is the least set that contains the head and is closed under `next`, which
needs no recursion: membership is proved by exhibiting closed sets.

*Scheduler* (`SchedulerProofs`).  None of the invariants is inductive alone.  A
cursor on the list, for example, needs that a thread is linked exactly while it
is live, which needs that the running thread has been started, which needs that
nobody but the running thread is `RUNNING`.  `IInv` is their conjunction with the
timers' part: `CounterCoversDue`, the countdown is never less than what a sleeper
is still owed.  The lemmas take the conjuncts one at a time (`TypeStep`,
`RingStep`, `CursorStep`, `RunningStep`, `TimerStep`) with one case per action; the
list lemmas do the work in `RingStep`.  The theorems:

- `TypeCorrect`, `ListIntegrity`, `WalkStaysOnList`, `OneRunner`, `NobodyStranded`,
  `SleepLowerBound`: the invariants of the `sched` run.
- `ImplementsCoop`: every step of the scheduler is a step of `Coop` or a stutter.
  `IInv` supplies what the mapping needs: a dispatched thread is live and no
  entry is under way.

*Tick* (`TickWalkProofs`).  In the middle of an operation the list is no ring, so
`Between` says that it is some ring `L` after the first `done` stores.  `LinksBetween`
draws from that what a walk needs: no thread that stays is cut off from the head,
and `next` joins two paths only at the node being moved.  `Walking` is the walk's
own part: the nodes met so far lead to each other or to the cursor.  A cursor
back at the head makes them a set closed under `next`, so they are everybody
(`NobodyMissed`); a cursor that meets a thread again would be a second way into it,
which exists only while the inserted node points to itself (`OnlyInsertionTraps`).
`TypeCorrect` includes that the list is the ring of its members whenever no
operation is in progress.  `StoreBetween` uses the list lemmas for the last store.

*Ring buffer* (`RingProofs`).  `RingTyped` and `IsQueueHolds`, both under `KeepsUp`: for
any size and any blocks the ring implements `Fifo` at every load and store of the
unmasked reader, with the one exception that `IsQueue` names.  A well-ordered ring
(`Ordered`) is described by its length (`LengthIs`): the write position is that many
cells behind the read position, and the mirror bits differ exactly if this runs
across the end.  An operation is described by the cells it passes (`Wrote`,
`Followed`, `ReadOff`), in one piece or two, and three lemmas say what that makes of
the unread bytes: they get longer (`Appended`), lose their oldest (`Rest`), or are
overwritten (`Overwritten`, where the two outcomes of a forced put part).  From these
each operation is the one of the queue (`PutIs`, `PutForceIs`, `GetIs`, ...).
The invariant of the reader (`ReaderOK`) is what makes the lock unnecessary: from
its test to its last store there is a byte to read, the index it computed and the
word it loaded are those of the ring, and the byte it holds is the oldest one.  The
indication only appends (`Received`), which changes none of this; with the mirror
bit flipped and the index not yet cleared (`Settle`) it still sees the right amount
of room, since the ring is then neither empty nor full.

*Ring block buffer* (`RingProofs`).  `TypeCorrect`, `ListHoldsPendingHolds`,
`OverlapOnlyHeldHolds`, and the action property `GetsOldestHolds`.  The invariant is
`TypeOK /\ ListHoldsPending /\ Sizes /\ Idle`; `OverlapOnlyHeld` then follows, as it
rests on the ring order that `ListHoldsPending` contains.  Ring order says that
one step back to the start of the buffer is allowed; `Cut(k, ...)` names the place
where it is, because the two operations that change the list are easy to state
with it: a block added at the end either goes on upwards or is the step back
(`CutAppend`, which is where the four branches of `Room` meet), and a list from
which any blocks were taken keeps at most the step it had (`CutSelect`).  Blocks
leave from anywhere, several at a time, so `Selects` gives the places the rest had.
What `GetsOldest` announces as the length of a queue is the recursive sum `Bytes`;
that the recursion defines one function, and that a sum does not depend on where
it is cut, is proved by looking at the least length for which it would fail.

*Boot environment* (`ConsoleProofs`).  `TypeCorrect`, `BootKeepsEnvironment`
(`WholeEnvironment`), `SavedStays`, `CommandStored` (`SavesWhatWasSet`).  The
strengthening is `Programmed` (the fields before `pos` hold the image, the others
are erased), `Updating` (what is being saved is among the environments the page
may come to hold) and `GIsWhole`.  With them the argument is the one a reader
would make: the magic word is programmed after the fields it vouches for, so at
every step the page is either refused or whole.  `CmdInv` adds what is known of the
command in memory: uncut until a boot has run it.

*YMODEM* (`YmodemProofs`).  `TypeCorrect`, `WrittenInOrderHolds`, `SuccessIsWholeHolds`,
`SenderNotFooledHolds`.  `Moves` first turns the code's branches into some twenty
moves, using the invariant to exclude branches no reachable state takes.  The
invariant has four parts.
- `Control` says in which places the two ends can be together (`Places`), which
  codes and packets can be on the line then, and which cannot come after which
  (`Answers`, `Packets`): for example, while the sender waits for the answer to a
  header, nothing follows an `ACK` and a `C`.  The line is of any length, with any
  number of repetitions; such a pattern survives when elements are taken out or
  made unreadable (`Thinned`), so reading, loss, damage and noise are one lemma
  (`LineControl`).
- `Ordered` follows the numbers: from the block written last over the packets on
  the line, up to the first damaged one, they go up in steps of 0 or 1, and reach
  the block the sender is at if none is damaged (`InFlight`).  A damaged packet
  stops the receiver, so nothing behind it counts; a packet that vanishes breaks
  the chain, which is why `gone` is in the properties.
- `Clean` is about a line without errors: one packet or one answer is on it, so
  each block is written once.
- `Sparse` counts.  A block is sent again only for an answer that asks for it, and
  in the middle of a file such an answer is a damaged or an invented one (`Noisy`):
  the data packets and those answers on the line and the blocks in flash are
  together no more than the blocks sent and the faults (`Room`).  A file fits into
  its erased pages (`RoundUpEnough`), so writing runs on behind them by at most one
  block per fault, which `TypeCorrect` states.

*Heap* (`HeapProofs`).  `HeapInvariant`, and from it `NoHolesHold`, `LfreeLowestHolds`,
`StatsExactHolds` and `HeapIsAllocator`.  `HeapInv` describes the chain by the set of
its items and the functions that lead forwards and backwards (`ChainOf`), says that
no two holes are neighbours (`HolesApart`), that `lfree` names a hole or the end, the
lowest one unless `shrunk`, and that the items in use are the callers' blocks and
large enough (`Blocks`).  `MergedChain` and `SplitChain` are the two ways a chain changes; from
them `TakenHeap`, `FreedHeap` and `ShrunkHeap` follow the code, with `HolesApart(h,
{m})` between the two merges of `plug_holes`, when the item it was given may still
have a hole on one side.  `EmptyHeap`: with no block in use the chain is one hole.
For the refinement, `BlocksApart` draws from the chain that blocks share no
memory; a `Move` is an allocation and a free, and the invariant holds of the heap
between them.
`StatsExactHolds` adds `Exact` to the invariant.  The sum over the blocks is a fold in
an order that `CHOOSE` makes; `TotalsExist` and `SumsAgree` show that the order does
not matter, so that one block more adds its size (`BytesMore`), and each call
changes `used_mem` by just what it takes, gives back or cuts.

*AT client* (`AtClientProofs`), for any lengths of lines and a buffer of its own size
per response.  `TypeCorrect` - the offset of the next line never leaves the buffer
it is used with, a smaller one than it was counted in included -,
`NoWriteAfterReturn` (`RespIsWaited`) and `AnswerIsOwnHolds`.  The invariant `AtInv` has
six parts, each with a lemma of one case per action; the lock goes with
`exec_step`, and every way out of a command takes the response away from the
parser.  `ResponseObj` says byte by byte what a line does to the response.  `Own`
adds, for as long as the client is not `strange`, where the lines of the answer
are: the first of them received, those that fit behind one another in the
response of the caller that asked (`Copied`), the others on the line in their order
with unsolicited lines before and behind them (`Remains`).  The next line is copied
where the last one that fitted ended, and disturbs none of those (`NextCopied`); the
line that ends the response leaves the caller with its own answer (`EndHanded`).
`Backed` is about the count alone, strange or not: a line that is copied adds a NUL
in front of the new offset (`NulAdded`), so there are as many ends of lines as
counted, unless the command began with more (`excess`).

*Shell* (`ConsoleProofs`).  `ShellTyped`, `LostOnlyByDiscardHolds` and `IsEditorHolds`:
the buffer implements `Editor` for any sizes, characters and command names.
Positions alone do not say enough of the buffer: the rest of a discarded line may
lie behind the text.  `Shaped` says that before the end of the text there are only
characters and that behind it no character comes before a NUL.  It is what every
key keeps, the discarding one too, which leaves a buffer without any NUL.  Hence
the first NUL, if there is one, ends the text (`ShapedEnd`): `strlen` finds the length
the position has, and when `shell_push_history` finds the whole buffer equal to a
stored command, the texts are equal (`SameAsStored`).  Equal texts need not make equal
buffers, so `Run` of `Editor` may remember a repeated command twice.  Inserting,
erasing and completing are described cell by cell (`Inserted`, `Removed`, `Over`) and compared with `InsertAt`,
`RemoveAt` and the longest common beginning on texts; a buffer without a NUL
completes to nothing, since no name is that long (`CompletedIs`).  The history is
`Stored`, lines with nothing behind their text; `AppendedPast` and `ShiftedPast` are the
two ways it grows.

Every safety property that a run checks is proved: the invariants, the action
property `GetsOldest` and the four refinements.  Model-checked only is the liveness
(`ScheduleReturns`, `ThreadsRun`, `BootDecides`, `SessionEnds`, `CleanSucceeds`,
`LockReleased`): liveness under fairness and `ENABLED` are out of the prover's reach.  Induction is done by hand, on the least number for
which a claim would fail (`LeastNat`, `MinOfNats`), since the library's induction
theorems cannot be instantiated.  The project has no RECURSIVE operators.

## 6. Disagreements between the code and what it says

Each of these is a run that TLC ends with a counterexample.

- **Lost wake-up** (`wake_lost`).  `rt_schedule` stores `SUSPEND` after every entry.
  A thread that was suspended and resumed, or whose timeout expired, inside its
  own entry is put back to sleep, though `rt_thread_resume` "will resume a thread
  and put it to system ready queue" (`thread.c:271`).  It runs at its next period.
- **A tick that never returns** (`tick_hang`).  `rt_list_insert_before` makes the
  predecessor point to the new node before the new node points onward; in
  between the node is its own successor, and `rt_tick_increase` does not leave
  it.  `rt_thread_resume` and `rt_thread_startup` do not mask interrupts.
- **A forced put that empties the ring** (`ring_force`).  "When the buffer is full, it
  will discard the old data" (`ringbuffer.c:96`).  With one byte unread in a ring of
  four, putting four bytes leaves nothing.  `audio_pipe.c:136` puts blocks this way;
  the single bytes of `at_cli.c` are not affected.

These the passing properties describe as the code behaves:

- *Shared memory in block queues* (`OverlapOnlyHeld`).  Blocks handed out as a queue
  leave the list (`ringblk_buf.c:414`), and allocation looks at the list only, so
  memory still being read is handed out again.
- *`saveenv` of a cut command* (`SavesWhatWasSet`).  The boot command is run from
  `g_param` itself (`main.c:49`) and `msh_split` writes NULs into it.  After a boot that
  found no firmware, `saveenv` stores `boot` for `boot -p 8005000`.
- *Repeated blocks* (`WrittenInOrder`).  The receiver checks the two sequence bytes
  against each other and never against the number it expects (`ymodem.c:215`).  A
  block repeated after a damaged acknowledgement is appended; while the erased
  pages have room, and on behind them while the flash is blank (`ymodem_ota.c:69-75`
  compares no length; `TypeOK` bounds it), the transfer still succeeds.  A block that vanishes whole,
  together with a repeated acknowledgement, leaves a gap without an error.
- *A hole `rt_malloc` does not see* (`LfreeLowest`).  The in-place split of `rt_realloc`
  does not lower `lfree` (`mem.c:482`): the tail is not found until a lower block is
  freed, and an allocation may fail although there is room.
- *A response with a hole is a success* (`AnswerWhole` of `AnswerIsOwn`).  A line that
  does not fit is left out, shorter ones behind it are still copied, and the
  status "buffer full" (`at_client.c:735`) is overwritten by that of the line that
  ends the response: an answer may lack lines in its middle and be called OK.
- *A count larger than the response* (`LinesInside` of `AnswerIsOwn`).  A command that
  is given up leaves its lines counted in the parser.  If the next response is
  smaller, fewer of its bytes can end lines than are counted, and
  `at_resp_get_line` (`at_client.c:118-150`) walks on behind the buffer.  The
  property excepts just this with `excess`; without the exception TLC finds it.
- *One step machine for all callers* (`strange`).  `exec_step` is static: a caller that
  polls while another one waits executes its steps and takes its result.
- *A discarded line is not gone* (`LostOnlyByDiscard`).  It stays in the buffer
  without a NUL; TAB reads on behind it.

Seen while reading and modelling, and not the subject of a property:

- A tick between the two stores of `rt_thread_suspend` finds the thread suspended
  with a countdown of zero and makes it ready once, although the call returns
  `RT_EOK`.  It is in the model (`CallSuspend`, `Tick`, `SuspendDone`); no comment
  promises otherwise for that window.
- `rt_thread_sleep` goes on after a refused suspend, so a thread that detached
  itself and then sleeps still changes its countdown.
- After `rt_rbb_blk_queue_free` of blocks that were reused out of order, other
  blocks are freed than were taken.
- `rt_malloc` of all the bytes of an empty heap fails: the bound of its search is
  strict (`mem.c:300`).
- `at_obj_exec_cmd` returns -1 after a timeout, not the -2 of its comment
  (`at_client.c:275`): the result is a local variable of an earlier call.
- `finsh_getchar` (`shell.c:100-105`) returns 0, never less, when no character has
  come, and 0 ends an escape sequence (`Ignored` of `LineEditor`): an arrow key whose
  three characters arrive slower than the shell thread is dispatched is taken
  apart, and its rest is typed into the line.  `IsEditor` permits this.
- `ymodem.h:142` gives the handshake timeout in seconds; each try waits three.

## 7. What is not modelled

The repository is mostly code that is not its own: network stacks, file systems,
libc, vendor libraries, the finsh compiler and virtual machine, the device
framework of RT-Thread.  Nothing of that is modelled, so the share of all its
lines that the map covers is small; of the kernel and of the components the
projects build on it, the map covers the parts that keep state.

- Ring buffer overwriting under an unmasked reader (`KeepsUp`): it depends on which
  loads a compiler merges; the model states the assumption instead.
- AT client: one client, the default of `at.h:49`.  `exec_step`, `resp_buf_len` and
  `line_counts` are static and would be shared by several: their commands would
  take each other's steps and their parsers each other's offsets.  Every caller
  has a response.  Outside command line mode `at_client.c:270` also admits
  `RT_NULL`: such a call reads `resp->timeout_tick` through it (line 332) when it meets
  step 1 of another caller's command, and ends that command when it meets step 2.
  A line longer than the parser's own buffer is dropped by `at_recv_readline` before
  the part that is modelled, and a line has no NUL but its last byte.
  `at_client_init`, and `at_client_obj_wait_connect`, `send` and `recv`,
  which only read and write the device.  The UART buffer below the parser is
  `RingIsr`'s subject; composing the two would add bytes to a model whose
  properties speak of lines.
- Shell: after a discarded line `Enter` hands `msh_exec` a buffer without a NUL; the
  last argument of the command then has no end and the command may read on
  behind the buffer, as TAB does.  Only TAB is modelled as such (`lost`): what a
  command does with its arguments is not the editor's.  Passwords and echo; the history is compiled in by `FINSH_USING_HISTORY`,
  which the two project configurations leave out.  Commands themselves are those
  of `BootEnv`.
- Ring block buffer: `QueueFree` is one step.  `rt_rbb_blk_queue_free`
  (`ringblk_buf.c:476-479`) masks interrupts for each block, so a producer may
  allocate between two of the frees; that interleaving is left out.
- Heap: `Cuts` compares with the least block rounded up to the alignment, where
  `mem.c:460` has `MIN_SIZE` as it is; at 12 bytes and an alignment of 4 the two are
  equal in this build.
- Boot countdown: a boot command that itself changes the environment, `setenv` or
  `saveenv` as `bootcmd`, whose arguments lie in the `g_param` it would change.
- YMODEM: the address files are written to is assumed to be the start of a page;
  `stm32_flash_erase` rounds it down.
- The clock's conversion and busy wait, the idle hook table (section 1): a formula,
  a loop without state, an array searched with interrupts masked.
- Hooks (`rt_scheduler_hook`), logging, `rt_thread_self` and `rt_thread_control`
  queries: no state of the scheduler changes.
- `rt_ringbuffer_create`, `rt_rbb_create` and their counterparts are heap calls
  around the init functions.
- Flash addresses, `htoi`, checksums and the text of shell commands: data the
  properties do not tell apart.
- Preconditions the callers of this repository keep and the models state: a ring
  of at least one aligned word, blocks no larger than the block buffer, a heap
  larger than its least block, `rt_thread_init` of closed threads only.
- Pools, the multi-region heap and the slab allocator: vendored and not selected.
- Start-up order, string functions, register access: see the notes in
  `PROJECT.json`.

## 8. Plan

The order was by weight: first the kernel all else runs on, then the shared
structures it feeds, then the protocols, then what every component calls.  All
modules of that plan are written, and the safety of every one of them is proved.
What is left:

1. Liveness stays with TLC, but the steps of its arguments can be proved: that
   `Finish` and `Walk` take a pass of `rt_schedule` nearer to its end when no entry
   moves a thread, and that each try of the YMODEM session uses up a retry.
2. The model itself: a tick between the two stores of `rt_thread_suspend` is in
   it, but no property says which threads it may make ready.
