# Verification of autd3-freq-shift

TLA+ models, TLC configurations and TLAPS proofs of the client library, the device firmware and the FPGA of
autd3-freq-shift: a program that drives airborne ultrasound arrays (249 transducers per device) over EtherCAT.
Paths below are relative to the repository.

Everything runs in this directory: `tlasany M.tla` parses, `tlc -config X.cfg M` checks, `tlapm M.tla` proves.
`PROJECT.json` lists the runs, a mutant for every property, and, under `map`, the source lines of every definition.

## 1. The system

```
 user's thread            send thread               OS timer (1 ms)        device CPU             FPGA
 Controller.send() ──► send(): ring _send_buf ──► _io_map ──► callback(): ──► recv_ethercat ──► tr_bram ──► duty/phase set ──► 249 x
   Logic: ids, packing      (mutex, condvar)      (no lock)    exchange         app.c            config_bram ► config control   pwm_generator
   wait_msg_processed ◄────────── read(): inputs part of _io_map ◄──┘ acks          (two-port RAMs)
```

| Component | Source | State | Operations |
|---|---|---|---|
| Controller, Logic | `soft/client/include/autd3-freq-shift/controller.hpp`, `core/logic.hpp` | `_check_ack`, `_tx_buf`, `_rx_buf`, the static id counter | open, close, clear, stop, set_frequency, send, firmware_info_list, wait_msg_processed |
| SOEM link | `soft/client/lib/link/soem/autdsoem.{hpp,cpp}` | ring with cursor and size, `_io_map`, `_is_open`, `_sent`, `_rt_lock`, mutex and condition variable, three kinds of threads | open, send, read, close, destructor, `_send_thread`, `callback`, `error_handle` |
| Slave recovery | `autdsoem.cpp` 179-223 | `ec_slave[].state`, `.islost`, `docheckstate` | error_handle, called by a callback with an unexpected working counter |
| SOEM facade | `lib/link/soem/soem.cpp`, `link/soem.hpp` | `_dev_num`, `_config` | create, open; the rest is forwarded |
| Timers | `core/osal_timer/*` | timer of the system, `_is_closed`, handler | start, stop, destructor, for Windows, Linux and macOS |
| CPU firmware | `cpu/src/app.c` | `_header_id`, `_sTx` | recv_ethercat with one case per command, clear, init_app |
| Duty and phase set | `fpga/.../top.sv` 84-177 | period counter, four-state machine, buffers, outputs | one clock; reset |
| Config control | `top.sv` 179-247 | three-state machine, flags, cycle | one clock; reset |
| PWM generator | `pwm_generator.sv` | four pipeline registers | one clock |
| Transducer numbering | `core/geometry.hpp`, `hardware_defined.hpp`, `cvt_uid.vh` | positions | constructor of Device; combinational |
| Geometry, Gain | `core/geometry.hpp`, `gain.hpp`, `utils.hpp` | `_devices`; `_built`, duties, phases | add_device, del_device, clear_devices; build, rebuild; conversions, rotations |
| Frame layout, firmware versions | `hardware_defined.hpp`, `cpu/inc/app.h`, `core/firmware_version.hpp` | | sizes, commands, addresses of the FPGA's memories; concat_byte, firmware_version_map |

How they interact. The controller packs one message at a time, with an id from 1 to 254, into a frame and gives it to
the link. The link keeps up to 32 frames in a ring; the send thread copies the oldest into the process image and waits
until the timer's callback has exchanged it. Exchanges repeat the image every cycle. Each device runs `recv_ethercat`
at every exchange, executes a frame if its id differs from the last one, and answers with the id of the last frame it
acknowledges. It writes duties, phases and cycle into RAMs that the FPGA reads, at its own pace, through their other port.

What is hard here:
- three threads and a timer share a ring, an image, and flags, of which only the ring has a lock;
- frames are repeated, may be torn by the unguarded copy of the image, and devices and client tell messages apart by one byte that
  wraps and that a restarted client starts afresh while the devices keep theirs;
- a link can be lost in the middle of any call, and what open() takes in seven steps is given back on five ways out: close(), the
  destructor, a failed open(), a failed timer, a lost link;
- error handling reads, acts on and judges several slaves one after the other while they fail;
- geometry, link, gain and buffers are made at different times for a number of devices that may change in between;
- in the FPGA, memories answer two clocks late, a SYNC0 pulse resets the counter at any clock, and the CPU writes while passes read.

What makes each component correct: the ring is a queue and every accepted frame gets to the bus, in order; one
callback exchanges at a time; nobody touches freed memory; all that was taken is given back; a slave that stays down is noticed,
and the link given up once; every call returns; an acknowledgement that is believed is true; a message is executed once,
data get where they belong, both halves of a gain arrive; no call leaves its buffers, and a device plays what was computed for it with
its own period; transducers latch whole passes of consistent data, each its own row; words in shared RAM belong to whoever wrote
them; the pulse is the one asked for; a word is played by the transducer at the place it was computed for.

## 2. The modules

| Module | Models | Correspondence |
|---|---|---|
| `FrameLink` | abstract: what a link promises to those above it | a queue, the image taken from it last, the one before, and what the last exchange carried |
| `SOEMLink` | SOEMController, SOEMCallback | one action per atomic step of each thread, `uPc`, `sPc`, `cPc` for where it is; ring, flags and image as in the code; a frame is its number, in two halves (body, header) since both copy and transmission go through them one after the other |
| `OsTimer` | core::Timer for each of the three systems | actions for start, stop, their failures, and the firing of the timer on a thread; the callback itself is left to the module that extends it |
| `SlaveRecovery` | error_handle, with the slaves as they are and as SOEM sees them | `ReadState` begins a pass, `HandleSlave` is one turn of the loop (a disjunct per branch), `EndPass` its end, `Drop` a slave that fails |
| `LinkHealth` | abstract: opened once, given up once at most, closed | |
| `LinkLifecycle` | SOEMController from constructor to destructor, one action per step of open(), close() and the destructor, and SOEMCallback on the timer's threads | extends `OsTimer` and `SlaveRecovery`; `pc` is the place of the owner's thread, `cPc` of each callback |
| `Transfer` | abstract: devices execute issued messages, in order, each once at most | |
| `CpuFirmware` | recv_ethercat | operators on a device's state, no variables of its own |
| `Controller` | Controller and Logic, the link as seen from above, several devices | a call is a list of messages (`Scripts`); `AwaitRoom`, `SendMessage`, `Read`, `IsProcessed`, `NotProcessed` are the steps of a send and of wait_msg_processed; `Copy` and `Exchange` the link, with loss, tearing and repetition; `Crash` a restart of the client |
| `Geometry` | Geometry and Gain | a device is its number and cycle, a row of a gain the device it was computed for |
| `FirmwareVersion` | concat_byte, firmware_version_map, FirmwareInfo | operators: a device's answer to each of the four queries, the inputs of all devices they are picked out of byte by byte, and the names; a name is a series and a number |
| `Session` | the user of a Controller: geometry edits, links made, opened, lost, closed, replaced, gains sent and rebuilt, cycles, versions | extends `Geometry` and `FirmwareVersion`; a call of the controller is one step: it returns true (`Delivered`), false for a late acknowledgement (`Unacknowledged`), or throws when the link is lost between its messages (`CutOff`) or was before (`Undelivered`); close(), in `Stop`, `ClearAndClose` and `CloseLink`, and open() are several steps, between which the link may be lost |
| `DutyPhaseSet` | synchronisation, duty and phase set; write_duty, write_phase, clear of the firmware | one step per clock; a word is its generation and, once read, its row |
| `ConfigControl` | config control; the firmware's writes of flags and cycle | one step per clock |
| `DelayLine` | abstract: a level, a fixed number of clocks later | |
| `PwmGenerator` | pwm_generator.sv | one step per clock, a record per pipeline stage, words of any width |
| `TransducerMap` | constructor of Device, cvt_uid | one step per turn of the loop, at its real size |
| `WordPath` | packing, send(), the firmware's address computations, the address decoder and the FPGA's reading order | extends `TransducerMap`; one step per word a command writes |
| `MC...` | instances for TLC | values of constants, symmetry |
| `..._proofs` | theorems | extend the module they are about |

Composition. `Controller` extends `CpuFirmware` and composes the user's calls, the link and the devices. It does not
contain `SOEMLink`; it contains what `SOEMLink` is shown to be: `FrameLink` with `Skips = 1` (`IsFrameLink`, a property of `soem_link` and a
theorem). Its `SendMessage` is a `Put`, `Copy` a `Take`, and an exchange that is lost for every device stands for the image that may go by unseen
in the race of `soem_overwrite`. With `Torn`, an exchange carries the bodies `FrameLink` allows: in the first exchange
of an image that of the frame before, in a later one that of the next frame in the queue. The runs and theorems that assume a link that loses nothing
(`Lossy = FALSE`) hence leave that race out: there an image is always exchanged once before it is replaced.
`LinkLifecycle` is the counterpart of `SOEMLink` that leaves ring and image out and has instead what the latter idealises: the
resources, the three timers, the slaves behind a failed exchange. A pass of error_handle reads the list SOEM keeps: a slave found again in it (autdsoem.cpp:213) loses its mark and nothing else. `Session` stands above `Controller` and follows whose data
the messages carry: one that is waited for was executed by every device when its call returns true; any other, and one whose frame was skipped on
an open link, may or may not be. `WordPath` is what `Controller` calls a body, word by word.
`DutyPhaseSet` and `ConfigControl` contain the firmware's writes to their RAM word by word, since these interleave with the
clocks of the FPGA.

## 3. What the runs check

| Run | Shows | Bounds |
|---|---|---|
| `soem_link` | `IsFrameLink`: ring, image, handshake and unguarded copy implement `FrameLink`; `OneExchange`; `WakeupPending`: the send thread does not sleep on a frame whose notification was lost; `WireMovesOn`: the header on the bus never goes back and skips one frame at most; `ImageAlive`; `FramesProgress`: accepted frames, or newer ones, get to the bus, and `SendReturns` from a full ring, unless the link is lost | ring of 2, 4 frames (the cursor goes round twice), 2 callback threads, 2 failed exchanges, each of which may lose the link |
| `link_lifecycle` | `HandlerOutlives`, `CleanExit`, `SlavesParked`, `JudgedAsRead`; `LinkIsHealthy`: implements `LinkHealth`; `FailureNoticed` | each of the three timers, 2 slaves, 2 threads, 2 calls the system refuses (the second inside the handling of the first); slaves fail without bound |
| `controller_calls` | over a link that loses nothing: `KindsKept`, `WholeGains`, `SentIsExecuted` (no message is mistaken for a repetition), `MessagesArrive`, `CallsReturn` | 2 devices, queue of 2, all calls but stop and null gains, 6 messages with 3 ids (wraps), 2 readings per message |
| `controller_acks` | `NoFalseAck` with lost frames, lost answers and lost links; `OnlyClearMissed`: what the device does not acknowledge is a clear | 2 devices, 5 messages, ids do not wrap |
| `controller_restart` | `TypeOK`, `IsTransfer`: implements `Transfer` with crashes, wrapping ids, lost and torn frames | 2 devices, calls of set_frequency and clear, 4 messages, 2 ids, a crash |
| `session` | `TypeOK`, `NoStrayAccess`, `RightPlace`, `InStep`, `InfosTrue` | 3 edits, up to 3 devices, a bus of 2, 2 cycles (interchangeable), versions that differ in every byte and one id (any will do: it lies beside the bytes asked for) |
| `duty_phase_set` | `NoLatchInPass`, `RowsInPlace`, `TornInOnePlace`; `Settles`, `CounterRecovers` | 2 transducers; no cycle, one that ends in the middle of a pass, and the shortest a pass fits in; a counter that runs past it; two commands that write duties or phases, so that three generations meet in the periods too short for a pass |
| `config_control` | `CpuWordsKept`; `Follows`: each word gets to its own register within 6 clocks, of the flags their low byte (top.sv:215) | 3 cycles, 2 flag words, one of them beyond a byte, told apart from the state word |
| `pwm` | `TypeOK` (no overflow), `PulsesDelayed`: implements `DelayLine` for the ideal pulse | 3-bit words; period 3 with all pulses, delays and counters, the longest period with all delays and a choice of the others; no period at all, and duties and delays beyond the period; each set of ports followed by each other |
| `word_path` | `PathTypeOK`, `PlayedInPlace`: a word is played at the place it was computed for; `CommandsComplete` | the real grid, frame and memories; 2 devices on the bus |
| `soem_overwrite`, `soem_close_hangs` | counterexamples, section 6 | one frame or three suffice |

`Controller_wraps.cfg` is a further instance that holds: `NoFalseAck` with ids that wrap, 5 of them, a queue of one and 9 messages. With one id fewer
an old acknowledgement is believed, so the bound of `AcksStayTrue` (section 5) cannot be lowered.

Why the bounds are enough. The races of the link need at most three consecutive frames and a ring that is full, empty and
wraps; all occur. Two slaves let one fail while the other is handled; two threads let a callback fire while another
is at work; each call of the system is refused in some behaviour, and a second one while the first is being handled, which is what ends a process whose link was never lost (that more refusals change nothing is proved). Three edits are
enough to exchange a device, to have one too many and one too few, and to go back to the old number with other devices. In the firmware and controller what matters is whether ids wrap and whether devices differ: two
devices and a few ids show both; what only many ids show, acknowledgements across a wrap, is proved (`AcksStayTrue`) and checked by `Controller_wraps.cfg`. Two transducers give a pass a first and a last row and, in a period that is too short, a half; a row between them is what the theorems about `DutyPhaseSet` add. In the bit-level modules small
words have every case of comparison (pulse inside, over either end, odd, empty, whole period). What is bounded here is proved
without bounds wherever section 5 says so.

Bounds in guards: `MaxFrames`, `MaxFaults` (SOEMLink), `MaxFails` (OsTimer), `MaxMessages`, `MaxRestarts` (Controller), `MaxDevices`,
`MaxEdits` (Geometry), `MaxGen` (DutyPhaseSet), `SETTLE` (ConfigControl, where the age of a word stops counting). History variables:
`accepted`, message numbers `no`, `of`, `done`, `runs`, the count of gains, the generation and row of a word, the age of a word,
`read` (SlaveRecovery), the number of a device and the version of the geometry a link or gain was made for, `stale` and `clean` (Session).

The type invariants of `SOEMLink`, `LinkLifecycle`, `ConfigControl` and `TransducerMap` are in no run: they are theorems (section 5).

`CHECK_DEADLOCK FALSE` stands where the system may really stop: after the link object is destroyed, or with a lost link.

Mutants. Each module holds, next to the definitions they replace, the slips (`Bug...`) that show that each property can fail: a cursor
that does not wrap, a missing notification, a wait state too few, a frame executed at every repetition, and so on.

## 4. Fairness

- `SOEMLink`: weak fairness of the send thread, of each callback thread and of a call in progress (the operating system runs
  runnable threads and the periodic timer fires again and again); strong fairness for getting the mutex in send(). None for
  new calls, for spurious wakeups, or for failures.
- `LinkLifecycle`: weak fairness of the callback on each thread of the timer, for the same reason. None for the owner, for slaves that
  fail or obey, for lost frames.
- `Controller`: weak fairness of the user's thread inside a call, of the send thread's copy and of the timer's exchange. `soem_link` shows
  the last two of the link itself. None for new calls, crashes and losses. `CallsReturn` is checked for a link that is not lost
  (`CanLose = FALSE`), for with one that is it is false: the caller stays in `AwaitRoom`, as in `SOEMLink_sendhangs.cfg`.
- `DutyPhaseSet`: the clock ticks. `Settles` and `CounterRecovers` assume besides what they say: that memory and cycle stop changing.

## 5. What is proved

All theorems hold for every value of the constants under the module's `ASSUME`. Each follows the same argument: an inductive
invariant, shown for Init, for every action, and to imply the property.

| Module | Theorem | Argument |
|---|---|---|
| `SOEMLink_proofs` | `TypeCorrect` | types need `Lifecycle`: which phases of the threads exclude each other; without it the size could drop below 0 at an unexpected copy |
| | `ExchangesExclude` | with the types `OneExchange` is inductive by itself: only its owner clears `_rt_lock` |
| | `NothingLeftInRing` | `RingInv`: the ring holds the last `size` frames accepted, in order, at the slots before the cursor; lemmas `StoreSlots`, `TakeSlots`, `OldestFrame` about wrapping indices |
| | `TornByOneAtMost`, `BusMovesOn` | `Handshake`: how far the image may be ahead of the bus in each phase of sender and callback; `Stuck`: when the sender cannot go on before a new store to `_sent` |
| | `ImplementsFrameLink` | `RingInv` and `Handshake`, and `SeenFirst`: the body of a frame on its way to the bus is not older than the header sent last; every step maps to a step of `FrameLink` or a stutter |
| | `NoFrameSleeps` | `WakeupInv`: whoever tests the predicate of `_send_cond` holds the mutex, so a frame stored while the send thread is about to sleep still has its notification to come |
| | `ImageOutlivesItsUsers` | `AliveInv`, if stopping the timer waits for the callback |
| `Controller_proofs` | `TypeCorrect` | `Bounded`: a call has room for the messages it has left, and gains count one ahead of their first message |
| | `ImplementsTransfer` | `Ordered`: numbers grow from what devices executed over the image to the queue's end, and a device that executed the image knows its id; every step maps to a step of `Transfer` or a stutter |
| | `AcksAreTrue` | `Stamped`: as long as no id comes up twice, ids are message numbers everywhere. Needs no restart and fewer messages than ids |
| | `AcksStayTrue` | the same with ids that wrap, where the code can promise it: `IsIdOf`, an id tells which messages it may belong to, a cycle apart (`SameIdFarApart`); `Recent`, how far the acknowledgements of devices, inputs and the last reading can be behind the message waited for; `Alone`, a CLEAR comes between acknowledged messages. Needs fewer queued frames than ids by more than four (32 + 4 < 255), a link that loses nothing, no restart and no clear() |
| | `KindsNeverMix` | `Packed`: header and body match in queue and image. Needs untorn frames and no null gains |
| | `ExecutedIsAcknowledged` | `AwaitInv`: a message that is waited for sets its acknowledgement wherever it is, in the queue, the image, the devices or the answers |
| | `NothingIsIgnored` | `InTurn`: from the image to the end of the queue each id follows the one before; devices have the id of the image or the one before it, and a link closes after three messages at least, so the next one starts with a new id. Needs a link that loses nothing, no restart and three ids or more |
| | `GainsAreWhole` | `Whole`, on top of `InTurn`: in what is pending duties are followed by their phases, and each device has both halves of a gain or the other half comes next; `Shape`, what is left of a call; `Ends`, a link closes after a CLEAR. Needs untorn frames and no null gains besides |
| `DutyPhaseSet_proofs` | `TypeCorrect`, `LatchesWholePasses` | `PassInv`: the counter is never ahead of the pass |
| | `RowsArrive` | with `PassInv`, `RowsInPlace` is inductive |
| | `TornInOnePlaceOnly` | `HostInv`, `SeenInv`, `BufInv`: pass and firmware meet once at most, since the pass is the faster; `FreshInv`: a row is never older than what was read of it, or of a later row, before, which covers periods too short for a pass |
| `ConfigControl_proofs` | `CpuOwnsItsWords` | `PortInv`: the port writes only at the address of FPGA_INFO |
| | `TypeCorrect`, `EveryWordGetsThrough` | `Stage`: what the two stages of the memory hold in each state of the machine; `OnTheirWay`: how old a word can be where it has got to. Assumes that ages count to 6 at least (`SETTLE >= 6`), nothing of the flag words |
| `LinkLifecycle_proofs` | `TypeCorrect`, `NothingIsFreedUnderACallback`, `EverythingIsGivenBack`, `SlavesStayParked`, `JudgementIsWhatWasRead`, `ImplementsHealth` | `IInv`: `StageInv`, what the owner holds at each place; `QuietInv`, where no callback can be; `LockInv`, one callback at work, and none once the link was given up; `WalkInv`, what a pass has decided so far; `PeriodsInv`, `ExitInv`, `ParkInv`, what is left on each way out |
| `Session_proofs` | `TypeCorrect`, `CallsStayInBuffers`, `DataAreInPlace`, `PeriodsAgree`, `ListNamesFirmware` | `LinkInv`: what the controller holds at each place of close() and open(), and that open() meets an open link only with `_check_ack` on; `SizeInv`: a link, a gain and the buffers have the size of the geometry whose version they carry, as long as it is the last one; the other three are inductive on top of these |
| `PwmGenerator_proofs` | `OutputIsPulse`, `OutputWithoutPeriod`, `TypeCorrect`, `PipelineDelaysPulse` | arithmetic on all words: the ideal pulse for duties and delays within the period, a constant level for no period; for any ports the sums fit and the output is, four clocks later, what they asked for: the refinement of `DelayLine` by stage |
| `TransducerMap_proofs` | `NumberingsAgree`, `WalkPlacesAll`, `TypeCorrect` | `Inv`: index as a function of the places walked |
| (about `WordPath`) | `PathTypeCorrect`, `WordsArePlayedInPlace`, `CommandsReachAll` | `Slots`: each word of a memory is the one of its number, or cleared; `Progress`: what a command has written up to the word it is at |

Only model-checked: liveness (`FramesProgress`, `SendReturns`, `FailureNoticed`, `MessagesArrive`, `CallsReturn`, `Settles`,
`CounterRecovers`), which the prover does not do under fairness. Every other property of the runs that are to pass is a theorem.
`SlavesParked` and the second half of `HandlerOutlives` speak of Windows, whose timer waits. Of Linux and macOS `HandlerOutlives` says that no
callback is started on what was freed; one under way may use it, which is in section 6.

What the properties leave to the code as it is, since it does the contrary (section 6 has the counterexamples): `SendReturns` and `CallsReturn` assume
that the link is not lost; `OnlyClearMissed` excepts CLEAR; `WholeGains` judges successful calls, over a link that skips nothing; `KindsKept` excepts
null gains and torn frames; `IsTransfer` bounds what a restart can do, without excluding that a first message is ignored; `CleanExit` allows a failed
open() to leave socket and SYNC0, and a lost link to hold all of its resources until the destructor ends the process; `RightPlace` and
`NoStrayAccess` hold until a gain built for another geometry is sent (`stale`), and like `InStep` for a link made for the present geometry (`Fixed`);
`InStep` lets SYNC0 be off on all devices with `_check_ack` on, and speaks of counters once a CLEAR was executed through the link (`clean`).

## 6. Where the code does not do what it says

Listed as runs:
- **A frame can be overwritten unsent** (`soem_overwrite`). `callback` transmits and then stores `_sent = true`
  (autdsoem.cpp:33-34); a send thread that clears `_sent` for the next frame in between (147) takes the store for that frame and
  replaces it. `WireMovesOn` shows that it is one frame at most at a time.
- **close() can hang** (`soem_close_hangs`). `_is_open` is cleared and `_send_cond` notified without the mutex (161-163).

Further configurations in this directory, each for one property, end in a counterexample:

| Configuration | Module | Property | What happens |
|---|---|---|---|
| `SOEMLink_lastframe.cfg` | `SOEMLink` | `SentBeforeClosed` | the drain loop of close() (159) waits for the ring only; the last frame, usually the CLEAR, can stay unsent |
| `SOEMLink_sendhangs.cfg` | `SOEMLink` | `SendAlwaysReturns` | a link lost while send() waits for room (46): it goes on waiting for a queue nobody empties |
| `SOEMLink_destroy.cfg` | `SOEMLink` | `ClosedIsReleased` | after a lost link close() returns on line 157; the destructor meets a joinable thread and terminates |
| `SOEMLink_posix.cfg` | `SOEMLink` | `ImageAlive` | `timer_delete` does not wait for a running callback, unlike TIME_KILL_SYNCHRONOUS; close() frees the image under it |
| `LinkLifecycle_openleaks.cfg` | `LinkLifecycle` | `FailedOpenReleases` | an exception in open() leaves the socket open, and later ones SYNC0 and the timer's period too: close() does nothing for a link that is not open |
| `LinkLifecycle_openrace.cfg` | `LinkLifecycle` | `LostIsClosed` | an exchange that loses the link before open() has finished clears `_is_open`; line 135 sets it again, for a link whose `_rt_lock` stays taken |
| `Session_strays.cfg` | `MCSession` | `NeverStrays` | a device added after open(), or a gain built for another geometry, runs over the buffers or over freq_cycles |
| `Session_terminates.cfg` | `MCSession` | `LinkReplaceable` | open() replaces a lost link, whose destructor ends the process |
| `Session_busdown.cfg` | `MCSession` | `BusStaysUp` | open() goes on when the close() of the old link failed; the new link is brought up and then the old one, destroyed, turns SYNC0 off |
| `Session_notcleared.cfg` | `MCSession` | `InStepFromStart` | open() does not clear: devices another process left keep its cycle until the user clears them |
| `Controller_restarted.cfg` | `MCController` | `NoFalseAck` | a restarted client starts its ids at 1 and takes the dead client's acknowledgement for its own |
| `Controller_restarted.cfg` | `MCController` | `SentIsExecuted` | a restarted client's first message has the id the device saw last, and is ignored |
| `Controller_missedack.cfg` | `MCController` | `NoMissedAck` | CLEAR is executed without an acknowledgement (app.c:132); with `_check_ack` on, and firmware_info_list leaves it on when it returns early (controller.hpp:116), clear() and close() fail for ever |
| `Controller_null.cfg` | `MCController` | `KindsKept` | send() with a null gain packs no body (logic.hpp:75); the phases of the last gain are sent as duties |
| `Controller_torn.cfg` | `MCController` | `KindsKept` | a frame torn by the unguarded copy has the duties under the header of the phases; its repetition is ignored |
| `Controller_wraps.cfg`, with `"clear"` among its `Calls` | `MCController` | `NoFalseAck` | so many clear() in a row that the ids come round leave every device with an old acknowledgement, which the next call believes |

Noted, without a model: cpu/README.md and fpga/README.md give 0x2 as the select bits of the config RAM, app.c:23 and top.sv:40 use 0xF;
after CLEAR the cycle is 0, so nothing is latched any more and the registers keep the duties and phases of the last period, for which
the comparisons make a constant level (`OutputWithoutPeriod`): high, unless duty and phase delay are both 0; error_handle in a
callback that outlives stop(), on Linux and macOS, can bring slaves up again that close() has parked.

## 7. Not modelled, and why

- SOEM, the EtherCAT slave stack, RAM and clock cores: not in the repository or vendor configuration; the models assume what their callers do.
- Adapter enumeration and exceptions, the texts error_handle collects: lists and words without state.
- Floating point: positions, rotations, wave numbers, to_duty and to_phase. `PwmGenerator` takes any duty and delay; the ideal pulse is stated for those within the period. A phase below -pi
  leaves `fmod` negative (utils.hpp:39), whose conversion to uint16_t has no defined value.
- Durations: the models have the order of things, not how long they take. `cycle_ticks` is a scale of time.
- Debug outputs (top.sv:259-276), test bench, constraints, build files, CI, firmware images. The examples are users `Session` allows.
- Two controllers or calling threads in one process.

## 8. Plan

Written, checked and, in the theorems above, proved: `SOEMLink` with `FrameLink`; `PwmGenerator` with `DelayLine`; `DutyPhaseSet`;
`ConfigControl`; `TransducerMap` and `WordPath`; `CpuFirmware` and `Controller` with `Transfer`; `OsTimer`, `SlaveRecovery` and
`LinkLifecycle` with `LinkHealth`; `Geometry`, `FirmwareVersion` and `Session`. Next:
1. `NothingIsIgnored` and `GainsAreWhole` for a link that skips images, as `FrameLink` does with `Skips = 1`: what still holds when one message of
   two may be lost.
2. What is left of `SlavesParked` and of the image on Linux and macOS, where stopping a timer does not wait for its callback, under an assumption about
   how long a callback takes.
