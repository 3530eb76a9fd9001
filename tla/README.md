# piControl in TLA+

piControl is the Linux kernel driver of the Revolution Pi.  A real-time I/O thread exchanges process data
with the modules on the PiBridge, once per cycle; applications control it, and read and write the process
image, through `/dev/piControl0`.  This directory models the parts of the driver in which several threads
meet, and what it makes of its configuration, checks the models with TLC and proves their invariants, their
refinements and the timers with TLAPS.

All paths below are relative to `src/src/` of the repository.

## 1. Inventory

| Component | State it keeps | Operations | Interacts by | What is hard | What makes it correct |
|---|---|---|---|---|---|
| Bridge state machine, `PiBridgeMaster.c`, `revpi_core.c` (`piIoThread`) | `piCore_g.eBridgeState`, `eRunStatus_s`, `bEntering_s`, `init_retry`, the device table, RUNNING | `PiBridgeMaster_Run` (one call per cycle), `_Stop`, `_Continue`, `_Reset` | `lockBridgeState`; the unlocked flags RUNNING, `eRunStatus_s`, `bEntering_s`, `i32sRetVal` | cycles that hold the lock for long, retries, error limits, stops in the middle of anything | it runs only with compared modules; the scan is repeated before a module is given up; start-up ends |
| Ioctls that control the bridge, `piControlMain.c`, `piFirmwareUpdate.c` | `lockIoctl`, `devs`/`ent`/`cl`/`connl` (the configuration) | KB_RESET, KB_CONFIG_STOP/START, KB_UPDATE_DEVICE_FIRMWARE, PICONTROL_UPLOAD_FIRMWARE, KB_INTERN_SET_SERIAL_NUM, KB_FIND_VARIABLE | calls of the bridge's operations; polling of flags | ioctls without `lockIoctl`, flags read once and used later, the hand-over of a firmware command without a lock | the configuration in use is the one the driver holds; a command is executed exactly once; firmware is transferred over a quiet bus |
| Instances and events, `piControlMain.c` | `listCon`, `piEventList` | open, release, KB_WAIT_FOR_EVENT, announcement of a reset | `lockListCon`, `lockEventList`, a wait queue | the list is walked through by three threads; files shared by threads | no freed instance is visited; every other instance learns of a reset |
| Output supervision, `revpi_common.c` (`revpi_check_timeout`), `revpi_core.c` | `tTimeoutTS`, `tTimeoutDurationMs`, `tLastOutput1/2` | KB_SET_OUTPUT_WATCHDOG, write, KB_SET_VALUE, KB_SET_EXPORTED_OUTPUTS, KB_STOP_IO | time stamps without locks, the process image under `lockPI` | stamps and data are separate writes; only one expired instance is served per cycle | a silent application's outputs become 0, an export is never mixed with zeros |
| mGate connection, `revpi_gate.c` | list of connections (SRCU), counters, two delayed work items each | receive thread, `send_work`, `destroy_work`, `revpi_gate_init/fini` | packets; `revpi_gate_connections_lock`; started and stopped by the bridge | lost, repeated and late packets; lifetimes of connections; shutdown | nothing is used after it was freed, one neighbor per device, a silent neighbor's inputs become 0, the shutdown ends |
| Internal I/O telegrams, `piControlMain.c`, `RevPiDevice.c` | `requestUserTel`, `responseUserTel`, `pendingUserTel`, `statusUserTel`, the same for the gate; two semaphores | KB_DIO_RESET_COUNTER, KB_RO_GET_COUNTER, KB_AIO_CALIBRATE, KB_CONFIG_SEND, KB_INTERN_IO_MSG, KB_INTERN_GATE_MSG | two mailboxes to the I/O thread | uninterruptible wait for an answer; one buffer for the answers to all clients | each request is served once, with its own answer, and the ioctl returns |
| Device table, `RevPiDevice.c`, `PiBridgeMaster.c` (`_Adjust`, `_setDefaults`) | `RevPiDevices_s` | scan dialogue, termination of the bus, comparison with the configuration | the bridge state machine | repeated addresses, a full table, entries added by the comparison, modules that keep what an earlier scan told them | no two modules share an address or a byte, the ends of the bus terminate it |
| Cyclic exchange, `piDIOComm.c`, `piAIOComm.c`, `revpi_ro.c`, `revpi_mio.c`, `piIOComm.c` | caches of sent outputs, error counters | configuration of each module, one exchange per module and cycle | process image, serial line | lost telegrams and cached outputs; KB_STOP_IO without a lock | the module's outputs become those of the image, or 0 |
| RevPi Compact and Flat, `revpi_compact.c`, `revpi_flat.c` | private image, ADC state | two kernel threads each, a reset that waits for one of them | process image under `lockPI` | a configuration that changes below a polling thread; failing converters | image and hardware agree; a failure is reported |
| Firmware upload, `piFirmwareUpdate.c`, `RS485FwuCommand.c` | position in the file | erase, chunked write, repeat, reset | serial line | lost acknowledgements | success means that every chunk is written |
| Configuration, `piConfig.c` | `devs`, `ent`, `cl` | parse, move and order the entries, merge the copy list | ioctls, drivers of the modules | offsets and bit positions | the copy list covers every exported bit once; each variable has its own place |
| Process image, `piControlMain.c` | `ai8uPI`, `ai8uPIDefault` | KB_FIND_VARIABLE, KB_GET_VALUE, KB_SET_VALUE, read, write, seek, KB_SET_EXPORTED_OUTPUTS | `lockPI`, exchange, configuration | boundaries, bits, joined copies | it is a store of named variables |
| Timers, `kbUtilities.c`, `systick.c` | start and duration of each timer | start, query | | 32 bit wrap-around | a timer expires when its time is over |
| Cycle statistics, `revpi_core.c`; probe, sysfs, LEDs, watchdog pin; protocol headers, `json.c` | | | kernel | | not modelled, see section 6 |

`PROJECT.json` lists the same components with their status, and under `hazards` each place where this code
is hard to test, with the properties that watch it.

## 2. The modules

### PiBridgeMaster: the bridge state machine

One action per state of the `switch` in `PiBridgeMaster_Run`, plus `Stop`, `Continue` and `Reset`.  All of
them run under `lockBridgeState`, so a short one is a single action.  Where the I/O thread spends
milliseconds inside the lock while others use, without that lock, what it works with, the cycle is split and
`io` says where the thread is:

- `adjust`, `start`: `PiBridgeMaster_Adjust()` reads the configuration, then the first exchange;
- `continue`: the modules are switched to data exchange again;
- `gate`: `piIoComm_gotoGateProtocol()`, after which `eRunStatus_s` is overwritten;
- the name of a firmware command: the command is being executed.

Abstractions: the modules are a number (`devCnt`), the configuration a model value, a telegram succeeds or
fails, a timer expires in a later cycle than the one that started it.  `tableConf` says with which
configuration the device table was compared (`Unset` after `RevPiDevice_init()`): it stands for the offsets
that the exchange uses.  `gate` counts the calls of `revpi_gate_init/fini`.

### PiControlIoctl: the ioctls, composed with the I/O thread

A client is one open file with one thread in it.  `pc` is the place between two points at which another
thread matters: taking `lockIoctl`, `isRunning()`, each operation of the bridge, each of the three unlocked
writes of `PiBridgeMaster_FWU...()`, each `msleep()`.  The ioctls without `lockIoctl` (KB_CONFIG_START,
KB_FIND_VARIABLE) have places of their own.  `piControlReset()` frees the configuration, reads it (which may
fail), resets the bridge, waits up to ten seconds for RUNNING and announces the reset.  Where there is no
configuration nothing is freed, and a reader ends at once: nobody uses a configuration without having one.

Two parameters name what the code relies on and does not enforce: `SleepCoversCycle` (no cycle of the I/O
thread is longer than the `msleep(50)` after a stop; `PICONTROL_CYCLE_MAX_DURATION` is 45 ms) and
`WaitTimesOut` (the bridge may need more than ten seconds to start).  Memory accesses are sequentially
consistent: the driver reads `bEntering_s`, `eRunStatus_s` and `i32sRetVal` without barriers.

### BridgeService: the abstract specification

Three states, and a layout of the process image that can only be taken while the bridge is being
initialised, without which it cannot run.  `Service` in PiControlIoctl is the refinement mapping
(`bridge <- eBridgeState`, `layout <- tableConf`).

### Instances: open files, events, output supervision

The list of instances, `piControlOpen/Release` step by step, the event lists, the watchdog of an instance,
the supervision of the main application's exports, write.  The time stamps are kept as differences to a
clock that ticks at any time; what the code compares are differences.  The process image is abstracted to
"some outputs are set" and who set them last.  Several threads may use one instance, as the threads or the
children of a process do.

### GateConnection: the mGate protocol

The receive thread, `send_work`, `destroy_work`, `revpi_gate_fini/init`, SRCU as the set of readers that a
grace period waits for, delayed work as a set of pending items that may run at any time.  The neighbor and
the network send every packet with every counter at any time.  Counters go to `MaxCtr` instead of 255.  KB_STOP_IO
may be set or not at each test of it, so that an action that tests it has the outcome as a parameter (`stopped`):
while it is set inputs are neither stored nor zeroed, also not those of a connection that goes.

### CyclicExchange: the I/O thread and its modules

`RevPiDevice_run()` telegram by telegram: the flag of KB_STOP_IO is tested, the outputs are read under
`lockPI`, the request is sent, arrives or not, is answered or not, the flag is tested again, the inputs are
stored.  A module is its kind and a few words: `Pins`, which are in every telegram, and channels (PWM values
of a DIO, analog outputs of a MIO), which are sent when they differ from `cache`.  A DIO's cache is written
before the telegram is sent, a MIO's after it was answered.  `stale` is a history variable: the channels the
driver may be wrong about.  Before the first cycle each module gets its configuration telegrams.  The module
itself (`modOut`, `gotConfig`) is external: it shows what it is sent.

### InternalTelegram, RequestService, FirmwareUpload, BridgeRequests: ioctls for one module

InternalTelegram has the two mailboxes: `box[b]` is the request with its owner, the answer in two halves (a
short answer fills only one) and the semaphore.  The bridge is reduced to its state: KB_RESET and
KB_CONFIG_STOP change it under `lockIoctl` (`Manage`), KB_CONFIG_START without (`ConfigStart`), so that it may
start the bridge below the ioctl of another client.  What an ioctl returned is kept till the next step only.
RequestService is what it promises: a call is served once, and then returns.  FirmwareUpload has both transfers,
`upload_firmware()` and `FWU_update()`, to an external module that listens, erases, writes and answers, or
does not.  BridgeRequests puts the two under one `lockIoctl` and one bridge.  After a transfer the bridge is
reset, but an update that had nothing to update continues it.

### Compact, Flat, Standalone: machines without a bridge

Compact has the thread of the outputs with the test of KB_STOP_IO outside the lock, the thread of the analog
inputs with the completion that the reset waits for, and the reset in five steps.  Flat has no handshake.
Standalone chooses the machine once, as the probe does, and instantiates both.  The converters keep their
value over a probe, so that at the beginning it is any one; the Compact forces a first write by remembering -1,
which in a `u16` is 65535 (`Unwritten`), the Flat forces none.

### ConfigFile, DeviceTable, ProcessImage, VariableStore, Layout: where a variable is

ConfigFile is `piConfigParse()` behind the JSON parser, as functions: devices, entries, offsets, areas, copy
list, defaults.  A value and the process image are sets of one-bits, so that a byte, a bit and a word are
intervals.  DeviceTable is the scan with its telegrams (`Look`, `Dialogue`, `Detect`), the comparison with the
configuration on each machine, and the configuration of the drivers (`slots`).  The modules plugged in (`bus`)
and what they were told (`scan.told`, `term`) are external.  A module that stays plugged in keeps its
termination over a reset; the base can terminate only with an optional GPIO (`BaseTerminable`).  ProcessImage
has the accesses of the applications and the exchange.  A core stores the inputs of its base at the offset of
the device table, Compact and Flat in every cycle at offset 0 (`BaseOffset`).  VariableStore knows of names
only; Layout composes the three and is shown to implement it: each variable of the file, found by its name, is
written, exported, delivered and kept as if nothing else were in the image.  While it is
used a variable changes only if an application writes it (`Written`) or exports it, or if it is an input that its
own module delivers.

### Timers

`kbUT_TimerStart()`, `kbUT_TimerExpired()` and the others over a counter of `Width` bits.  There are no
states of its own; the module is proved, not run.

### How they fit together

PiControlIoctl extends PiBridgeMaster and is the composition of the I/O thread with the clients.
GateConnection details what PiBridgeMaster calls `GateInit` and `GateFini`; Instances details what
PiControlIoctl calls `resetEvent`, and what the I/O thread does after `PiBridgeMaster_Run()` returned.
CyclicExchange details `RunExchange`, and `io = "start"` or `"continue"`; DeviceTable details the scan and
`PiBridgeMaster_Adjust()`, `tableConf` stands for its offsets; BridgeRequests details what the I/O thread does
with the mailboxes at the end of a cycle, and the firmware commands.  Each of these keeps of the bridge only
the states in which its own part runs.

## 3. What the runs check

| Run | Module | Bounds | What it shows |
|---|---|---|---|
| `ioctl_safety` | MCPiControlIoctl | 2 clients, 2 configurations or none, 1 module on either side | `IndInv`; the configuration is fresh, a missing module was retried, commands are executed once before they return, firmware meets a quiet bus, resets are announced, the layout is stable, the bridge implements BridgeService |
| `config_start` | MCPiControlIoctl | the same, with KB_CONFIG_STOP/START, error limits and an ethernet side | the stability of the layout survives KB_CONFIG_START |
| `ioctl_returns` | MCPiControlIoctl | 2 clients, no module, mGate | gate handler started and stopped in turns; every firmware ioctl and KB_CONFIG_STOP returns (KB_RESET and KB_INTERN_SET_SERIAL_NUM are not in the run); every start ends |
| `instance_lists` | MCInstances | 2 instances, periods 0 and 1 | no freed instance is visited, a closed instance leaves no outputs, an export is undisturbed |
| `supervision` | MCInstances | 2 instances, period 1 | a silent application's outputs become 0, by its watchdog and by the supervision of exports |
| `gate_lifetimes` | MCGateConnection | 2 connections, counters 1..2 | no use after free, one neighbor, a time-out is always armed, stored inputs only with a neighbor (those of a neighbor that goes while I/O is stopped are left as they were) |
| `gate_fini` | MCGateConnection | 1 connection, counters 1..2 | the shutdown ends, a silent neighbor leaves |
| `exchange` | MCCyclicExchange | tables of 1 or 2 modules, all kinds, 1 channel, 2 values, error counter to 2, error limit 1, 1 restart | a stop of the I/Os takes effect within one telegram and zeroes the outputs; an answered module shows the outputs of the image but for channels named in `stale`; only configured modules take part |
| `requests` | MCBridgeRequests | 2 clients, 3 modules, 2 chunks, 2 attempts, with KB_CONFIG_START | own answers, served once (RequestService), success of a transfer means complete flash, nothing is written on flash that was not erased, every ioctl returns |
| `standalone` | MCStandalone | 2 inputs, 1 analog output, 2 levels (0 and 65535), 2 configurations | disabled inputs read 0 after a reset, failures are reported (but for the two cases below), outputs follow, the reset returns |
| `layout` | MCLayout | 3 configurations, 2 buses of up to 3 modules, an image of 13 bytes, 1 lost dialogue per module, 1 retry of the scan | the table is sound, the bus terminated (by the base where it can), each driver has its own parameters, the image implements VariableStore |
| `find_during_reset` | MCPiControlIoctl | 2 clients | VIOLATED: a configuration is freed while a client reads it, or while the I/O thread compares the modules with it; whoever begins without one is not counted |

The violated one is a disagreement between the code and a comment; the finding in PROJECT.json quotes both.
The other runs hold for what the code does, under these premises:

- `ioctl_safety` has no KB_CONFIG_START and no `WaitTimesOut`.  With KB_CONFIG_START, a bridge that is still
  starting is set running without having been compared with the configuration, and a firmware command may
  return unexecuted, or never.  With a start that takes more than ten seconds the reset is not announced at
  all, although the bridge may run later.  No property covers these two hazards: with KB_CONFIG_START only
  `LayoutStable` is checked, and the properties of `requests`.
- `GateBalanced` needs that nobody resets a bridge that is just starting, that there is no error limit, and
  no KB_CONFIG_START.  Otherwise handler and thread are started or stopped twice: `PiBridgeMaster_Reset()`
  does not stop the handler of a bridge that got running after `isRunning()` was false, and
  `PiBridgeMaster_Stop()` stops it again after the error limit already has.  What the run shows is that updates,
  uploads and KB_CONFIG_STOP of several clients keep the turns; it is not proved.
- `StartupCompletes` ends with another reset as well, and needs that an exchange succeeds now and then.
- `ExportsSupervised` excludes the moment in which the I/O thread is about to forget the stamps of an
  earlier silence (`revpi_core.c:191`): an export in that moment is not supervised until two more follow.
- `OutputsShown` and `StopZeroes` exclude the channels of a DIO that a lost telegram left the driver wrong
  about, `ActiveConfigured` the MIO, whose configuration is not checked (`revpi_mio.c:332`).
- `TableSound` excludes the Flat, which adds the devices of the file without a comparison.  `BusTerminated`
  excludes sides whose scan lost the telegram that sets the termination, gave up, or repeated an address, and
  says of the base something only if it has the optional GPIO.  Of two modules that got one address by a repeated
  telegram the table knows only one, so that `TableSound` does not see them.
- `OwnParameters` needs that each AIO of a file lists the same parameters, as PiCtory writes them; otherwise
  those of the AIO that had the slot before survive, and it fails.
- `GoneInputsZero` is about inputs that the receive thread stored while nobody had stopped I/O: KB_STOP_IO keeps
  `revpi_gate_destroy_work()` from zeroing them (`revpi_gate.c:122-123`).
- `FailureReported` makes two exceptions: 65535 on a Compact before the first successful write, and a Flat
  before the first write.
- `StoreImplemented` is about the files that PiCtory writes: no two variables overlap, the inputs of a device
  lie together, and exported outputs are in ascending order (`VariableAssumption` of Layout; the code gives up
  the whole copy list otherwise); a variable has 1, 8, 16 or 32 bits, the lengths for which there are ioctls
  and defaults.  A Compact or Flat must have its base at offset 0 in the file, as PiCtory puts it
  (`StandaloneAssumption`, `StandaloneFiles`).

The code does not do what it is meant to in these places, which the modules state next to the other
properties (under "What the code is meant to do and does not") and TLC refutes; no run keeps them:

| Property | Module | What happens |
|---|---|---|
| `StoppedMeansOff` | CyclicExchange | a PWM channel of a DIO whose telegram was lost is not sent again, so that KB_STOP_IO leaves it on |
| `RtsZeroedAfterSilence` | Instances | the stamps of an application's exports are compared while it shifts them: an exporting application is taken for a silent one |
| `EventFound` | Instances | two threads of one file wait for an event; the second takes it from an empty list |
| `FiniCompletes` | GateConnection | `revpi_gate_fini()` returns before `destroy_work` is done |
| `IoctlReturns`, `CommandCompleted`, `ServiceImplemented` with KB_CONFIG_START | PiControlIoctl | a client waits for ever for its firmware command, holding `lockIoctl`, or returns without it; the bridge runs without a comparison |
| `ResetAnnounced` with `WaitTimesOut` | PiControlIoctl | a bridge that starts later than ten seconds after the reset runs without the event |
| `OwnParameters` without `ParameterAssumption` | Layout | an AIO is configured with parameters of the AIO that had its slot before |
| `StoreImplemented` without `StandaloneAssumption` | Layout | Compact and Flat store their inputs at offset 0, over the variables of the device that the file has there |

Three more places are in the models, and the properties except them: a Flat does not write its analog output
before the image changes, so that after a new probe the DAC may differ from the image and nothing says so
(`revpi_flat.c:106-128`, `301-398`); the first value 65535 is not written by a Compact, whose -1 is the same
`u16` (`revpi_compact.c:148-150`); and the mask of a copied variable of more than eight bits is a shift by a negative
amount, which is undefined (`piConfig.c:853-854`, `WideMask`): it is looked at only where two entries begin in
the same byte, which variables that do not overlap never do if one of them is so wide.

Why the bounds are enough.  `lockIoctl` admits one client, so that a second one is needed to be in an unlocked
ioctl, to take an event or to have looked at RUNNING before; a third one would repeat what the second does
(the proofs are for any number).  Two configurations tell old from new.  One module suffices for a scan that
finds a module, one that misses it, and a failed dialogue; zero are enough for the hand-over of commands and
for liveness.  For the connections, one that is on its way out and one that is new; 1..2 tells a repeated
counter from a new one and wraps around.  In `exchange` each module has its own cache and its own counter and
they meet only in the order of the telegrams and in the sum of the errors, for which two modules are enough;
one channel is changed or not; two values tell the image from what is shown.  In `requests` two chunks make an
end, a middle and an order, two attempts a repetition and a last one; a module is updated next to the base or
as the last one (`Positions`), which listens at another address; the other two positions have the same two
addresses.  In `standalone` an input that stays enabled and one that does not, and the level that the Compact
takes for written.  In `layout` the modules have few bytes each, but their lengths differ, so that a wrong
offset meets the neighbor; the outputs are sixteen bits, so that bits lie in the second byte; the bus finds,
misses and adds modules and has more and fewer than the file; the gateway is before the base in the file, so
that the base is not at the start of the image.

Bounds that leave out behaviour.  In `exchange` a restart happens once.  In `layout` a bridge is reset only
while the image is as its start has left it, and the use of the image after a scan that lost telegrams is
not explored (`UseDisturbed`); both would multiply the states by contents of an image that the start sets
anew.

Symmetry.  Clients, configurations and connections are interchangeable, which the safety runs of
PiControlIoctl and GateConnection use; the runs with liveness do not.  `gate_lifetimes` does not distinguish
states by `out_ctr` and the status bits, which no guard reads.

Deadlock is not checked where the system may stop, because nobody has to issue an ioctl, as in the runs of
PiControlIoctl and `exchange`, or where a machine has come to rest, as in `layout`.

Fairness.  The I/O thread is a real-time kernel thread that never stops cycling (weak fairness of its step).
`RunExchange` is strongly fair: this is about the modules, one of which could fail in every cycle; the same
in `exchange`, for the answer of each module.  A client inside an ioctl is scheduled (weak), and one that
waits for `lockBridgeState`, or for the lock of a mailbox, gets it (strong): they are rt_mutexes with a
queue, and the I/O thread sleeps without them till its next cycle.  Nobody has to issue an ioctl.  In
Instances the clock runs, the I/O thread cycles, and whoever waits for `lockPI` or `lockListCon` gets it.  In
GateConnection threads and work items that can run do, timers expire, and no packet need arrive.  In
`standalone` the kernel schedules the threads, and an analog output of the Compact that is written again and
again succeeds once (strong), because the code retries in every cycle; of the Flat nothing of the kind is
assumed, and nothing claimed about its analog output.  An ended transfer of firmware needs no fairness of
the bus: its attempts are bounded.

Every property of a passing run has a mutant in PROJECT.json: a change of the model as a plausible mistake
in the code would make it (a dropped `clear_bit()`, a missing lock, a counter that is not decremented), by
which TLC finds the property violated.  The mutants stand in the modules in front of what they replace.
The types of a module's variables are in its `TypeOK`.

## 4. What is proved

`PiControlIoctl_proofs` proves, for any number of clients, modules and configurations:

| Theorem | Statement |
|---|---|
| `Invariance` | `Spec => []IndInv` |
| `Types` | `Spec => []TypeOK` |
| `CommandsComplete`, `FirmwareAlone` | a firmware command returns executed, exactly once; firmware is transferred over a stopped bridge in the gate protocol, by one thread |
| `ConfigIsFresh`, `LayoutIsStable` | the offsets in use are those of the configuration the driver holds, and do not change while RUNNING is set |
| `OnlyAdjustedRuns`, `MissingAfterRetry` | the bridge never skips the comparison, nor the retry of the scan |
| `ResetsAnnounced` | every other instance has or had the event of every new configuration |
| `BridgeImplementsService` | `Spec => Service!Spec` |

`Timers` proves, for counters of any width,

| Theorem | Statement |
|---|---|
| `ExpiresInTime` | a timer of a duration below the range of the counter is expired exactly when that many milliseconds have passed since it was started, if it is asked before the counter has come round once more, wherever it wraps around |

and that its expiry is reported once.  It rests on four lemmas about remainders; `Width` is 2^32 in the code.

`BridgeRequests_proofs` proves, for any number of clients, modules, chunks and attempts:

| Theorem | Statement |
|---|---|
| `Invariance` | `Spec => []IndInv` |
| `AnswersAreOwn` | no byte that an ioctl returns belongs to the answer to another client's request |
| `SuccessMeansWritten`, `ErasedBeforeWritten` | a transfer that reports success has written the whole firmware; a chunk is written only where the flash was erased, or where it was written before |
| `MailboxesImplementService` | `Spec => ServedOnce`, that is, `Service!Spec`: an accepted request is served once, and its ioctl returns only then |

Its theorems need the assumptions about the constants only (`TelegramAssumption`, `FirmwareAssumption`).
`LockInv` and `PlaceInv` say that one client at a time is inside of an ioctl; `QuietInv`, that a mailbox is
in use only by a client that waits for it, so that the next one finds it empty and its semaphore at zero;
`BoxInv`, that a waiting client's box holds either its own request, not answered yet, or the one answer to
it, until it is collected.  `WritingInv` and `WrittenInv` relate the position in the firmware to the flash.
For the refinement `Call` is `Ask`, the answer of the I/O thread is `Serve`, and `Collect` is `Return`;
every other step stutters.

Assumptions of PiControlIoctl's theorems: the constants' own (`BridgeAssumption`, `IoctlAssumption`, which
TLC evaluates in every run), and, as hypotheses of the theorems, that nobody issues KB_CONFIG_START and that
`SleepCoversCycle`;
`ResetsAnnounced` also that `~WaitTimesOut`.
Section 3 says what happens without these.

The argument for PiControlIoctl.  None of the properties is inductive, because they depend on who may be
where.  `IndInv` adds:

- `LockInv`, `PlaceInv`: one client at a time is past `lockIoctl`, and each ioctl visits its own places;
- `CycleInv`: what the I/O thread found when it took `lockBridgeState` stays true until it releases it,
  because `Stop`, `Continue` and `Reset` wait for the lock;
- `StopInv`: from the stop of an ioctl up to its last command the bridge stays stopped, and after the
  `msleep()` the I/O thread is out of the data exchange for good.  Without that sleep a command could be
  overwritten by the I/O thread when it leaves the exchange;
- `EnteringInv`: while the bridge is stopped `bEntering_s` belongs to the client that polls it, and its value
  with `executed` and `io` says how far the command is;
- `BusInv`: modules that still exchange data are a reason for the I/O thread to notice the stop;
- `TableInv`: the offsets are those of the configuration, or unset, except between the reading of a new
  configuration and the reset that follows;
- `RetryInv`: a client that may continue the bridge found it running, so that the retry was done.

Each part is preserved by the steps of the I/O thread and by those of a client; there is one lemma for each
(`IoThread...`, `ClientStep...`), one case per action.  `EventInv`, which needs `~WaitTimesOut`, is carried on top
of `IndInv`.  The
refinement follows from `CycleInv` and `TableInv`.

`Instances_proofs` proves, for any number of instances and threads, from `InstancesAssumption`:

| Theorem | Statement |
|---|---|
| `Invariance` | `Spec => []IndInv` |
| `WalksMeetNoFreed` | `Spec => []ListedAlive`: no walk through the list meets a freed instance |
| `ReleaseZeroesOutputs` | `Spec => []ClosedLeavesNoOutputs` |
| `ExportsAreUndisturbed` | `Spec => ExportUndisturbed`, an action property |

`ListInv` says that the list holds each open instance exactly once, between `list_add` and `list_del`;
`WalkInv`, that only the holder of `lockListCon` has something left to visit, all of it in the list, which is
why nothing it visits can have been freed; `CallInv`, that a thread inside of a call keeps its file open, so
that `piControlRelease()` cannot run, and has `lockPI` while it exports.

`GateConnection_proofs` proves, for any number of connections and any counters, from `GateAssumption`:

| Theorem | Statement |
|---|---|
| `Invariance` | `Spec => []IndInv` |
| `FreedIsUnused` | `Spec => []NoUseAfterFree` |
| `NeighborIsOne` | `Spec => []OneNeighbor` |
| `TimeoutIsArmed` | `Spec => []TimeoutArmed` |
| `GoneInputsAreZero` | `Spec => []GoneInputsZero`: without a neighbor no inputs are in the image, but those that a stop of I/O kept from being zeroed |

The life of a connection is in `destroying`: `LifeInv` says in which of its steps it is listed and in which
allocated, `WorkInv` that no work is queued or runs after the step that cancels it, and `HoldInv` that
`destroy_work` does not get past `synchronize_srcu()` while the receive thread has the connection: it is that
step that makes the thread's pointer safe, and neither the list nor the work items do.  `NeighborInv` says
that a packet which found no connection meets an empty list, because only the receive thread adds to it.

`CyclicExchange_proofs` proves, for any table of modules, channels, values and limits, from
`ExchangeAssumption`:

| Theorem | Statement |
|---|---|
| `Invariance` | `Spec => []IndInv` |
| `StopWithinOneTelegram` | `Spec => []StopTakesEffect` |
| `OnlyConfiguredTakePart` | `Spec => []ActiveConfigured` |
| `CacheIsTrue` | `Spec => []CacheTrue`: what the driver remembers as sent is what the module shows |
| `AnsweredShowsOutputs` | `Spec => []OutputsShown` |

`TelegramInv` says which words a telegram has at each place and that a DIO takes them for sent before they
are, a MIO after; `CacheInv`, that the cache may therefore differ from the module only in the words of the
telegram in hand and in stale channels; `ShownInv`, that the module shows an answered telegram.  Together they
show that sending only what differs from the cache is enough.  `StopInv` is the one telegram that may pass the
flag between its test and its use, `ConfigInv` the position in the configuration of the modules.

`Standalone_proofs` proves, for any inputs, outputs, levels and configurations, from `StandaloneAssumption`:

| Theorem | Statement |
|---|---|
| `Invariance` | `Spec => []IndInv` |
| `ResetIsAdopted` | `Spec => []AinReflectsConfig` |
| `FailuresAreReported` | `Spec => []FailureReported`, for converters that begin with any value; with the exceptions of section 3 |

`HandshakeInv` says at which places of the reset the thread of the analog inputs may be where, so that the
completion which the reset waits for cannot be one of an earlier reset; `AinInv`, that at any time the thread
polls the inputs of one configuration and the others read 0; `AoutInv` and, for the Flat, `DoutInv`, that a
value the thread remembers is shown, or its failure reported.

`Layout_proofs` proves, for any modules on the bus, any configurations and any lost telegrams:

| Theorem | Statement |
|---|---|
| `Invariance` | `Spec => []IndInv` |
| `OutermostTerminates` | `Spec => []BusTerminated`, whatever an earlier scan left terminated; of the base if it has the GPIO |
| `TableInvariance` | `Spec => [](IndInv /\ machine \in Machines /\ TableInv)` |
| `PlacesOfDevices` | `Spec => []TableSound` |
| `ParametersOfModules` | `Spec => []OwnParameters` |
| `StoreInvariance` | the same as `TableInvariance`, with `StoreInv` |
| `ImageIsStore` | `Spec => StoreImplemented`, that is, `Store!Spec`: the process image is a store of named variables |

They rest on `BusAssumption` (a gateway is the outermost module of its side: the driver never terminates a
side that has one) and, for the table, on two more that the driver relies on without looking.
`RoomAssumption`: there are addresses for the modules at the left, and the image has room for all modules one
behind the other.  A RevPi has a handful of modules per side with some dozen bytes each, a gateway up to a
thousand, and 4096 bytes; it matters where no file says how they lie.  `FileAssumption`: what a file declares
has its type (addresses, offsets and positions are naturals, a variable has one of the four lengths), and its
devices have different addresses and areas that do not overlap and are inside of the image.
`ParametersOfModules` also needs `ParameterAssumption`, and `ImageIsStore` needs `VariableAssumption`,
`StandaloneAssumption` (which also says that the files of a Compact or Flat are among the files) and
`PatternAssumption` (what an application or a module writes is a set of bits); section 3 says what they mean
for files.  TLC evaluates all of them for the files of `layout`.

`CountInv` relates, at each step of the scan, the modules of a side that were told their address to those that
count as found: they are the same until a telegram is lost, fewer afterwards.  Any module may come with a
termination from an earlier scan, but for gateways, which no scan ever terminates (`OldTermination`).  `TermInv`
says that of the modules found one behind the other only the last is terminated, and only while nobody looked for
another one: what an earlier scan left is corrected on the way, because each module is found once more.
`TermPlaces` says that nothing else is terminated.

The table is in one of two orders (`TableInv`).  While the bus is scanned, and afterwards if there is no file,
`ChainInv`: each entry begins where the one before ends, and `OrderInv` and `ReachedInv` bound its addresses
and its end by what was told, so that the next module has a new address and fits.  After the comparison
`PlacedInv`: whatever is active has the place that the file gives to its address.  It must include entries
that are not active yet because their gateway is not connected (`Live`): `FindGate` switches one of them on
without a comparison.  `AdjustedTable` is the step from the one order to the other: a module that stays active
matched a device of the file, the devices appended are exactly those that nothing matched (`Taken`), and none
is appended twice (`NthElement`).

What the loops over a file compute is recursive, over the devices (`Counted`), the entries (`SetDefaults`) and
the copy list (`CopyList`).  Induction is done without the library's theorems: `Induction` says, of a set
instead of a predicate, that what holds at 0 and goes from each number to the next holds up to n, because
otherwise there is a least number outside of it (`MinElement`); `Recursion` uses it to show that a loop of n
steps is a function, which the equation of a recursive function then defines.  Four chains of lemmas follow.

- Finding the entries.  `CountedEntries` and `EntriesFound`: the entries from `i16uFirstEntry` on, as many as
  the device has, are the entries of that device, because `Counted` and the flattening count alike
  (`Offsets`).  With `SameParameters` and the parameters a driver keeps (`SlotsInv`), this is `OwnParameters`.
- Places.  `ParsedEntry` says where an entry is after base offset and bit position were put in order;
  `EntriesSound`, that each is whole bytes, or one bit, inside of the image, and that no two overlap
  (`SoundEntries`).  `FoundVariable`: a name finds its own entry.
- Accesses.  `Held(img, e)` is the value of an entry, bit by bit.  `GetHeld` and `SetHeld`: reading by bytes, with
  the cut at the end of the image, or by a bit, gives it, and writing changes it and no entry that does not
  overlap.  `DefaultsHeld` and `SetDefaultsHeld` say the same of both ways to preset the image.  `CopyListCovers`: the
  joined copy list covers exactly the bits of the exported outputs.  `KeptList`: it passes the test of its
  order, so that it is not thrown away; `JoinedList`: joining an entry adds its bits and no others.
- Steps.  `StoreInv` carries what a step needs of earlier ones: the inputs of the base are stored where the
  file has its device (`OffsetInv`; on a Compact or Flat at 0, by `StandaloneAssumption`), those of a module
  where the file has them (`PlacedInv` of the table), and from the end of the scan to the start the defaults
  are in the image (`DefaultInv`).  `SetStep`, `ExportStep`, `InputStep`, `StartStep` and `RestartStep` map
  the actions to `Write`, `Export`, `Deliver`, `Start` and `Restart` of VariableStore; resets of a core are
  its `Reset`, and the scan stutters.

Only model-checked: the temporal properties that need fairness (`IoctlReturns`, `StartupCompletes`,
`SilenceZeroes`, `ExportsSupervised`, `FiniReturns`, `SilentNeighborLeaves`, `StopZeroes`, `CallsReturn`,
`OutputsFollow`, `ResetReturns`), as liveness is beyond TLAPS, and `GateBalanced`, which holds only in the
environment of its run.  Every other property of a passing run is stated by a theorem.

## 5. Plan

What is open, in the order of its use:

- Liveness for any number of clients and modules would need proofs by hand; what TLC checks is the smallest
  instance of each protocol.
- PiControlIoctl and Layout know the same configuration by its name and by its contents.  Their composition,
  in which KB_FIND_VARIABLE looks up a name during a reset, would show what an application does with an offset
  of the configuration before.
- The drivers' status words and the conversion of analog values, and the table of PT100 resistances, as
  functions against a reference.

## 6. Not modelled

- The syntax of the configuration: `json.c` is a third-party parser, and a file is a sequence of devices
  here.  `piConfig.c` also reads a list of connections, which nothing uses.
- Cycle statistics: counters that nothing in the driver reads, decided by the timing of the kernel.
- Conversions: the table of PT100 resistances, CRC, byte order, numbers to text.  They have no state, and a
  reference definition would repeat them.
- Contents: the values of inputs in CyclicExchange, of packets in GateConnection, of configuration telegrams
  beyond the parameters in DeviceTable.
- Probe and removal, sysfs, LEDs, the watchdog pin, trace points, packaging: resources of the kernel without
  a protocol of the driver.  The headers hold layouts of telegrams and constants.
- Copies from and to an application that fail, and signals.
