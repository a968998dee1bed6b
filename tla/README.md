# Phobia motor controller: specifications and proofs

Phobia (PMC) is the firmware of a controller for permanent magnet synchronous
machines, with a desktop program (pgui) that talks to its shell. This directory
holds TLA+ models of its control logic, the TLC configurations that check them
and theorems proved with TLAPS. Paths such as `phobia/pm_fsm.c` are relative to
`src/src/`, paths such as `doc/...` and `pgui/...` to `src/`.

Contents: 1 the system, 2 the modules, 3 the runs, 4 the proofs, 5 what the
models found, 6 what is left out, 7 the plan.

## 1. The system

### 1.1 Contexts

The firmware runs on one core. What interleaves is decided by priorities:

| context | code | priority | what it may do to the machine |
|---|---|---|---|
| ADC interrupt, once per PWM cycle | `ADC_IRQ` in `main.c`, `pm_feedback` in `phobia/pm.c` | highest | samples, trips faults, runs the observer FSM and the assistive state machine, outputs the duty cycle |
| CAN interrupt | `CAN_IRQ` in `epcan.c` | below the ADC | posts requests, writes registers |
| EPCAN_IN, KNOB tasks | `epcan.c`, `main.c` | 3 | register access of other nodes; analog knob at 100 Hz |
| TEMP, EPCAN_TX, EPCAN_LOG, USB_IN | `main.c`, `epcan.c`, `hal/usb.c` | 2 | HALT on overheat, current derating; the others only move bytes |
| applications | `app/*.c` | `AP_TASK_PRIORITY` | startup, shutdown and HALT requests |
| CMDSH, the shell | `shell.c`, `pmfunc.c`, `pmtest.c`, `flash.c`, `tlm.c` | 1, the lowest | every command: probes, tuning, save, telemetry |

Everybody who wants something of the machine writes `pm.fsm_req`, a mailbox of
one cell that the interrupt empties in every cycle, whether it accepts the
request or not. Nobody waits for an answer except by polling `pm.fsm_state` and
`pm.lu_MODE`; `pm.fsm_errno` is shared by all of them.

Two things run beside it: other nodes on the CAN bus, with the same firmware, and
the desktop program, which types commands into the shell over a serial line and
reads what it prints.

### 1.2 Components

| component | state | operations | what makes it correct | here |
|---|---|---|---|---|
| assistive state machine, `phobia/pm_fsm.c` | `fsm_req/state/phase/subi/errno`, `tm_*`, `lu_MODE`, duty cycle and impedance of the bridge | 20 handlers: self tests, probes, adjustments, startup, shutdown, HALT | one procedure at a time; a stopped machine has a released bridge; every procedure ends; a fault stops the machine | `PmFsm` |
| observer FSM, `pm_lu_FSM` in `phobia/pm.c` | `lu_MODE`, `flux_ZONE/TYPE/LINKAGE/DETACH`, `base/hold/detach_TIM`, `eabi_RECENT/ADJUST`, bridge | one step per cycle through DETACHED, FORCED, ESTIMATE, ON_HFI and the sensor modes | the bridge agrees with the mode; a coasting machine is watched before it is driven; the offset of an encoder is used only while it is valid; a machine that may be driven is | `LuModes`, `LuMoves` |
| control loops, estimators, modulation in `phobia/pm.c` | currents, fluxes, set points (floats) | regulators, ORTEGA and KALMAN observers, SVPWM | stability, accuracy: real-valued | their verdicts only |
| inputs, `main.c` | `ACTIVE`, `DISARM`, `NFAULT` of the knob and of the pulse; `idle_*`, `disarm_*` timers | convert a sample, start, stop when idle, stop when lost, arm | no start by a signal that stayed in range; no false loss; no idle stop of a turning machine | `Inputs` |
| configuration storage, `flash.c`, `hal/flash.c` | ring of blocks with a number and a checksum | scan, load, save, erase, wipe | the last save that ended is loaded, whenever the power fails; only clean blocks are programmed; nothing is erased under a running motor | `Flash` |
| commands and auto-tuning, `pmfunc.c`, `pmtest.c` | local to the shell task | sequences of requests and waits | report what the machine did, also when a request was refused | requests, waits and timeouts in `PmFsm` |
| temperature, derating, fan, `main.c` | `i_maximal_on_PCB`, hysteresis locks | HALT on overheat | the machine halts | HALT in `PmFsm` |
| CAN pipes, `epcan.c` | per pipe `ACTIVE`, `tx_clock`, `tx_flag`; transmit mailboxes | receive, start, send at a rate or in answer, time out | who started a machine watches it; silence stops it; an answer asked for is given | `EpcanPipe`, `Mailbox` |
| CAN nodes, `epcan.c` | `node_ID`, the node table, `node_ACK_ID`, `reg_ID`, `reg_DATA`, queues | survey, assign, revoke, registers of other nodes, remote console | distinct numbers; true tables; an answer belongs to its request | `EpcanNet`; console and log not modelled |
| telemetry, `tlm.c` | memory, line, layout, mode | grab, watch, stream, flush, clean | stays in the memory; gives what was sampled, in order | `Tlm` |
| register file, `regfile.c` | table of links and formats | get, set, print | what is shown is what is held | `GuiLink`, `RegWrite` actions |
| shell, serial lines | line, history, queues | edit, complete, dispatch | one command at a time, each with its prompt | queue and dispatch in `GuiLink` |
| desktop program, `pgui/link.c` | `struct link_pmc`: register cache, one request at a time, state of a command | fetch, push, poll, edit, command, open, close | shows what the controller holds; an edit arrives or is undone; a command is over when it says so | `GuiLink` |
| applications, `app/*.c` | each its own | AUTOSTART, BUTTON, AS5047, HX711, MPU6050 | - | requests in `PmFsm` |
| HAL, numerics, bench simulator, drawing of the GUI, vendored code | | | | not modelled |

### 1.3 Hard behaviours

The list with lines is under `hazards` in `PROJECT.json`. The main families:

- *Interleaving.* One mailbox for all writers, emptied at a higher priority;
  tasks test `lu_MODE` and act on it later; registers are written while the
  machine runs.
- *Partial failure.* Procedures fail at any phase with the bridge energised;
  the trips of `pm_voltage` and `pm_wattage` force `fsm_state` from outside.
- *Stale state.* Zones, timers, encoder offsets and fault counts outlive the
  mode, the estimator or the run they were taken in; two inputs share timers.
- *Crash recovery.* The power fails at any step of a save.
- *Unreliable delivery.* Frames, requests, answers and whole lines are lost, late
  or meet a full mailbox or queue; answers name their node or register but not
  the request they belong to.
- *Timeouts.* The silence of a pipe stops a machine once; a request is given up
  and its answer comes later; the desktop program repeats what was not answered.
- *Liveness.* Every procedure must end, also those whose samples may not count;
  a detached machine must be caught; a fault must stop the machine.

## 2. The modules

| module | lines of the code | state and actions |
|---|---|---|
| `PmFsm` | `phobia/pm_fsm.c`; `ADC_IRQ`; `pm_feedback` up to `pm_FSM`; who writes `fsm_req` | one variable per field; one action per handler with a disjunct per phase; `Feedback`, `Dispatch`, `Handler` are the three parts of the interrupt |
| `PmFsmProps` | - | the properties of `PmFsm`, and the instance of `PowerStage` |
| `PowerStage` | abstract | the bridge as a resource with at most one user |
| `LuMoves` | abstract view of `pm_lu_FSM` | which modes may follow which, and the bridge after a move; shared by `PmFsm` and `LuModes` |
| `LuModes` | `pm_lu_FSM`, `pm_flux_zone`, `pm_estimate`, `pm_sensor_eabi` (tracking) | one action per mode, `Track` after it |
| `Inputs` | `conv_KNOB`, `task_KNOB`, `conv_PULSE_WIDTH`, `in_PULSE_WIDTH`, `timeout_IDLE` | the task step by step, one access to what it shares with the interrupt in each: `KnobCheck`, `KnobConvert`, `KnobStart`, `timeout_IDLE` as `KnobGap` to `KnobExpire`, `KnobStop`; `Cycle` is the interrupt |
| `Flash` | `flash.c`, `hal/flash.c` | one action per write to the storage, `Crash` between any two |
| `Mailbox` | abstract view of `pm_FSM` | what a request may do to the machine, for those who only see `lu_MODE` |
| `EpcanPipe` | `CAN_IRQ`, `EPCAN_pipe_message_IN`, `EPCAN_pipe_REGULAR`, `EPCAN_bind`, `CAN_send_msg` | the CAN interrupt step by step (`Receive` to `SentInjected`), the ADC interrupt as `Cycle`, the bus as `Transmit` |
| `EpcanNet` | `task_EPCAN_IN`, `EPCAN_reply_ACK`, `net_survey`, `net_assign`, `net_revoke`, `net_node_data` | the task that handles messages, the shell command that waits for them, the queues and the bus; an access is `Access`, `TypeData`, `TestSet`, `SendSet`, `Ask`, `ClearReg`, `SendGet`, `EndAccess`, one statement that shares data with the task in each |
| `Tlm` | `tlm.c`, `task_EPCAN_TLM` | `Grab` in the interrupt, one action per step of a command, one reader of a stream in the shell and one in the network task |
| `GuiLink` | `pgui/link.c`, what `pgui/phobia.c` writes into it, `reg` and `enum_reg` of the shell | a frame is `TakeLine`*, `EndFetch`, `Draw`, `PushReg`*, `PushNothing`; the shell is `Evaluate`, `CommandPrints`, `CommandEnds` |
| `MCPmFsm`, `MCLuModes`, `MCEpcanPipe`, `MCEpcanNet`, `MCGuiLink` | - | configurations and request sets for TLC |
| `PmFsmProofs`, `LuModesProofs`, `InputsProofs`, `FlashProofs`, `EpcanPipeProofs`, `EpcanNetProofs`, `TlmProofs`, `GuiLinkProofs` | - | theorems |

How they fit together: `PmFsm` is the centre. It sees the observer FSM through
`LuMoves`; `LuModes` is shown to implement those moves (`ImplementsLuMoves`), so
what is checked and proved of `PmFsm` holds with the real observer FSM in it.
`PmFsm` implements `PowerStage` under the mapping of `PmFsmProps`: the user is
the machine when `lu_MODE` is on, else a procedure when `fsm_state` is not IDLE;
the bridge is open when all phases are in high impedance. `Inputs` sees the
state machine through the acceptance rules of `pm_FSM` alone, and so does
`EpcanPipe`, through `Mailbox`: two or more machines with their pipes on one bus.
`EpcanNet`, `Tlm` and `GuiLink` do not touch the machine; `Tlm` sees `fsm_errno`
as a flag that anybody may set, and `GuiLink` sees registers that a probe changes.

Conventions and abstractions:

- A comparison of real values is a nondeterministic choice of its outcomes;
  where several depend on one value (the Hall code of a cycle, the speed zone)
  the value is chosen once per cycle.
- The interrupt preempts everything else, so in `PmFsm` it is split in its
  three parts by the variable `irq` and tasks act only between interrupts.
  A task that tests `lu_MODE` and then posts does so in one step there; the
  window between the two is in `Inputs` (the labels `start` and `post` of its task). The commands that may
  start a procedure run at the lowest priority, so nothing they start can fall
  in the window of another task.
- A timed phase counts to a constant (`TM`, `Fast`, `Slow`, ...), the number of
  PWM cycles of its `PM_TSMS`. The proofs hold for every value.
- `fsm_errno` is a class of error; the class of a verdict is chosen
  nondeterministically.
- A configuration is a record of the registers that the control flow reads.
- `timeout_DISARM` in `Inputs` is any wait: what is checked there does not
  depend on how long a signal must be low, only on that it was.
- The tasks and the interrupt read and write aligned words, which the core does
  at once.
- *EpcanPipe.* Time is counted in PWM cycles. The frames of one ID are a set: a
  frame takes longer on the wire than a cycle, so with `Backlog` = FALSE no two
  frames of an ID are read without a cycle in between; the frame that the
  interrupt is at work on (`InHand`) stays read. See 5 for what happens
  otherwise. The values that frames carry are left out: they are set points.
- *EpcanNet.* Commands that number nodes are given by one operator at a time, to
  a network where a survey was made since the last numbering of others; a second
  surveyor would discard the table the first one fills. Replies to a survey come
  within the 50 ticks a command waits; each
  entry of `net_assign` and `net_revoke` is one step; the numbers that replies
  are delayed by are random and appear as any order of the nodes. A message
  whose 20 attempts to send fail is a lost one. Register accesses are given by
  several operators at once, and `task_EPCAN_IN` preempts each between any two of its
  steps. The waits of an access (ten of 10 ticks) are left out: it gives up at any
  time after its request and leaves `node_ACK_ID` set, and the answer comes at any
  later step or never. Nobody numbers the nodes while registers are accessed
  (`Undisturbed`). The table has room for all nodes (30 in the code).
  `EnoughRoom` and `EnoughNumbers` are what the theorems about numbers assume, section 4.
- *Tlm.* A sample is its age. `tlm.freq_*` become a number of interrupts to a
  line. With no register chosen the length is 0 (the core divides by zero to 0).
- *GuiLink.* Time is counted in frames, and all periods in frames too; fetch
  periods of polled registers are shorter than a frame. `link_open`'s greeting
  is one request. What is lost is a whole line on its way to the shell, and an
  answer is printed whole. The pages show all registers. The repetition of
  enumerations every ten seconds is left out. In the setups that are run nobody edits
  a register that a probe changes, nor one in the frame of an answer of it
  (`EditsApart`): `QuietIsTrue` needs both, see section 5.

Definitions whose comment starts with *Mutant* are wrong on purpose. Nothing
uses them: put in the place of the definition they accompany, each makes the
property that `PROJECT.json` names for it fail. They show that every property
depends on the code it speaks of.

## 3. The runs

`tlc -config <cfg> <module>`, for instance `tlc -config PmFsm_safety.cfg MCPmFsm`.
The longest runs, inputs and gui_link, take two to three minutes.

| run (cfg) | question | outcome |
|---|---|---|
| fsm_safety (`PmFsm_safety`) | Any request, fault, timeout and register write in any cycle: who owns the machine, is the bridge released when nobody does, are the phases labels of their handler | holds |
| fsm_liveness (`PmFsm_liveness`) | Does every procedure end, does every HALT stop the machine, is `PowerStage` implemented with its liveness | holds |
| fsm_trip_in_procedure (`PmFsm_trip_in_procedure`) | Does a trip in the middle of a procedure stop the machine | violated, finding |
| flash_storage (`Flash_storage`) | Saves, wipes and a power failure anywhere | holds |
| lu_modes (`LuModes_modes`) | The observer FSM in 51 configurations, with registers changed while it runs | holds |
| inputs (`Inputs_inputs`) | Two inputs, one machine, one timer, with commands and faults in between, and the task preempted anywhere | holds |
| inputs_preempted (`Inputs_preempted`) | Does a check of the idle time that the interrupt overtakes stop a turning machine | violated, finding |
| epcan_pipes (`EpcanPipe_pipes`) | Two nodes and a bus that loses frames: followed, asked for answers, shared by two sources | holds |
| epcan_net (`EpcanNet_net`) | Three nodes: any order of survey, assign and revoke; one operator or two at the registers of others, over a lossy bus, with late answers | holds |
| tlm_ring (`Tlm_ring`) | Grab, watch, stream and flush around the ring, with new registers only after `tlm_clean` | holds |
| tlm_layout (`Tlm_layout`) | The same, with new registers at any time between recordings | violated, finding |
| gui_link (`GuiLink_link`) | The desktop program and the shell: polls, edits, enumerations, probes, commands, lost lines | holds |

`tlc` takes `MCPmFsm`, `MCLuModes`, `MCEpcanPipe`, `MCEpcanNet` and `MCGuiLink` for
the configurations of those names, and `Flash`, `Inputs` and `Tlm` themselves.

Bounds, and why they are enough:

- *PmFsm.* Timed phases last 2 cycles, the pause after a HALT 3: a phase has a
  first, a last and an inner boundary, a request, fault or trip can fall in
  each, and the two waits of HALT differ. Two forbidden Hall codes in a row are
  a fault (10 in the code): one is too few and two are enough. The safety run
  has every request and two configurations, of which one has terminal voltages and
  everything else, the other Hall sensors only; registers change from one to the
  other at any time. That leaves out startups without terminal voltages into an
  encoder, forced control or an estimator, which differ in the mode they select; the
  proofs have all configurations. The trips of `pm_voltage` and
  `pm_wattage` are in fsm_trip_in_procedure only, with the shortest way to a phase
  that HALT does not know. The liveness run has the configuration that meets every
  handler and leaves out LU_DETACHED, whose handler is that of LU_STARTUP.
- *LuModes.* `Fast` = 2, `Slow` = 3, `Startup` = 4, `Forced` = 3, `MinDetach` = 2:
  all different and long enough that a timer can be interrupted in its middle
  and left over from an earlier visit. The configurations are the product of
  estimators, sensors, freewheeling and encoder frontends plus one machine
  without terminal voltages and two without HFI and forced control.
- *Flash.* Two sectors of two blocks are the smallest ring in which an erase
  leaves another sector alone and a sector holds both the newest block and the
  one to be written. Numbers up to 7 let the ring wrap almost twice. One power
  failure: two of them can lose a configuration, see 5.
- *Inputs.* `Faults` = 2 distinguishes one lost sample from enough of them,
  `Idle` = 1 has a check that does and one that does not expire, `Gap` = 1 a
  pause that restarts the timer and one that does not, `Late` = 1 a check in which
  the clock goes on under the task and one in which it does not. `Idle` = 2 in
  inputs_preempted has the turn a tick or two before the stop.

- *EpcanPipe.* `timeout_EP` = 2 has a cycle of silence that does not and one that
  does expire. One mailbox instead of three is the full queue that the code must
  survive, with two pipes that want it. Three configurations, one for each thing
  pipes are for: one machine follows another; a node answers and sends at a rate;
  two sources, commands and faults share a machine.
- *EpcanNet.* With three nodes one can be told what the second did not hear of
  the third. `MaxID` = 4 is as many numbers as nodes and one that is out of range.
  All distinct and all colliding numberings are initial states of two setups
  on a lossless bus, where a queue of 3 never loses a message. Three setups access
  registers on a lossy bus: of one node, read and written while it changes its
  register itself; of two nodes, whose answers must not be taken for one another;
  and two operators, one of whom writes what the other reads. The queues of these
  hold 2, 1 and 1 messages: a late answer and a request meet in the first, and in
  the others a full queue is one more way to lose a message.
- *Tlm.* A memory of 5 cells, with lines of 0, 1 or 2 registers: lines that fill
  it and lines that leave a cell over. Two rates, so that some recordings skip
  interrupts. Ages are told apart up to 6, one more than the memory holds.
- *GuiLink.* Two registers: one that is polled or edited while the other is
  fetched. `QueueTimeout` = 0, `Quiet` = 0, `KeepIdle` = 1, `CloseAfter` = 2 keep the
  order of the code's 1, 1, 5 and 12 s and let each of them expire before an
  answer that is one frame late. `RxMax` = 2 lines and `BusyMax` = 1 make the queue
  and the requests meet their limits. At most one line is lost in a setup. Six
  setups, each with the steps that can disturb one another.

*Fairness.* Five specifications have some. `FairSpec` of `PmFsm` has weak
fairness of the interrupt (`Irq`) and `FairSpec` of `LuModes` of `Cycle`: the PWM
timer triggers the ADC in every cycle and the interrupt has the highest
priority, so nothing the tasks do can keep it from running. No task, message or
signal is assumed to be fair. `PowerStage` has weak fairness of `Run \/ Leave`
(procedures are finite), which `PmFsm` is shown to provide. `FairSpec` of
`EpcanPipe` relies on that: weak fairness of a `Cycle` that ends what runs, and of
the CAN interrupt; the bus need not deliver anything. `FairSpec` of `Tlm` has weak
fairness of `FlushLine`: the shell task runs when nobody else does, and the
interrupt leaves it time. `FairSpec` of `GuiLink` has weak fairness of the frames
of the program, strong fairness of the shell (which a frame that sends another line
does not hold back) and of the end of commands, and the user leaves the program
alone, again and again, at moments when the shell has read all: who never stops
editing a register never sees what it holds.

No configuration switches the deadlock check off.

What the properties say, beyond their names:

- `IdleIsOff`: duty cycle and impedance are written by
  twenty handlers and by the loops, `lu_MODE` by three places; the three agree
  whenever nobody drives the machine. `HaltIsOff` (a HALT beyond its first phase
  has released the bridge) and `BridgeFollowsMode` of `PmFsm` and of `LuModes` are
  proved, section 4, and not run.
- `DetachedIsWatched`: before a machine is driven out of DETACHED its windings
  had `tm_transient_fast` to discharge and its speed was watched for
  `tm_pause_startup`, on every visit of DETACHED.
- `OffsetIsTracked`: an incremental encoder that was not looked at for one
  cycle has lost its place, and its offset is forgotten.
- `LeavesDetached`: in every configuration that may be forced and does not
  freewheel some branch out of DETACHED is open.
- `SavedIsLoaded`: a save that was cut costs nothing but the new values.
- `FreshStarts`, `NoFalseAlarm`: see `Inputs`; each relates a flag to the history
  of its signal across starts and stops by others.
- `IdleMeansStill`: the inputs share one timer, which the task and the interrupt
  restart and test. It excepts a check in which the interrupt restarted the timer
  after the task had read the clock (`Overtaken`); `IdleAlways` is the same without
  the exception and fails, section 5.
- `Watched`: the pipe whose frame started the machine counts the silence, until
  one of the pipes asked to stop it. `ACTIVE` is set in one interrupt after the
  request was posted and cleared in the other, and another source, a command or
  a fault may stop and start the machine in any gap.
- `GivesUpOnSilence`: a pipe goes inactive by itself only after `timeout_EP`
  cycles without a frame, however long its clock stood still in between.
- `AnswerIsDue`: a frame that asks for an answer is not forgotten when the
  mailboxes are full, although both interrupts send and clear the flag.
- `FollowerStops`: a chain of all parts; after its leader stopped for good, the
  follower stops for good, with frames lost, late or still in a mailbox.
- `NumbersDistinct`, `TablesTrue`, `Renumbered`: what the survey, the assignment and
  the revocation are for, over every sequence of them by every operator. The
  exception in `TablesTrue` is a node that took a number itself and told nobody.
- `WrittenAsTyped`, `ReadIsFresh`: the typed value, the request and the answers
  share three fields of `struct local` with the task that handles messages, which
  takes answers at any step, late ones and those to other operators too. The first
  excepts an access that begins while an answer to one that was given up is still
  awaited (`owed`); the second counts an answer that was on its way when the access
  began among what it may print. Without either exception TLC finds the violation,
  see section 5.
- `InMemory`, `FlushInOrder`, `StreamInOrder`: the ring goes on from the line where
  the last recording left it, with lines of another width, and its readers run
  while the interrupt writes.
- `WatchKeepsError`: a watch keeps what led to an error, at every rate.
- `QuietIsTrue`: edits, polls, repeated requests, enumerations and probes leave
  answers of different ages on their way; when all have arrived the table shows
  what the controller holds. The exceptions are named in the module.
- `DoneIsDone`, `CommandReported`: the prompt that ends a command comes with the
  echo of a later line, among the prompts of other requests; it must be neither
  taken too early nor waited for in vain.
- `EditSettles`: an edit is sent again until it is answered.

Each module has a type invariant `TypeOK`. All are proved (`TypeCorrect`), and run fsm_safety lists that of `PmFsm`; the others hold in the runs
of their modules and can be added to their configurations.

## 4. The proofs

`tlapm PmFsmProofs.tla`, and the same for the other modules with `Proofs` in their names.
All theorems hold for every value of the constants under the named assumptions
of the modules (types of the constants, positive limits), with more where said.

**PmFsmProofs.** `TypeCorrect` carries `SubiInRange` along: a table indexed by
`fsm_subi` is typed only if the index is in range. `ProbeStep` then shows that a
probe has two shapes only: one of a stopped machine stays in its state or enters
HALT at its first phase, one of a running machine leaves the bridge alone. With
it `MachineIsOwned` (`ProcedureOwnsMachine /\ BridgeFollowsMode`) is inductive:
each needs the other, for it is the owner that decides who may touch the bridge.
`ProceduresAreExclusive` is about single steps.
`IdleMachineIsOff` strengthens `IdleIsOff` with the same for a machine that waits
out a HALT, and `PowerStageIsKept` is the step simulation of `PowerStage`; both
assume that every configuration lets a startup select a mode
(`EverySelectable`), because without that they are false (the blind startup of
section 5). `PhasesAreHandled` (`PhaseIsHandled` and `HaltIsOff`) assumes that
`pm_voltage` and `pm_wattage` do not trip: with trips it is false, see run
fsm_trip_in_procedure.

**LuModesProofs.** `CycleMoves` is the core: every branch of every mode hands over
through `Switch`, or leaves DETACHED, into a mode that `LuMoves` allows.
`MovesImplemented` and `BridgeCorrect` follow and hold while registers change.
`OffsetCorrect` and `LockCorrect` assume that the encoder frontend, respectively
the terminal voltages, are left alone while the machine runs. `WatchCorrect`
needs the invariant `Watched`: the machine has coasted for at least the cycles
`base_TIM` counts since `-Fast`. `base_TIM` alone does not say so: it is also
counted in ESTIMATE and left over from there; what makes the invariant inductive
is that `flux_DETACH` is cleared on each way into DETACHED.

**InputsProofs.** One invariant serves four theorems. `Sound`, for each input: an
active one has not counted its faults to the limit, what it counted was lost in
a row, and an input that was not low since its last start or loss is active or
disarmed. `KnobSound` says the same of the knob between the steps of its task: a
check of the idle time is made of an active knob that is low, and a start is posted
by an inactive one that was low before. `Timely`: unless the machine turned or the checks paused, the
idle timer is ahead of the time since the last turn by at most `Late`, the time by
which a restart at the task's `xNOW` may be old. `LostSample` and `GoodSample` show
that any sample of either input keeps the flags sound, `CheckTimers` does the steps
of `timeout_IDLE` in the task one by one and `CycleTimers` what the interrupt does
between any two of them. `TypeCorrect`, `AlarmCorrect`, `StartCorrect` and
`IdleCorrect` are its consequences; the last is of `IdleMeansStill`, with the check
that is overtaken left out.

**FlashProofs.** `NumbersCorrect` rests on `Greater`: the number being written is above
that of every valid block, from the scan to the checksum, for nothing else becomes
valid meanwhile. With `AtWork` (the block being written was clean and holds its number
since) this gives `ProgramsCorrect` as well. `SavedCorrect` needs more, since a crash
leaves blocks behind that are neither clean nor valid. Before the first failure
every sector is filled from its head (`Filled`), what follows a valid block in its
sector is newer (`Later`), and so the sector a save is about to erase does not hold
the newest block (`Untouched`); the wipe goes upwards (`Wiped`). It assumes two sectors
or more, for with one the erase takes the only copy, and at most one power failure.
With two failures it is false, see section 5; that is why the three parts are
claimed only while `crashes = 0`, and why a save in progress after a failure is
not said to keep what was saved, only one that has ended.

**EpcanPipeProofs.** `AnswerCorrect` needs `Answered`: where the interrupt has sent an
answer and not yet cleared its flag, nothing is owed. `GivesUpCorrect` needs `Ticking`:
the clock of a pipe is at most its silence, and 0 while it is not active.
`WatchedCorrect` assumes `~ Backlog`, without which it is false (section 5). Its
invariant is about the gap between the two interrupts: a start that is posted
belongs to a pipe that is active or is made so next, and cannot be put out before
the machine takes it, because its frame stays read until then (`Posted`). `OneFrame`
is what excludes other frames in that gap.

**EpcanNetProofs.** `WriteCorrect` and `ReadCorrect` are one invariant, over all steps of
an access, any number of operators and any answers on their way. `Fresh` is what a
read needs: every answer that waits at the operator and could be printed carries a
value of `held` (`Waiting`), and so do the register at its own node and the answer
that was taken already (`Held`). A write makes `held` smaller, and `OnSet` is where all
three are shown to survive it. `Typed` is what a write needs: as long as nothing is
owed to an earlier access, `node_ACK_ID` is 0 from the start of the access until it
asks, so no answer is taken and `reg_ID` and `reg_DATA` are as typed. Each step is
shown to take the first message of one queue and to add at most one at the ends of
the others. The assumption `Undisturbed` is explained in section 2; `MCEpcanNet` has
TLC confirm it, and the two below, of the configurations that are run.

`TablesCorrect`, `NumbersCorrect` and `RenumberedCorrect` are another, `Ordered`: the network
was never surveyed, or is in a survey (`Surveying`), or a command is at work or was
the last thing that happened (`Commanding`). It is stated over `Known(m, u)`, the number
of `u` as `m` has it, and `Told(m, u)`, a message about `u` waits at `m`. In a survey each
node still has to reply, or its reply waits, or it is in the table, and the request
that discards a table is read before the first reply (`SurveyWaits`). In a command the
number of `u` in the table of the operator is known to all or told to them (`Sent`), or
no message is about `u` and the tables have its number or 0 (`Settled`). What waits at
a node is at most one message about each other node (`Apart`), so `EnoughRoom`, queues
that hold as many where no message is lost otherwise, is all they must satisfy. The code's queue of 10 does for
networks of up to 11 nodes; of larger ones, where a node that is not served for the
time of some frames may lose a reply, the theorems say nothing. `Numbers` follows the
numbers as the operator has them: an assignment makes them distinct and complete
(`ViewDistinct`, `Filled`); where none was made only revocations are on their way, which
make no two numbers equal. It needs a number for each node (`EnoughNumbers`; the code
has 29). `Renumbering` does the same without the assumption that the numbers were
distinct: there the operator of the last survey has the true numbers or has sent
them (`Exact`), and after a revocation of all it has none left.

**TlmProofs.** `MemoryKept`, `FlushCorrect` and `StreamCorrect` assume `~ Relayout`, that
registers are chosen anew only after `tlm_clean`; otherwise they are false (run
tlm_layout). `Settled` says what the assumption buys: the width that is recorded is
the width chosen, or the ring was left at its beginning. `Ring` puts the writer and
the readers at lines of the ring. `Aged` gives the age of every line by its distance
behind the writer, and `OnTheWay` keeps a reader as far behind the writer as it has
unread lines, until the writer overtakes it. `WatchCorrect` holds with and without
the assumption: a watch that has recorded since the error is at work on its line
(`LastLine`).

**GuiLinkProofs.** Both theorems stand on `OneAnswer`: the lines on their way to the
program are of a single answer, begin with its prompt, and show what the registers
hold now, for the shell prints an answer to its end and nothing writes a register in
between. `QuietCorrect` adds that whatever the table does not show as it is will be
shown: `Answered` (the request for it waits at the shell, or its line is on its way,
unless an edit or a fetch is still to be sent) and `Covered` (behind a probe in the
queue of the shell waits a request for each register that the probe changes).
`QuietStep` shows that each action keeps them; the case that needs thought is a
request that the line loses, which is why `Exempt` excuses a probed register whose
fetch was lost. It assumes `EditsApart`; TLC confirms it of the setups that are run
(`MCGuiLink`), and refutes `QuietIsTrue` for setups without it. `DoneCorrect` follows
one command (`Given`): it waits in the queue, or runs, or is over; until it runs no
prompt on its way is of a command, and once the program follows it there is none on
its way until it has ended.

Every safety invariant that a passing run checks is proved. Only model-checked:
the liveness properties (`ProcedureEnds`, `HaltStops`, `LeavesDetached`,
`FollowerStops`, `FlushEnds`, `CommandReported`, `EditSettles`, the liveness of
`PowerStage`), because liveness under fairness and ENABLED are out of the prover's
reach. Induction over data and RECURSIVE operators would be too; no module has
any.

## 5. What the models found

Three runs are expected to fail. Each states what a line of the repository says
and shows a behaviour of the code that does not do it; `findings` in
`PROJECT.json` has the quotes.

1. `fsm_trip_in_procedure`: `pm_voltage` and `pm_wattage` force `fsm_state = HALT`
   but not `fsm_phase`. HALT has phases 0 and 1; at a later one nothing stops the
   machine and no request, HALT included, is accepted any more.
2. `inputs_preempted`: `timeout_IDLE` reads the clock (`main.c:130`), may restart
   `idle_RST` and tests `xNOW - idle_RST` (`main.c:145`). It runs in the knob task and,
   for the pulse width, in the interrupt, on the same timer. If the interrupt
   restarts the timer a tick after the task has read the clock, the unsigned
   difference wraps, and a machine that has just turned is stopped as idle. It takes
   both inputs active and low at once, and a tick between the two lines.
3. `tlm_layout`: `tlm_startup` computes the width of a line anew and keeps the
   current line, so a recording with more registers than the last one goes on
   beyond the end of the memory until the line wraps. `tlm_clean` in between
   avoids it.

Behaviours met while modelling and described here without a run. Of the machine:

- The inputs and the pipes post LU_SHUTDOWN once; during a probe of the running
  machine it is refused and forgotten (`pm_fsm.c:2524`), and the motor runs on.
- The error branch of a startup that finds no mode falls through to the success
  exit (`pm_fsm.c:1791`): errno OK, state IDLE, phases driven.
- The motor may start between the check of `flash_prog` and the erase
  (`flash.c:335`), which keeps interrupts disabled for its whole length.
- With a sensor and no estimator, a machine found spinning hands over from the
  sensor to ESTIMATE, where nothing updates the angle (`pm.c:1517`).
- After LU_DETACHED the timer that must reach 0 before the back EMF is looked at
  never advances (`pm.c:1979`-1993), so the flux linkage cannot be identified by
  turning the shaft.
- With the brake knob enabled and in range, `NFAULT` is cleared in every
  conversion (`main.c:476`), so the loss of the ANG signal alone is never
  reported, while doc/InputAnalogKnob.md says a signal out of the lost range is.
- The two inputs share one disarm timer (`main.c:105`): an input held low arms
  the other with its first low sample; the doc asks for the full time.
- An input that is armed while another actor runs the machine starts it again
  when that actor stops it, without the transition from the low side that
  doc/InputPulseWidth.md calls the condition to start. `FreshStarts` is what the
  code does guarantee.
- `pm_wait_IDLE` writes TIMEOUT into `fsm_errno` while the probe still runs
  (`pmfunc.c:24`); the current probes do not count their phases while it is not
  OK (`pm_fsm.c:1193`), so such a probe holds its current until somebody posts
  HALT.
- Two power failures can lose a configuration: the first one leaves a
  number-only block newer than the saved one at the head of the ring, the second
  one falls in the erase of the sector of the saved block (`flash.c:312`).
- LU_DETACHED on a machine without terminal voltages starts a driven mode with
  the speed zone locked (`pm_fsm.c:1761`).
- `detach_TIM` counts without a bound: after about 20 hours of visible back EMF it
  wraps (`pm.c:891`), and a machine that turns fast is held for one whose speed is
  uncertain until it is positive again.

Of the CAN network:

- A frame tests `lu_MODE` twice (`epcan.c:149`-166). If two frames are read with no
  cycle in between and the machine stops between the two tests, the second frame
  marks its pipe active with no request of its own left in the mailbox
  (`Backlog` = TRUE shows what follows for `Watched`).
- An answer names its node but not its request (`epcan.c:604`), and an access that
  gives up leaves `node_ACK_ID` set (`epcan.c:1097`). An answer that comes later is
  taken at any time: the next access to that register prints its value; and if
  the next access writes, an answer that comes between `epcan.c:1041` and 1068
  replaces the typed value or the register, so that something else is written or
  nothing is. `WrittenAsTyped` and `ReadIsFresh` except just this; without the
  exceptions TLC finds both.
- `net_assign` on a node without a number takes one and tells nobody
  (`epcan.c:841`); others hold the node for unassigned until the next survey.
- `net_node_remote` clears `remote_node_ID` before it waits for the last message to
  be transmitted (`epcan.c:994`), so the last characters typed, the one that ends
  the session among them, go to node 0.

Of telemetry:

- `tlm_stop` between two lines of a slow recording leaves `line` at the newest sample
  (`tlm.c:51`-66), and the flush prints it first.
- `tlm_clean` while the network task reads sends lines of zeros; a stop and a start
  within one tick of that task leave two readers.
- The probes start a watch without looking at the mode, and end a stream.
- doc/CommandLineInterface.md speaks of `tlm_live_sync`, which is `tlm_stream_sync` now.

Of the desktop program:

- An edit made in the frame that took an answer of the same register is shown and
  not sent (`sameFrame`); an answer on its way undoes an edit without a word.
- `onefetch` is cleared before the request was sent, and a request that does not
  get into the line is not repeated for a register without an update rate.
- The fetch that follows a probe is dropped when the register was edited in between:
  the edit is sent in its place (`link.c:957`), and `onefetch` is cleared. If the line
  loses the edit and an answer from before the probe is still to come, the register
  shows what it was before the probe until somebody asks for it.
- Lines sent during a long command meet the shell's queue of 320 bytes and what
  does not fit is lost.
- If two commands overlap, the end of the second may be reported with that of the
  first. A command of more than 12 s that prints nothing closes the link.
- A probe that ends before the registers are known is not followed by a fetch.

## 6. What is not modelled

- Real-valued arithmetic: estimators, regulators, modulation, least squares,
  temperature. Its outcomes are choices of the models. `libm`, `lse` and `ntc`
  have no control state.
- Register-level drivers (`hal/*` but the erase and program of the flash): pure
  I/O.
- `i_maximal_on_PCB`, the derating, the fan, the LEDs: real-valued or without
  effect on the machine's states.
- The shell's line editor, history and completion, `libc.c`, the formatting of
  registers.
- The remote console over CAN (`net_node_remote`, `task_EPCAN_LOG`) and its queues:
  characters between two serial lines, no state of the machine.
- Of the desktop program: drawing, pages, the remote link, the files it grabs and
  logs, its configuration. `nuklear.h`, `font.c`, `gp/*` and SDL are third-party or
  draw.
- The bench simulator: a numerical model of a motor.
- The commands of `pmfunc.c` and `pmtest.c` as sequences: their requests, waits and
  timeouts are actions of `PmFsm`, their results are numbers.
- `pm_sensor_eabi`'s counting and `in_STEP_DIR`: arithmetic on 16-bit counters,
  planned.
- FreeRTOS, CherryUSB, CMSIS: third-party; their queues and delays appear as
  the interleavings they allow.
- Counters that wrap after many hours (`detach_TIM`) or after 2^32 saves.

## 7. Plan

Done, in the order of importance: `PmFsm` with `PowerStage` and its proofs;
`Flash`, `LuModes` with `LuMoves`, `Inputs`, `EpcanPipe` with `Mailbox`, `EpcanNet` and
`Tlm` and `GuiLink`, each with its proofs.

Next:

1. More of `PmFsm`: `HaltIsOff`, and that a HALT ends, with trips restricted to
   phases 0 and 1.
2. `Encoder`: `pm_sensor_eabi`, `in_STEP_DIR` and the adjustment of the encoder
   over 16-bit counters: the unwrapped position follows the shaft.
3. `Commands`: the sequences of `pmfunc.c` and `pmtest.c` over `Mailbox`, with the
   answers they return when a request was overwritten or refused.
4. The remote console: two queues, two tasks and a node number that is cleared.
