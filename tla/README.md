# A TLA+ model of RV-Software

RV-Software holds the programs that run on the Zircon RV32 core (bare metal and
Linux), the small runtimes below them, and the scripts that build a Linux image,
a profile-guided simulator, and check that the image boots. This directory models
the parts of it where order, concurrency, interruption or word width can make the
code wrong, checks the models with TLC on small instances and proves the main
properties with TLAPS for all values of the constants.

## The system: inventory

### Bare-metal runtime
- **Program start, exit and device dispatch** (`base-port/base/src/trm.c`, `ioe.c`,
  `base-port/tool/include/tool.h`; `simd/runtime/start.S` and `simd_exit` in
  `runtime.c` report the same way). State: the handler table `lut`, the word
  `tohost`. Operations: `ioe_init`, `ioe_read`/`ioe_write` through the table,
  `panic_on`/`assert`, `call_main`, `halt`. Interacts with the simulator only
  through `tohost`. Hard: what a code looks like after the shift, calls before
  `ioe_init`, that the first verdict is the only one. Correct if an exit code can be
  recovered from `tohost`, `1` means pass, no access jumps to NULL after `ioe_init`.
- **64-bit cycle counter** (`simd_cycle64`, `simd/runtime/runtime.c`). State: two
  CSRs that move by themselves, two locals. Hard: three reads of a running
  counter. Correct if every value returned is one the counter had during the call,
  values never go back, and the loop ends.
- **CoreMark-PRO timer** (`coremark-pro/adaptation.c`). State: `started`.
  Operations: `al_signal_start`, `al_signal_finished`, `al_signal_now`, all through
  `simd_cycle64`; results are truncated to 32 bits. Correct if an interval lies
  between the shortest and the longest one its caller could have measured.
- **RTC and uptime** (`base-port/base/src/rtc.c`, `device-test/src/rtc.c`). State:
  device registers that move; the locals of `rtc_test`. Hard: the uptime register
  wraps after 2^32 microseconds; the date is six reads that a rollover can split.
- **GPU, keyboard, RAM disk handlers** (`gpu.c`, `kbd.c`, `disk.c`): register
  accesses; the RAM disk stores a command and returns without waiting for it. The
  video test (`device-test/src/video.c`) paces its frames by the uptime register.
- **C library of the port** (`base-port/tool/src/*.c`): 64-bit division (`int64.c`, on
  pairs of halves), comparing and copying of bytes (`string.c`), formatted output.
  Sequential; the hazards are numeric edges: the order of the halves in memory, zero
  bytes, overlaps.
- **CoreMark-PRO platform** (`coremark-pro/platform.c`): `sbrk` over a fixed heap, a
  UART stream.

### Device tests and workloads
- **Descriptor and doorbell channel** (`device-test/src/store-combine.c`,
  `taclebench/ports/lift-write-combine.c`). A hart fills a descriptor in an ordered
  or in a write-combining window, executes `fence w,w`, rings a doorbell, and ends
  each run with one more fence. Interacts with a device through posted stores. Hard:
  words can overtake the doorbell that announces them. Correct if no doorbell finds
  a stale word and the last one of a run finds exactly its own.
- **Lift controller** (`taclebench/upstream/bench/app/lift`, port
  `taclebench/ports`): a cyclic controller with its plant. The port runs it six times without
  input and compares a checksum of the outputs, which LED 13, a debug counter, moves: every
  global must be reset between the runs.
- **Functional tests** (`functest/src`, `include/trap.h`): call the library, `check` the
  result, `halt(1)` if it is wrong. State: the one of program start and exit.
- **SIMD benchmarks and tests, CoreMark, numerical workloads, architecture tests,
  upstream TACLeBench**: sequential computations.

### Host side
- **Profile-guided simulator build** (`linux-system/scripts/build-simulator.sh`).
  State on disk: the merged profile, its fingerprint, a pending fingerprint, the
  instrumented binary, raw profiles, the optimized build tree, the training log.
  Hard: it can be killed anywhere and rerun, sources change under it, and what one
  invocation leaves decides what the next one skips.
- **QEMU boot check** (`linux-system/scripts/run-qemu.sh`, and `/init` of the root
  file system, which prints the marker). State: a log, a child process, a poll
  counter. Hard: the script, QEMU and the guest run concurrently, and it is the child that
  truncates the log of the check before.
- **Image build** (`fetch-sources.sh`, `build-image.sh`, the packages of `external/`). State on
  disk: archives, unpacked trees, a patch stamp, Buildroot's stamps, outputs and copied
  artifacts. Hard: each decides what the next invocation skips. **Container wrapper**
  (`run-container.sh`), **image checks** (`check-isa.sh`, `check-image.py`).
- **Linux userspace validation** (`zircon-validation.c`): two workers that share one
  hart, a signal handler and a traced process look whether the kernel keeps `fs0` and
  the rounding mode. State: the registers, the kernel's copies, exit statuses. Hard:
  the hart can be taken away between any two instructions, and a defect of the kernel
  may strike only now and then. Correct if a sound kernel always passes and a loss that
  a worker can see is reported.

The status of every component, modelled or not, with the reason, is in
`PROJECT.json`; so are the hazards, each at its line.

## Modules

| Module | Code | What it is |
| --- | --- | --- |
| `CycleCounter` | `simd/runtime/runtime.c` 8-16 | the retry loop, one action per CSR read, next to a counter that carries |
| `MonotonicClock` | what callers assume | abstract: one atomic read of a running clock |
| `SignalTimer` | `coremark-pro/adaptation.c` 21-24 | extends `CycleCounter`: the timer's calls on top of the running loop |
| `DescriptorChannel` | `store-combine.c`, `lift-write-combine.c` | the hart in program order and a memory system that delivers posted stores |
| `DescriptorDelivery` | what the device assumes | abstract: doorbells over a descriptor at most one round ahead |
| `PgoBuild` | `build-simulator.sh` | one action per step that touches the disk; kills, failing tools, edits |
| `QemuCheck` | `run-qemu.sh` 19-56 | one action per command of the script, QEMU, the guest, and the shell's reaping |
| `FpContext` | `zircon-validation.c` 48-162 | the processes of the test, one action per access to a register or system call, over a kernel with at most one defect |
| `RtcTest` | `device-test/src/rtc.c`, `base-port/base/src/rtc.c` | the polling loop, one action per date register, time |
| `DeviceTest` | `device-test/src/video.c` 82-107 | extends `RtcTest`: the machine runs the printer or the video loop on the same register |
| `ProgramExit` | `trm.c`, `ioe.c`, `tool.h` | the handler table, the ways to halt, the encoding, the simulator's view |
| `ToolLibrary` | `base-port/tool/src/int64.c`, `string.c` | the library's division, comparison and copying, as operators |
| `FuncTest` | `functest/src/mersenne.c`, `string.c`, `include/trap.h` | extends `ProgramExit` and `ToolLibrary`: a program that calls the library and checks what it returns |
| `LiftController` | `liftlibcontrol.c`, `liftlibio.c`, `lift-write-combine.c` 35-116 | the controller as functions of its globals and inputs, one action per period, over a lift that coasts |
| `LiftWriteCombine` | `lift-write-combine.c` 103-165, `liftlibcontrol.c` 113-114, `liftlibio.c` 26-42 | extends `LiftController`: the machine runs a lift, or `main` with its six runs, the counter and the checksum |
| `ImageBuild` | `fetch-sources.sh`, `build-image.sh`, `zircon-validation.mk` | one action per step that touches the disk; kills, failing tools, wrong downloads, edits, make clean |

`SignalTimer` composes with `CycleCounter` by extension: its actions take the
`Call` and `Return` steps of the loop and hold its own state still in the others.
`DeviceTest`, `FuncTest` and `LiftWriteCombine` compose the same way with `RtcTest`, `ProgramExit` and `LiftController`. The
operators of `RtcTest` have names of their own (`RtcInit`, `Elapse`), so that `Clocks_proof` can
extend both clocks.
`CycleCounter` and `DescriptorChannel` are refined to `MonotonicClock` and
`DescriptorDelivery` by `INSTANCE`. The `MC*` modules only give constants their
values; the `*_proof` modules hold the theorems. Definitions introduced by the
comment "A mutant" are faulty variants of the definition after them. No
specification uses them; they serve to see that each property is sensitive to
the code it is about.

### How state and actions correspond to the code

**CycleCounter.** `hi` and `low` are the locals of the function. `ReadHi`,
`ReadLow` and `ReadAgain` are the three `rdcycleh`/`rdcycle`/`rdcycleh` instructions;
`ReadAgain` includes the comparison that closes the loop. `Tick` is the core, and
may happen between any two of them, any number of times. `began`, `sampled` and
`retries` are history.

**SignalTimer.** `started` is the static variable, zero until the first
`al_signal_start`. `al_signal_finished` stands for `al_signal_now` as well, whose
body is the same. `Truncated` is the conversion to `size_t`.

**DescriptorChannel.** `run`, `round`, `slot` are the loops of `main` and
`run_descriptor_writes`. A store puts a record in `posted`; it leaves when it reaches
the device. Which of several stores may arrive first is a property of the memory
system outside this repository, modelled from how the code uses it (`MustPrecede`):
a fence separates, one address stays in order, the ordered window and the doorbell
stay in order, the write-combining window does not. There is no fence after the
doorbell in the loop, hence "at most one round ahead".

**PgoBuild.** `disk` has one field per file that an invocation consults. A version
stands for the contents of all files in the manifest and for its checksum. `Decide`
evaluates `profile_is_current`, `pending_build_is_current` and
`training_completed` (which read only files no one else writes in between).
`rm -rf` is one action per file it unlinks, in any order in `PGO_BUILD`, then the
build tree. `Launch` is `tee` truncating the log, `ReachLastCycle` the status line
that `training_completed` looks for, `TrainingExits` the raw profile written at exit.
`Merge` is `llvm-profdata` into a temporary file and the `mv`; `Sign` and `Unpend` are
the two commands after it. `Killed` may happen at any step; `TrainingFails`,
`ExitFails` and `OptimizedBuildFails` are failing tools under `set -e`; `Edit` changes the
sources at any time, back to an earlier version too. `edited` (since the invocation started)
and `tainted` (the instrumented binary was built after such an edit) are history.

**QemuCheck.** One action per command: `CheckAlive` (l. 32), `LookForMarker` (33-34),
`CheckClock` (36-39), `Sleep` (40-41), `AfterPolling` (43), `CheckPresent` (46), `Kill`
(44/47), `WaitIgnoring` (45/48), `WaitForStatus` (50), `Verdict` (52-56). Against it run
`OpenLog` and `Run` (the forked process truncates the log, then becomes QEMU), `PrintMarker`
(the guest), `Leave` (QEMU ends by itself, or the log or QEMU cannot be opened), `Obey` (it
ends on TERM, before it is QEMU with status 143) and
`Reap` (the shell collects the zombie, after which `kill -0` fails). `Init` leaves open what an
earlier check left in the log. `booted` and `misled` are history: whether this guest printed
the marker, and whether a grep found one that it did not print.

**RtcTest.** `Poll` is one turn of the inner loop, `ReadField` one `inl` of
`__timer_rtc`, `PrintLine` the `printf` and `sec++`. The uptime is `now % Wrap`.

**DeviceTest.** `VideoTurn` is one turn of the loop of `video_test`, which reads the
register once. `last` and `fps_last` are its locals, in milliseconds; `Passed` is the
difference of unsigned longs. `drawn` and `told` are the same moments in real time. The
count `fps` and the drawing are left out.

**ToolLibrary.** A number of two words is a number below `DWord`; `order` says where its
halves lie. `int64.c` declares the high half first and runs on a little-endian core, so
there `high` is the low half (`Fields`, "little"); "declared" is a machine on which the
declaration is right. The two tell a wrong algorithm from a wrong order. The branches of
`__udivmoddi4` are the alternatives of `udivmoddi4`, its loop is `LongDivision` with
one `Turn` per iteration; a shift multiplies or divides by a power of two (`Power2`, a
recursive function, so that it can be proved about). Division by zero and the quotient that does not fit are undefined
in C and are never called. For 32-bit words, the operator was compared with the compiled
code on 200000 random pairs for both orders: they agree.

**FuncTest.** `CallLibrary` is the call whose result a test uses, `Check` is `check`, and the rest is
`ProgramExit`. `mersenne.c` divides (`Divide`), `string.c` compares and copies (`Compare`, `Move`); the
model calls with all arguments where the tests have a few.

**FpContext.** The registers on the hart are `regs`, the kernel's copies `saved`. `SwitchTo` is the
kernel passing the hart on (external): it saves and restores both registers, but for the
one its `defect` is about, always (`steady`) or now and then. The other defects spoil
the frame of a signal, what `PTRACE_GETREGSET` and `SETREGSET` copy, or lose the signal;
`Refusal` is a system call that fails, as `Refuse`. `WriteFs0`, `WriteFcsr`, `ReadFs0` and
`ReadFcsr` are single accesses of `context_child`, so that the timer (`Preempt`) can strike
between the two reads of one comparison. `Yield` is `sched_yield`, `Block` a process that
waits. The test compares only `fs0` of what `GETREGSET` returns: there is no defect of
`get` for the mode among `Defects`, because nothing could find it. `lost` is history.

**ProgramExit.** A word is a number below `2 * Half`; a negative `int` is its bits.
`Access` calls the handler in the table: a device handler returns, `fail` panics,
NULL is the state "wild". `Encoded` is the expression in `halt`.

**LiftController.** `ctl` is the record of the globals without `lift_`; each function
of the controller is an operator from record to record with its name, and `Period` is
`lift_controller`: read and vote, the loop, show the outputs. `STOPPED` is the command
99. `Reset` is `reset_controller` at the start of a run. The lift is external: it moves
at most half an impulse in `Dwell` periods (the vote needs two equal samples), coasts up to
`Coast` periods in the direction of `motorUp`, and may stand at any time. The programs in
this repository give the controller zero inputs only; which inputs there can be otherwise
is said by `taclebench/upstream/bench/app/lift/README`, after which `simio_in` is
modified by test drivers or by the runtime environment, and by the names of the sensors.

**LiftWriteCombine.** `program` is the one that is loaded. `BeginRun` is `run_controller` up to
its loop, with `reset_controller`; `Step` is one turn of the loop: zero input, the vote,
`lift_ctrl_loop`, LED 13 and the counter, and the checksum of the outputs; `EndRun` is its
return. The steps of the six runs and `LIFT_CHECKSUM` are those of the program. With a lift the
counter and the checksum are held still, since no handler reads them. The submissions are
`DescriptorChannel`.

**ImageBuild.** `Fetched`/`Download`/`DownloadStops` are `fetch` up to the `mv`, `Verify` the
checksum. `Unpack`, `ExtractMakefile` and `ExtractRest` split a `tar` at the file that the
next invocation looks for; `Patch` and `PatchRest` split `patch`. The `make` calls are
external: `Take` is Buildroot taking a package from the repository behind its stamp (`taken`),
which `make` in a kept `buildroot-out` never does again, and `Build` the rest, which follows the
repository: the overlay, the kernel, the device tree and the firmware. `out` says which versions
went in. `Copy` is one `cp`, `Finish` the checks after
them, `MakeClean` the target of the Makefile. `Killed` may happen at any step; killed inside a `cp`, it leaves a torn artifact,
which the model writes as None.

## Runs

| Run | Shows | Bounds, and why they are enough |
| --- | --- | --- |
| `signal_timer` | the loop returns an instant inside the call, ends, implements the atomic clock; intervals on it bracket the time between the calls | `Base` 3, `MaxHi` 3: each of three reads on either side of each of three carries, a second retry; intervals with a borrow, without, and too long for a `size_t` |
| `descriptor_channel` | no stale word, the last descriptor of a run whole, all doorbells arrive, delivery implemented | 3 words, 3 rounds, runs ordered / wc / ram / wc: overtaking needs two rounds, a last descriptor overwritten two runs on one base |
| `pgo_build` | labels are true, a finished build is current, training is kept, reruns converge | two versions (an edit and its reversal), 3 edits, 3 faults: killed on the way into the recovery and inside it |
| `qemu_check` | verdict against the boot, no orphan, timeouts and crashes reported, ends | 4 polls: the marker before, at, and after the deadline, or never; a log with and without the marker of an earlier check, truncated before, between and after any of the greps |
| `rtc_test` | lines on time, dates not behind, every second printed up to the last; frames and lines of the video test paced | a register of 3 seconds and a rest, watched past two wraps; boots whose seconds begin at other moments than the uptime's, so that a read can meet a rollover of one or of all fields; 3 milliseconds a second, a frame every 2 |
| `program_exit` | codes recovered, ports safe, verdict final; which quotients and comparisons are right, that copies are | all 32 exit words; a port on either side of those served; words of 3 bits: all pairs of 6-bit numbers, which meet every branch and every shift of the division in both orders; buffers of 4 bytes of 3 values: a difference before, at and after a zero, overlaps of one byte and more in both directions |
| `division_returns_quotient` | violated: see Findings | as above, the order of the core only |
| `pass_means_zero` | violated: see Findings | as above |
| `lift_controller` | the count is the place, the ends are not reached, no reversal in motion, commands for a level or the top end; every measured run of `main` passes | 3 levels, 4 and 3 impulses apart (with 2, a margin of one impulse could not start the motor; the real ones are 57 or 58 apart), up to 2 turns between visits of the bottom, coasting for 2 periods: stops before, in and after each sensor, and commands given at each of them; the liveness over the whole graph. The runs of `main` are not bounded: 32 and 1001 steps |
| `lift_command_stalls` | violated: see Findings | 2 levels, 1 turn |
| `image_build` | what is unpacked is verified, what is built is whole and patched, artifacts agree, reruns converge | two versions, 2 edits, 3 faults: killed, killed again while taking up what was left, and one fault more; an edit before, between and after the two packages are taken |
| `fp_context` | a sound kernel passes, a loss that a worker is still to see is reported, every steady defect is found | 5 iterations, a yield in every third: a worker yields, meets the other, and looks again; the hart is taken 8 times more at any point. Without the liveness also checked with 6 iterations and 25 preemptions |

Bounds on what is unbounded in the code are constants with "Max" in their names
(`MaxHi`, `MaxEdits`, `MaxFaults`, `MaxNow`, `MaxTurns`, `MaxPreempts`), except `MaxLag`, which is an assumption
about speed: one turn of `rtc_test`'s loop takes less than the 967295 microseconds that
remain of the register after its last whole second. `MilliAssumption` says what the
video test needs of the numbers of the code: a second, two milliseconds and a turn fit the register. `CHECK_DEADLOCK FALSE` is
given where the program ends: `run-qemu.sh`, `main` of the store test and of the
validation, and `halt`.
The counter of `CycleCounter` stops at its bound while the calls go on.

## Fairness
- `CycleCounter`, `SignalTimer`: weak fairness of the function's own steps. The hart whose cycles
  are counted executes them; no fairness is asked of the counter.
- `DescriptorChannel`: the hart runs, and posted stores eventually arrive. The order
  of arrival stays free.
- `PgoBuild`: the script runs on, and the user reruns it after it stopped. Faults and
  edits are never obliged to happen, and only finitely many do, which is what
  "converges" means.
- `QemuCheck`: the shell runs, and QEMU ends after TERM; without the latter the script's `wait`
  has no limit, so `Terminates` says nothing of a QEMU that ignores TERM. Neither the guest nor
  QEMU is obliged to do anything else, not even to open the log, so the run contains guests that
  hang.
- `RtcTest`, `DeviceTest`: time passes and the program runs.
- `FpContext`: the hart is never idle while a process can use it (`WF(Next)`). Who gets it is
  up to the kernel; the timer strikes finitely often, which bounds nothing the
  processes do between two system calls.
- `LiftController`, `LiftWriteCombine`: periods come, and a lift whose motor runs moves (`WF_pos(Moving)`: as the
  controller runs once a period, a driven lift gets there in some period). No
  button is ever obliged to be pressed, and a lift that coasts may stop at once.
- `ImageBuild`: as for `PgoBuild`.

## What the properties say

Each definition is preceded by its statement. The ones that took thought:
- `ReturnedAnInstant`, `ImplementsClock`: three reads of a moving counter look
  like one.
- `NoStaleDescriptor`: one fence per round is enough for the doorbell that follows,
  but does not keep the next round's words out of the write-combining window:
  there, a device may find words that are already from the next round.
- `LabelsAreTrue`: after any kill, what is on disk is what its label says. It holds
  while both fingerprint files lie in `PGO_BUILD` (the Makefile's defaults), because
  `rm -rf` then removes labels and labelled files together. `PGO_PROFILE` alone may be
  elsewhere. Excepted is an instrumented binary that was compiled after an edit under its
  invocation (`tainted`): the sources are fingerprinted at the start and compiled later, so the
  label is of the former.
- `FinishedBuildIsCurrent`: every invocation that finishes and was not edited under, whatever
  happened to the ones before it, has compiled its own sources, and the incremental optimized
  tree never mixes objects of two profiles. The same exception: sources at A, an edit to B
  before the instrumented binary is compiled, and back to A later. The profile of B is then
  signed A, and every later invocation takes it for its own. Only the profile is wrong, the
  objects are of A. No text of the repository excludes it, so it is not among the findings.
- `Converges` has one exception, `Wedged`: a simulator killed while it writes its
  profile, after it has reported the last cycle, leaves a torn raw profile under a
  log that says "completed". Every later invocation takes the recovery, fails to
  merge, and leaves all as it is, until someone removes the directory, cleans the
  log, or edits a source.
- `VerdictAgreesWithLog`: the marker can appear after the deadline and before the
  last grep, and then the check passes. Success without a boot is possible if
  QEMU leaves by itself with status 0: the script then exits with 0. It is also possible after
  a grep that came before the truncation of the log and found the marker of an earlier check
  (`misled`): the script then stops polling before anything booted, stops QEMU and exits with 0. What holds
  even so is that a boot that passed is never reported as failed. The same exception is named by
  `TimeoutIsReported` and `CrashIsReported`. No text of the repository promises more.
- `LastDescriptorIsWhole`: about the fence after the loop. It says nothing of time: doorbells of
  a run may be on their way while the next run reads `mcycle`, and nothing in the code waits.
- `RunsPass`: the checksum that `main` asks for is that of 489 steps with LED 13 on, which it is in
  the second half of every 256 steps since the counter was cleared. `lift_init` does not clear the
  counter, only `reset_controller` does.
- `EverySecondPrinted` (`SecondsPrinted` in the run): lines come for every second up to the last the register can
  show (4294); after it `rtc_test` prints nothing more.
- `FramesPaced`: the video test takes differences of unsigned longs. Across the wrap one frame
  and one line come early, and then it goes on, where `rtc_test` falls silent.
- `SoundKernelPasses`, `LossIsReported`, `DefectsAreFound`: the validation tells sound from defective
  kernels. Passing is not trivial: `main` itself is switched while it waits, and the
  worker forked second starts with registers it did not write. A loss goes unreported if
  it comes after the last read of a register, which is why `lost` counts only what a worker is
  still to look at (`Watches`). A defect that strikes only now and then may miss; one that
  strikes always is found because the workers yield to each other.
- `QuotientsAreRight`, `BytesAreRight`: say exactly which results of the library are right, so that
  a program that stays inside them needs no more. `mersenne.c` and `string.c` do.
- `TornOnlyByRollover`, `DateNeverBehind`: a date read across a rollover can be one
  that never was, but errs only forwards.
- `CountIsPlace`: a turn while the impulse sensor is active goes unnoticed, so the
  count is only exact up to half an impulse per turn since the bottom was met.
- `NeverAtTheEnd`, `DirectionHeld`: `DirectionHeld` needs `Window > Coast + 1`, and
  both are about the delay of the vote and the coasting together.
- `CommandsEnd` depends on the margin of a quarter of a level in `lift_check_level`:
  the next level is then far enough for the motor to start. It does not hold of
  `BOTTOM` (Findings). That `MotorDelay >= 2` matters: in the period in which the bottom
  is first met, the level is still 0.
- `ArtifactsAgree` (`ImageBuild`): the artifacts of an invocation that ends well are of one build.
  Which sources that is of depends on the part: kernel, device tree and overlay are those the
  invocation was started on; `zircon-validation.c`, the patches of musl and the patch of Buildroot are
  those that were there when `buildroot-out` and the tree were first filled.
- `BuildsTheSources`, `Converges` (`ImageBuild`): five states are not left by reruns: a
  download that was complete and wrong is kept under its name; an unpacking killed
  between the Makefile and the last file is taken for complete; a tree patched
  without its stamp is rejected by `patch`; a tree with a stamp is not patched again when the patch
  was edited; a package with a stamp in `buildroot-out` is not taken again when it was edited. The
  first and the third stop the script; the others may build, without what they lack. Only
  `make clean` leads out of them.

## Findings
- `halt` (`trm.c:27`) shifts the code left by one: the code with only the sign bit
  set becomes the word 1, which the comment above it and the README reserve for
  pass. The run `pass_means_zero` shows it. All codes from 0 to `INT_MAX`
  are recovered exactly (`CodesAreFaithful`, proved).
- A command of the lift is over only when a running motor was stopped
  (`liftlibcontrol.c:201`). `GO_LOAD` at the bottom, with the place of loading unknown, gives
  `CMD_BOTTOM`; the motor never starts, and no button is obeyed any more. The comment of
  `lift_cmd` promises the value "until the command is finished". Run `lift_command_stalls`.
- On the little-endian core the functions of `int64.c` take one half of a number for the
  other (`int64.c:16`), so a division of which a number does not fit one word returns
  something else than "a / b", which its comments promise. Run `division_returns_quotient`. With the halves
  in the declared order every quotient is right (`QuotientsAreRight`).
- Not a run of its own: `lift_level` reaches 14 at the top; the comment of the variable
  says 1..13.

## What is proved

All theorems hold for every value of the constants allowed by the named
assumptions of the modules.

| Module | Theorems | Argument |
| --- | --- | --- |
| `DescriptorChannel_proof` | `TypeCorrect`, `NoStale`, `LastIsWhole`, `Refinement` | The invariant relates each posted store's epoch to its run, round and slot, and says that each word is either still posted or has arrived from this round or the next; it is what makes a doorbell that can arrive find nothing before it. Every store after the last doorbell of a run has a later epoch, so none can overtake it. |
| `PgoBuild_proof` | `TypeCorrect`, `TrueLabels`, `CurrentBuild`, `KeepsTraining` | From `LabelsInside` (both fingerprints in `PGO_BUILD`). The invariant says, per step of the script, which files are absent or of which version, and that no object of the build tree was compiled with a profile other than one signed with the present label; what it says of the contents of binary and profile holds unless `tainted`. That training is kept needs what `Decide` saw until its choice is carried out: only what is of no use is wiped, only unfinished training cleared. |
| `QemuCheck_proof` | `TypeCorrect`, `AgreesWithLog`, `LeavesNoOrphan`, `ReportsTimeouts`, `ReportsCrashes` | One invariant with a clause per command: what the script knows at it (marker seen, signal sent, status still 0, deadline reached), for any log at the start: a marker that this guest did not print is gone once the log is truncated, and a grep that found one is in `misled`. |
| `FuncTest_proof` | `TypeCorrect`, `FaithfulCodes`, `SafePorts`, `FinalVerdict`; `TestIsAProgram`, `TestVerdicts`, `BytesRight`, `QuotientsRight` | The word in `tohost` is `Encoded(code)` or 0, and the table has no NULL once filled. A functional test takes the steps of a program or none (`TestIsAProgram`, a refinement by the identity), so its verdict has the same properties. Of the library: a comparison stops at the first byte that differs or ends a string; what a copy leaves after its first k bytes is known for each k, as long as no byte is read after it was overwritten (`Copies`). Of the division: the highest bits of both numbers give the shift (`ShiftIs`), and after k turns of the loop the upper bits of the dividend are divided but for `r`, while those not yet used lie at the top of `q` above the quotient so far (`Divided`, kept by `TurnDivides`); the sign of `d - r - 1` is the comparison since the divisor exceeds half of the range only where there is one turn (`SignTells`). The branches without a loop follow from the halves; the quotient of two magnitudes has a sign bit only where the signs differ or C leaves the division undefined (`SignedDivides`), and `__divmoddi4`'s remainder is `__moddi3`'s since both are equal modulo `DWord` (`RemainderOfQuotient`). |
| `Clocks_proof` | `TypeCorrect`, `NoTornValue`, `BoundedRetries`, `MonotonicResults`, `Refinement`; `TimerTypeCorrect`, `IntervalsAreTrue`; `RtcTypeCorrect`, `LinesAreOnTime`, `DatesNotBehind`, `DatesTornByRollover`; `FramesArePaced` | Of the loop: the invariant adds to the types where each local was read. Between the first and the second read of cycleh the counter passed through `hi`, so if both agree it never left it and `low` belongs to that `hi`. Of the timer: the start lies between the call and the return of its `al_signal_start`, the result in its own call; distances of instants add up and are not negative, and one that is below `Base` is not truncated. Of the lines: as long as `sec` is a second that the register can show, the last poll came before that second was over or at most one turn after it. Of the date: the fields already read, and for the rest those of the present date, spell a date that is never behind the start of the read, and not ahead of now while only the seconds moved (`Spells`); a read of the next field moves it from the rest to the fields (`FieldSplits`). Of the pauses: since the last turn, at which the pause had not passed, the register moved by less than it holds, and the difference tells the same as time, but across the wrap (`Pause`). |
| `ImageBuild_proof` | `TypeCorrect`, `TheSourcesAreBuilt`, `AgreeingArtifacts` | The invariant says which steps have verified archives, an unpacked tree, a complete patch, and copies of the present outputs, which are of the patch and the packages taken; an archive, a whole tree and a stamp are never taken back but by `make clean`, which runs between invocations. |
| `LiftController_proof` | `TypeCorrect`, `DirectionIsHeld`, `EndsAreNotMet`, `CountsThePlace`; `MainPasses` | The phases of a command: the motor waits only for a lift that stands, and from its stop on the window of counting left and the periods coasted make up at least `Window`, which is longer than `Coast`. One lemma per function of the controller. For the ends: a driven lift is at most at its sensor, and there only just arrived, since the second sample in a row stops it; without its motor it is at most as far beyond as periods have passed (`Place`). From `MarginAssumption`: the shaft goes on beyond the sensors for longer than a lift coasts. For the count: the vote of samples taken twice at each place shows the place of the period before (`Sampled`), the window stays open until the lift has stood there (`Standing`), and impulses are counted in the direction the motor has (`Heading`). So the invariant can say, of the place up to which impulses are counted, how far the count is off: nothing on the way, and half an impulse per turn (`Fits`). For the checksum: without input a reset controller stays as it was reset (`FreshStays`), so the counter is the step, and the checksum what LED 13 adds up to by then (`Ones`, one step at a time). |
| `FpContext_proof` | `TypeCorrect`, `SoundPasses`, `LossReported` | Under a sound kernel a process's registers, on the hart or saved, are what it last wrote, from the step after it wrote them; so no comparison fails, no child ends with another status than 0, and `main` gets to "done". Under a defective one, what a worker has lost is gone (`Gone`): the kernel's copy is wrong too, or no process from which the worker could take over the hart holds its value. That no other process does rests on which can run together (`Returning`, `NoneBefore`), since a second defect of a switch could give back what the first took. |

Every safety property that a run checks is proved. Only model-checked is liveness
(`CallReturns`, `AllDoorbellsArrive`, `Converges`, `Terminates`, `SecondsPrinted`,
`CommandsEnd`, `DefectsAreFound`), which TLAPS does not reach. What needs induction over data
(`Spelled` over the fields of a date, the bytes of a copy, the turns of the division) is proved
by its least counterexample, from `LeastNat`, which speaks of a set of numbers and so has no
operator for a parameter; that a recursive function exists and is what its definition says comes
from `Recursion` in the same way. Where types are proved, the runs do not check them again. The
runs of `PgoBuild` have all three paths in `PGO_BUILD`; the theorems also cover a `PGO_PROFILE`
elsewhere.

## Abstractions and what is left out
- Ordering of device memory is external and is modelled as the code relies on it.
  If the core's `fence w,w` did less, nothing here would tell.
- Invocations of `build-simulator.sh` do not overlap: the script takes no lock,
  and two at once could do anything. Collisions of `cksum` are ignored.
- A fingerprint file that is truncated but not yet written counts as the absent file
  it replaces: neither matches any fingerprint.
- Months of different lengths and time zones are left out of dates. Output formats,
  the contents of logs apart from the marker and the last-cycle line, and benchmark
  data are left out.
- Pure computations (workloads, kernels, sorts) and tests in assembly have no
  state that outlives a call. Vendored trees (TACLeBench, CoreMark, CoreMark-PRO, picotest,
  arch-test upstream) are left aside except where the port relies on their state. They are
  most of the lines of the repository.

Not modelled, and why:
- `ramdisk_read` and `ramdisk_write`: no program calls them, and what the device does with a command
  is nowhere in the repository; a model would check its own guess of it.
- Formatted output: one call, no state. That `vsnprintf` ignores its size is visible in one line,
  and nothing calls it. The functions of `string.c` that find, fill and append: loops over one buffer.
- `sbrk`: two comparisons and an addition; the callers are the C library's.
- Drawing and clipping of `gpu.c`, the keyboard: one frame, one key per call.
- Two invocations of `build-simulator.sh` or `build-image.sh` at once: no lock and no
  claim that it works, so there is no property to state.
- `run-container.sh`, `check-isa.sh`, `check-image.py`: conditions on external programs and on
  finished files.
- Floating-point kernels (SIMD, numerical workloads): out of TLC's reach.

## Order of the work

`CycleCounter` with `MonotonicClock`, `SignalTimer`, `DescriptorChannel` with `DescriptorDelivery`,
`PgoBuild`, `QemuCheck`, `RtcTest`, `ProgramExit`, `LiftController`, `ImageBuild`, `FpContext`,
`ToolLibrary` with `FuncTest`, `DeviceTest`, and their proofs. What could be added next:

1. Abstract specifications: an image build that is one atomic step (`ImageBuild`), and the
   lift as its user sees it (`LiftController`).
2. The sorts and the list of CoreMark as operators against reference definitions.
