# Verification of go1-autonomy-stack

TLA+ models, TLC checks and TLAPS proofs for the software that moves a Unitree
Go1: the whole-body controller `unitree_guide` (walking on the robot's own
motors, 500 Hz), and the team's command path around the factory controller
(`unitree_legged_real`, `scripts/`, `dashboard/`).

Paths below are relative to `src/packages/ros_unitree/unitree_guide/unitree_guide/`
unless they start with `src/`.

## 1. The system

### Components, their state and their operations

| Component | State | Operations | Interacts with |
|---|---|---|---|
| Control loop and FSM (`src/main.cpp`, `src/FSM/FSM.cpp`, `src/control/ControlFrame.cpp`) | `_currentState`, `_nextState`, `_mode`, `running` | `FSM::run` every 2 ms: send and receive, gait clock, estimator, tilt check, run of a state or change of state; SIGINT ends the loop | everything below, by calls |
| FSM states (`src/FSM/State_*.cpp`, eight) | FixedStand's ramp; otherwise what they share: the motor command image, the wave status, the panel | `enter`, `run`, `exit`, `checkChange` | write `LowlevelCmd`, `_waveStatus`; read the copied panel and the estimator |
| Command panel and keyboard (`include/interface/CmdPanel.h`, `src/interface/KeyBoard.cpp`) | `userCmd`, `userValue`, no lock | a thread that blocks in `select`, stores a command, changes a stick axis | the control loop reads both and writes both (`setPassive`, `zeroCmdPanel`) |
| SDK input/output (`src/interface/IOSDK.cpp`) | the SDK's send and receive buffers | `sendRecv`: image out, state in, panel copied | motor board, over UDP (closed library) |
| Gait clock (`src/Gait/WaveGenerator.cpp`) | `_statusPast`, `_switchStatus`, `_contactPast`, `_phasePast`, wall clock | `calcContactPhase(status)` each tick | the states ask through `_waveStatus`; the estimator, the gait generator and the force QP read contact and phase |
| Gait generator (`src/Gait/GaitGenerator.cpp`, `FeetEndCal.cpp`) | `_startP`, `_firstRun` | `restart`, `run` | called by Trotting and MoveBase; reads contact and phase |
| Estimator, force QP, kinematics (`src/control/`, `src/common/`, `src/quadProgpp/`) | Kalman filter, matrices | numeric | control loop, states |
| MoveBase (`src/FSM/State_move_base.cpp`) | `_vx`, `_vy`, `_wz` | callback of `/cmd_vel`, run inside the tick by `spinOnce` | navigation stack, or the keyboard node |
| Simulation back end (`src/interface/IOROS.cpp`, `src/packages/ros_unitree/unitree_ros/unitree_legged_control/src/joint_controller.cpp`) | `_lowState`; `lastCmd` and the real-time buffer of each joint, without a lock around `lastCmd` | `sendRecv` publishes and spins; `setCommandCB`, `update` in Gazebo | replaces IOSDK in simulation |
| High-level bridges (`src/packages/ros_unitree/unitree_legged_real/src/exe/ros_udp.cpp`, `twist_sub.cpp`, `include/convert.h`) | `high_cmd`, `high_state` (or `low_cmd`, `low_state`), no lock | ROS callback stores a command and publishes a report; a 500 Hz thread sends, another receives | factory controller on the Pi, UDP :8082 |
| Keyboard node (`src/packages/ros_unitree/unitree_legged_real/src/exe/control_via_keyboard.cpp`) | none | a twist per key, a zero twist when 0.1 s pass without one | `twist_sub` or MoveBase, by `/cmd_vel` |
| Operator scripts (`src/scripts/go1_ros.sh`, `test_trot.sh`, `src/dashboard/sit_down.cpp`) | background publishers | stand, sit, damp, walk, trot, stop | the bridge by `/high_cmd`, the Pi directly by UDP; each other, by `pkill` |
| Dashboard (`src/dashboard/tri_stream.py`) | `frames`, `sensor_data`, each under a lock; the parser's buffer | camera readers, sensor reader, HTTP, the page's polls | cameras (`ffmpeg`, UDP); the Pi, by an idle command every 50 ms; browsers |

### What is hard

* **Interleaving.** The panel is two plain members used by the control loop and
  by the keyboard thread; the loop copies the two at different moments, writes
  them from inside a tick, and reads again only 2 ms later.
* **Shared output.** The eight states write one command image, each only a part
  of it; nothing clears it in between. The same holds for the wave status.
* **Two-phase changes.** A command seen by `checkChange` only names the next
  state; the change is carried out in the following tick, without looking at
  the command again, and its image is sent one tick later still.
* **Changing one's mind.** The gait clock switches each leg when its old and
  new contact agree; the callers decide anew every tick, so a switch may be
  retargeted or taken back half way.
* **Pending switches.** The gait clock may still be busy with a switch that an
  earlier state asked for when a state is entered that distributes forces over
  the legs in contact, or records where the feet stand.
* **Scripts that kill each other.** The operator's scripts start publishers in
  the background and find each other's by `pkill`; none of them waits for a
  publisher to be connected or gone, and a message may outlive its sender.
* **Last command for ever.** `ros_udp` repeats what it was told last; three
  programs send commands to the same port of the Pi.
* **Structs without locks.** The bridges, `joint_controller` and MoveBase hand
  commands and states from thread to thread as plain structs that are copied
  member by member; messages are dropped by queues of length one.
* **Streams cut anywhere.** The dashboard finds images in a stream that arrives
  in arbitrary pieces, some of them lost, from a process that may be restarted;
  it takes whatever packet comes next for the answer to its last request.
* **Time.** Gait time is the wall clock (`gettimeofday`), which may be set back.

### What makes each component correct

* Gait clock: every answer is a contact vector of one status; phases lie in
  [0, 1); a switch completes; a leg leaves the ground at the start of its swing.
* FSM: a stop, typed or caused by the tilt check, reaches the motors in a
  bounded number of ticks; no field of an earlier state survives in the image;
  the machine comes to rest under a command that stays.
* Panel: what `zeroCmdPanel` cleared does not come back, except through the
  keyboard thread's own unfinished change of it.
* FSM and gait clock: at least two legs carry the body whenever forces are
  distributed; the legs end up doing what the state asks; a walk keeps stepping.
* Gait generator: a swing starts from where the foot stood.
* Bridge and scripts: when all scripts are over the robot is commanded to stand
  idle. After `stop` nothing walks, after `damp` nothing else is commanded (both
  violated, see the findings).
* Bridges, MoveBase, simulation: every value in use is the latest or on the way
  to be; no member of it goes back to an older message; the last message
  arrives; keys that are released stop the robot. A state is given to the control
  loop whole. A command is executed whole (violated, see the findings).
* Dashboard: what is shown is a whole image of the stream unless bytes were
  lost, images are missed only for a cause, pictures and states never go back,
  the last picture is shown in the end, and so is it that a robot is silent.

## 2. The modules

| Module | Models | State and actions |
|---|---|---|
| `GaitPattern` | what the users of the gait clock rely on | `mode`, `asked`, `contact`; `Hold` (the switch is pending or done), `Adopt` (the call that completes it) |
| `WaveGenerator` | `WaveGenerator.cpp` | one action, a call of `calcContactPhase`, with the time it finds (`Tick`, `SetBack`) and the branch it takes (`Follow`, `Switch`) |
| `States` | the eight `State_*.cpp` | no variables: each `enter`, `run`, `exit` is an operator on the record of what the states share, `checkChange` a function of the command |
| `CmdPanel` | `CmdPanel.h`, `KeyBoard.cpp` | `userCmd`, `userValue` and the thread; `StoreCmd`, `TestCmd`, `StoreValue` are its accesses to the panel |
| `ControlLoop` | `FSM.cpp`, `main.cpp`, the part of `IOSDK::sendRecv` around the panel | `sendRecv`, `copyValue`, `checkSafty`, `runState` (`Normal` or `Change`), `ShutDown`, `Operator` |
| `LatestValue` | what every hand-over of a value between threads promises | `issued`, `held` (per member); `Issue`, `Take` |
| `Bridge` | the three threads of `twist_sub.cpp` and `ros_udp.cpp`, `convert.h` | `Call`, `Store`, `Read`, `Report` are the callback; `SetSend`, `Send`; `Recv`, `GetRecv`; `Publish` and `RobotSend` are outside |
| `Teleop` | `control_via_keyboard.cpp` and `State_move_base.cpp` around `Bridge` | `ReadKey`, `Timeout`, `Shutdown` of the node; `Tick`, `EnterExit` of MOVE_BASE, `sendCmd` of the simulation's back end, which runs the same callback |
| `Camera` | `capture_local`, `capture_remote`, `parse_mjpeg`, `do_GET`, the page's `poll` | `Read`, `NoStart`, `NoEnd`, `Found` are the loop of the parser; `EndOfFile`, `Restart` of ffmpeg; `Lose` a packet; `Get`, `Load` the browser |
| `Sensors` | `sensor_reader`, `parse_high_state`, `do_GET`, the page's `updateSensors` | a round is `Send` (or `SendError`), `Recv` or `Timeout`, `Wake`; `Arrive`, `ArriveShort`, `Link` the network; `Poll`, `Show` the page |
| `Simulation` | `IOROS.cpp`, `joint_controller.cpp` | `Waited` ... `recvState` the control loop; `Spin`, `SpinSet` the spinner of the constructor; `Take` ... `Unlock` `setCommandCB`; `readFromRT` ... `Finish` `update`; `PublishState` |
| `GaitLoop` | `FSM.cpp`, the states, the gait clock and `GaitGenerator.cpp` together | one action, a tick: the gait clock's call with the status of the tick before, then `Normal` or `Change`; `startP` is what became of the places recorded |
| `HighCommand` | `go1_ros.sh`, `test_trot.sh`, `ros_udp.cpp`, `sit_down.cpp`, and `sensor_reader` of `tri_stream.py` | a script is the sequence of its effects (`KillPub`, `Spawn`, `Sleep`, `Kill`, ...); `Start`, `PublishOne`, `Drop` are ROS; `highCmdCallback`, `highUdpSend` the bridge |
| `WaveGeneratorProofs`, `ControlLoopProofs`, `GaitLoopProofs`, `TeleopProofs`, `SimulationProofs`, `CameraProofs`, `SensorsProofs`, `HighCommandProofs` | the theorems about each, with their lemmas | |
| `MCWaveGenerator`, `MCControlLoop`, `MCGaitLoop`, `MCHighCommand`, `MCTeleop`, `MCSimulation` | the constants of the runs (`Camera` and `Sensors` only need numbers) | |

`ControlLoop` extends `States` and `CmdPanel`: it is their composition. The gait
clock is its own specification: the only thing it takes from the rest is the
status of a call, and every order of statuses is allowed. `GaitLoop` extends
`States` and instantiates `WaveGenerator`: there a tick is atomic and reads any
command, because how a command gets to the tick is `ControlLoop`'s business, and
the clock is not set back. `HighCommand` stands alone: the scripts and the
whole-body controller are never used together. `Teleop` extends `Bridge`: the
keyboard node's topic leads either to `twist_sub` or to MOVE_BASE, one of which
runs. Three modules instantiate `LatestValue`, `Teleop` three times: towards the
robot, back from it and to MOVE_BASE.

**Abstractions.** A field of the command image is what it is made of (`"zero"`,
the measured angles, the ramp, a computed goal, a torque from forces, a torque
never written), because the properties ask which state a field belongs to, not
its value. One of the four identical stick axes is kept. The measured attitude
is arbitrary in every tick. Time in `WaveGenerator` is an integer, as it is in
the code (microseconds there); only its remainder by the period matters, so
times after the start are kept modulo the period, and a phase is an exact
fraction (the code's floating-point rounding is not modelled). `MOVE_BASE` and
its command exist only in builds with `COMPILE_WITH_MOVE_BASE`; the model has
them, and the build without is the model in which key `5` is never pressed.

`startP` does not hold positions but what became of them: where the foot stands
or stood until its present swing (`"foothold"`), a point in the air, a place the
foot has left. Of a `HighCmd` the members that tell the scripts' commands apart
are kept: mode, gait type, velocity. Messages on their way are a set: a
publisher repeats one and the same command, so their number does not matter,
and connections are not ordered among each other. Ctrl-C ends the script, but
not always its publisher: a child that bash starts with `&` without job control
ignores SIGINT until rospy has installed a handler of its own. A publisher that
is still the shell therefore survives, one that is starting may, and one that is
up does not (`AfterCtrlC`). A survivor comes up and repeats its command until
somebody's `kill_pub` finds it.

In `Bridge`, `Teleop`, `Simulation` and `Sensors` a command or a state is the
number of the message it comes from, and a struct is one number per member: the
properties ask which message a member is from, never what it says (of a twist,
whether it drives). The smallest unit of a copy is a member, and the members are
copied in any order, which contains every order a compiler may choose. The UDP
link loses packets but does not reorder them (one hop of Ethernet). One of the
twelve joints of the simulation is kept: each has its own topics, controller and
callback. In `Camera` a byte is its position in the stream and an image five
bytes, two for each marker and one of data; the entropy coding of JPEG and the
camera's `mjpeg` without thumbnails contain no other markers. A browser that
polls an image waits for it before it polls again; polls of the sensors may
overtake each other.

**Undefined behaviour.** `_switchStatus` is not initialised: its first value is
any integer of `Garbage`. The panel is read and written without a lock: each
access is a step of its own, and the test of the command just stored may use
either the stored or the present value. SwingTest's unwritten torques are
`"unset"` or happen to be usable. The velocity of a first stay in MOVE_BASE is 0,
"from no message". The structs that threads share without a lock are read and
written member by member, each access a step. `high_cmd` is copied by one thread while
another assigns it: the datagram of that moment may mix the members (`Mixed`).

**History.** The variables below "History" in `ControlLoop`, `lost`, `split`,
`whole` and `begun` in `Camera` and their like are read by no action; they let an
invariant speak of what has happened. Those of the stick mark which of its
copies (on the panel, in `lowState`, in the keyboard thread's hand) are from
before the last zeroing, count the runs that were given one, and note (`lost`)
that the thread has written one back.

## 3. The runs

| Run | Property | What it shows |
|---|---|---|
| `wave_crawl` | `TypeOK`, `PhaseInRange`, `KeepsOldPattern`, `SwitchSettles`, `ImplementsGaitPattern` | the crawl of `main.cpp:82`, scaled to 20 units: a gait in which the legs never agree at one moment; all statuses, flags uninitialised, a clock that is set back into the past since the start |
| `wave_linear` | `LinearWave` *(violated)* | a switch taken back freezes legs |
| `loop_commands` | `TypeOK`, `NoLeftovers`, `StopLatency`, `TiltLatency`, `RampRestarts`, `StaleOnlyIfLost`, `ComesToRest` | all command keys and one that moves the stick, at every point of a tick, the robot tilting at any time; a command that stays leads to a state that stays; a zeroed stick comes back for more than the run in progress only if the keyboard thread writes back what it had read before |
| `loop_stop_lost` | `StopHonoured` *(violated)* | a stop is overwritten before it is seen |
| `gait_walk` | `TypeOK`, `Supported`, `SwingsFromFoothold`, `LiftsOffAtStart`, `LegsFollowState`, `KeepsStepping` | the trot with every command in every tick: two legs in contact wherever forces are distributed, strides from footholds and lift-offs at the start of a swing, unfinished switches of the gait followed by what the state that stays asks for |
| `command_end` | `EndedIdle`, `EndsIdle`, `RecoversIdle` | two terminals, `walk` in one, where Ctrl-C may come at any point and may leave an orphaned publisher, `walk`, `test_trot`, `stop` or `damp` in the other, in every overlap, with the dashboard: all ends, and ends idle unless interrupted, with nobody publishing and nothing else on its way; the next publishing script restores idle and gets rid of the orphan |
| `command_damp` | `DampHolds` *(violated)* | the bridge goes on after `damp` |
| `teleop` | `NothingOvertakes`, `CommandValue`, `StateValue`, `MoveBaseValue`, `LastTwistArrives`, `ReleasedKeysStop`, `MoveBaseStops` | a key and the quit key, three twists, the three threads of `twist_sub` copying member by member, or MOVE_BASE entered and left at will, with either back end; two states of the robot |
| `camera` | `WholeUnlessLost`, `MissedForCause`, `FramesAdvance`, `OneStream`, `LastFrameShown` | three images, reads and packets of every length from one byte to a whole image, two losses (packets, or ends of ffmpeg), a browser that is fast or slow |
| `sensors` | `LagBounded`, `SensorValue`, `SilenceShown` | three requests that the robot answers, in time, late or never, one packet that is too short, an interface that goes down and up, two polls under way |
| `simulation` | `WholeState`, `StateValue`, `StateArrives`, `UndisturbedCommandArrives` | one joint, two commands and two states of two members, the five threads between the control loop and Gazebo |
| `joint_torn` | `WholeCommand` *(violated)* | the joint executes members of two commands |

**Bounds.** The gaits of the runs have the ratios of the program's own in coarser
units, so that every order of lift-offs and touch-downs occurs; with steps of 1
and 2 units out of 20 a tick may skip a tenth of the gait.
`Duration` is 2 or 1 instead of 1000: the ramp is then interrupted before its
end, at its end, and resumed or not. `MaxStick` is 1: what matters
of the stick is whether it is off the middle, and for how long. `Cap = 4` is the length of history the latency
properties need; the counters stop there. All command keys have one name each;
keys that change no modelled axis are `"other"`. In `loop_commands` one key, `w`,
moves the stick; the space key and `s`, with which the run would take too long,
are in `loop_stop_lost`, and the theorems hold for every set of keys.
`gait_walk` has the ratios of the trot (20, 10); the clock advances by 1 or 2, so
a tick may pass over a touch-down or a lift-off by one unit, and the flags start
as -1, 0 or 1. The clock of `wave_crawl` may be set back to either end and the
middle of a swing, as often as one likes (`SwitchSettles` speaks of clocks that
are set back no more); in the other runs it only advances: `LiftsOffAtStart`, checked in
`gait_walk`, is no property of a gait whose clock jumps.
The command runs have one or two terminals with one script each: every property
speaks of one script and what another may do to it. Of the scripts that may be
interrupted `walk` is the one with the most to leave behind: every phase has a
`kill_pub` and a publisher, and one of them walks. In `teleop`, three twists are one that is old, one that
is being copied and one that waits in the queue; in `simulation`, two commands
suffice for a mixture, and two states for an older one after a newer, since the
older is overwritten by then. Two members are the least that can be mixed; in
`teleop` one reading suffices, as `StateValue` speaks of each reading alone.
Three images are one that is shown, one that is lost or cut and one that comes
after it; with five bytes an image, `Chunk` = 5 has every read that ends in or
next to a marker, and every one that joins two images. Three requests let two
late answers wait while a third is asked for. Once all numbers are used the robot
answers no more, which `SilenceShown` needs, and rounds no longer count as
missed. Deadlock is not checked in the
`loop_*` runs, because the program may be ended, nor in `camera`, where the stream ends.

**Fairness.** `FairSpec` of `WaveGenerator` assumes that calls keep coming, of
`ControlLoop` that the tick goes on: the loop of `main.cpp:93` runs under
`SCHED_FIFO`, blocks on nothing but its own pacing (`absoluteWait`) and is ended
only by `running`. Nothing is assumed of the keyboard thread or of the operator,
nor of which status is asked for. `GaitLoop` assumes the same of its tick.
`HighCommand` assumes that every script, publisher and thread goes on, that
`sit_down` ends (it sends 300 datagrams), and that
a command published again and again is not dropped each time: the queue of one
keeps the newest, and the callback takes microseconds while publishers repeat
themselves every 20 ms. `EndsIdle`, `RecoversIdle` and `EndedIdle` also rest on `Prompt`: the
2 s of a `sleep` are enough for `rostopic` to start, connect and be heard, and for
what dead publishers had sent to arrive. The scripts assume this and check
nothing; without it the last phase may end before it was heard.

`Teleop` assumes that the threads of the bridge, the keyboard loop (whose `getch`
returns after 0.1 s at the latest) and MOVE_BASE's tick go on: each is an endless
loop that blocks on nothing else. Nothing is assumed of the operator, of the robot or of
the simulation's `sendCmd`, which on the robot does not exist. `Camera` assumes it of the capture thread and of the browser, not of
ffmpeg's ends or of losses; `Sensors` of `sensor_reader`, of the network for
packets that are on their way and not lost, and of the page's timer;
`Simulation` of its threads. `UndisturbedCommandArrives` has the absence of an
overlap as its premise: nothing in the code ensures it, and `joint_torn` shows
what happens without.

**What the properties do not catch.** `MoveBaseValue` and `MoveBaseStops` say nothing
of a velocity that was never written (0 in the model) or that is kept because its
sender is gone. `SwingsFromFoothold` excludes the legs that were set down by a
request to stand, or that are in the air when a trot begins: for those the code does
start a swing from an old or airborne place. `RecoversIdle` excludes an orphan that
is not yet rostopic when the next script begins, since no `kill_pub` finds it.
`OneStream` is about cameras read through a pipe: a remote sender that is restarted
is, to `capture_remote`, a stream with losses.

### Findings

1. **A stop can be lost** (`loop_stop_lost`). `KeyBoard.cpp:99` stores the
   command of each key over the one before; the loop reads the panel once per
   tick. The keyboard thread sleeps 1 ms after a key, a tick takes 2 ms, and it
   takes longer when the loop is late, so two keys can arrive between two
   copies. The second may even be a key without a command, which stores `NONE`.
2. **A switch taken back freezes legs** (`wave_linear`). After WAVE, STANCE,
   WAVE within one switch, `calcContactPhase` compares with vectors it no longer
   recomputes; the legs that disagree stand still for up to half a period.
3. **`damp` is overridden** (`command_damp`): `ros_udp` goes on sending its last
   command, idle or walk, during and after the 3 s of `sit_down`.
4. **A joint of the simulation executes two commands at once** (`joint_torn`).
   `setCommandCB` and `update` share `lastCmd` outside the buffer's lock
   (`joint_controller.cpp:35-44` and `137-162`). As `update` writes the old
   command back into `lastCmd` while `setCommandCB` is about to hand it to the
   buffer, a command may also be lost for good when no other follows.

Seen while reading, each within a few lines of the source and so without a run:

* SwingTest hands `setTau` a vector of which nine entries were never written
  (`State_SwingTest.cpp:96-101`).
* `stop` does not stop a walk that still idles before its walking phase
  (`go1_ros.sh:72-74`, `82-86`): the walk follows.
* Ctrl-C on a walking script leaves the robot walking: `ros_udp.cpp:36-42`
  repeats the last command without a limit, and `go1_ros.sh` has no trap. If it
  comes while the walk's publisher is being started (`go1_ros.sh:46`), the script is
  gone and the publisher comes up all the same: the walk then begins after Ctrl-C,
  and lasts until another script that publishes kills the publisher.
* The lost update of `KeyBoard.cpp:56`: the thread reads `userValue`, the loop
  zeroes the panel, and the thread stores the old value plus a step. The state
  that cleared the stick moves by it in every tick until the next zeroing or a
  space. TLC finds it without the premise of `StaleOnlyIfLost`: with the stick off
  the middle, `3` in FixedStand asks for FreeStand; `w` is pressed, and the thread
  reads the stick; the tick enters FreeStand and zeroes it; the thread writes. No
  line of the repository says otherwise, so it is no finding of a run.
* The keyboard node that is quit with `q` right after a key publishes no zero
  twist (`control_via_keyboard.cpp:65-67`): the robot keeps the key's velocity.
* The dashboard's request for the state is an idle command
  (`tri_stream.py:78-81`), in the middle of a walk too.
* A late answer shifts every later round of `sensor_reader`: the lag that
  `LagBounded` bounds is never made up for.
* `sendto` that fails leaves `connected` as it was (`tri_stream.py:90-91`): with
  the interface down the page goes on showing the old state as live. Hence the
  premise of `SilenceShown`.
* `tri_stream.py:57` takes `bms[8:18]` for the ten cells: the first two are the
  MCU temperatures, which line 58 shows as such, and the last two cells are
  missing.
* `state2rosMsg` of a `LowState` leaves out `levelFlag`, `frameReserve` and
  `bandWidth` (`convert.h:200-236`).
* `health_check.sh:63-65` compares the output of `ls ... && echo yes` with `yes`,
  which it never equals.
* `external_force.cpp` ended during a pulse leaves the force applied.

## 4. The proofs

The theorems hold for every value of the constants, under the named assumptions
of the modules.

* `TypeCorrect` (each). For the gait clock the stance must be positive and
  shorter than the period (`GaitAssumption`, the constructor's check), or a
  phase's denominator would not be positive.
* `PhaseRange`: the invariant has to speak of `phasePast` too, since a phase
  computed long ago may be handed out again; it needs `Rewinds` to hold no time
  before the start, where `fmod` is negative.
* `KeepsOld`: a call that finds a switch pending answers the old vector for
  each leg, because a leg whose two answers agree has the old one as well. It
  needs no more than the types.
* `Implements`: `WaveGenerator` refines `GaitPattern` with `mode <- statusPast`,
  `asked <- status`. The step proof needs that a leftover `contactPast` belongs
  to the completed status while flags are set, which is the invariant that
  carries it.
* `NoLeftoversHolds`: `NoLeftovers` is inductive only together with the fact that
  a change of state is one `checkChange` can ask for: BalanceTest and StepTest
  are entered from FixedStand alone, and it is FixedStand's image they complete.
* `RampRestartsHolds`, in the same style.
* `StopLatencyHolds` and `TiltLatencyHolds`: the invariants say for each number of
  ticks seen, each `pc` and each mode how far the stop has come: on the panel,
  copied, next state chosen, entered, sent.
* `SupportHolds`: `Supported` for every gait that keeps two legs down
  (`SupportAssumption`: the trot, the crawl and the walking trot of
  `main.cpp:81-83`, not the running trot and the pronk of lines 84-85). The
  invariant joins `PatternInv` of the gait clock, a completed status that is not
  all-swing in the states on the ground, and what `States` says of the wave
  status of each. Its heart: from a state whose legs hang in the air, Passive or
  SwingTest, the only way to the ground is FixedStand, whose `enter` asks for
  all-stance; that switch is direct, so FixedStand's first tick in `Normal`
  completes it, and the states that distribute forces can be entered only later.
* `SwingsStartWhereFeetStood` and `LiftsOffEarly`: the steps of a walk, for every
  gait whose legs are in step (`InStep`: of two legs, both swing at the same
  times, or one never swings while the other does; the trot, the crawl and the
  walking trot of `main.cpp:81-83`), and the first of them for ticks shorter than
  half a stance. What had to be found is where the legs are while a switch is
  pending (`WalkInv`): on the way into a walk, those that have not switched are
  those the walk has swung since it was asked for, so the call that completes the
  switch finds no leg further into its swing than that call took (`InTime`); on
  the way out, those with a flag set are in the air, so a walk that is asked for
  again leaves all legs where they were until these swing again. The walk is never
  asked for from all-swing, because FixedStand is on the way (`AskInv`), or legs
  in the air would follow the walk from anywhere in its period. A leg of which a
  stride ended then did so at the start of its stance, where `GaitGenerator::run`
  records its place (`StrideInv`). Two lemmas carry the arithmetic: a leg's time
  advances by no more than the tick, and where it goes back it comes out below
  the tick (`TimeAdvances`); and in a walk that is kept, a leg's first call on the
  ground is within a tick of its stance's start (`CallTouches`).
  `InStep` is needed: TLC finds both properties violated by a gait whose swings
  overlap in part (period 10, stance 6, biases 0, 2, 5, 7): a walk that is resumed
  lets a leg down in the middle of its stance, and one that begins lifts a leg in
  the middle of its swing. In the instances with the ratios of the crawl (8, 6) and
  the walking trot (10, 6) both hold, as the theorems say. `MCGaitLoop` assumes both
  hypotheses by name, so that each run of it evaluates them; `TrotInStep` proves
  the first of the trot, whatever its period, and `TrotSteps` has both results
  for it.
* `StaleOnlyIfLostHolds`: the panel holds a stick from before the last zeroing only
  once the thread has written one back (`StickInv`), so a copy that is taken from
  it is older only then. The one that had been taken before the zeroing is given to
  the run in progress and replaced in the next tick, whichever `enter` or `exit`
  did the zeroing. The lost update itself is in the model and not excluded.
* `TeleopSafe`: `NothingOvertakes` orders the numbers at the stages of each way
  (queue, callback, struct, UDP object, wire), member by member; it is inductive
  together with the types and `BridgeAssumption`.
* `CommandRefines`, `StateRefines`, `MoveBaseRefines` follow from that order: the
  step that changes the last stage takes each member from the stage before,
  which is never older and was issued. Only the publication issues.
* `GivenWholeStates` and `StateRefines` of the simulation: `_lowState` has one
  writer at a time, the spinner until it was waited for and `spinOnce` after it
  (`SpinnerInv`), so it is whole whenever no callback runs (`WholeInv`), and the
  numbers on the way from the joint to the loop are ordered (`OrderInv`).
* `FramesGoForward`: the buffer holds positions in ascending
  order, all of them after the latest image (`BufferInv`); cutting out an image
  keeps that, and a restart begins with an empty buffer. Hence also `NothingGlued`:
  whatever the buffer holds is of the stream being read (`BegunInv`). `TypeCorrect` of `Camera` says that no slice leaves the
  buffer, for every length of a read.
* `FramesAreWhole`: behind its first byte nothing is missing from the buffer but
  what was lost (`StreamInv`), so the bytes after a start marker are those of an
  image, and the first end marker found is its own. That the markers found are
  the first ones (`FindFirst`) takes the existence of a least index, which comes
  from the well-foundedness of `<` (`Least`).
* `MissedOnlyForCause`: each image is accounted for in every state (`KeptInv`): it
  was taken, or excused, or what has gone past of it is in the buffer; between
  two reads it is not there as a whole, and one of which just the first byte has
  gone past was cut in two by a read, or that byte lost. An image that is cut out
  before another one begins ends before it, because the end marker that stands
  there was not lost (`CutBefore`): this is where the excuse has to include the
  last two bytes of the image before.
* `Lag`: with every packet in the queue or on its way the invariant counts the
  rounds it may still delay (`LagInv`), and the packets are in the order of
  their requests (`OrderInv`), which also gives `SensorRefines`.
* `LeavesIdle`: `EndedIdle` for every number of terminals and whatever is typed
  into them, under `Prompt`. Two facts about a script's text carry it, proved for
  each from its phases: what is published is published until the end of the sleep
  after it (`Phased`), and a `kill_pub`, like the publication of any command but
  idle, is followed by another publication (`EndsIdly`); `Script_StopKills` is what
  a `stop` without the second would do. Hence a publisher never outlives its
  script's sleep (`PublisherInv`), and whenever `ros_udp` holds, or may still
  get, anything but idle, some script owes a publication: it has one to come, or
  is asleep beside one that was not heard (`CleanInv`). The step that needs the
  most is the callback: if it leaves nobody owing, then nothing in flight was of a
  dead publisher, and none of the living publishes anything but idle. A script whose
  publisher was killed before it was heard owes nothing any more, but then the
  script that killed it has a publication of its own to come. A script ended by
  Ctrl-C may leave a publisher behind; from then on `EndedIdle` claims nothing, but
  `TypeCorrect` still needs to know what the orphan says, which is what its script
  had it say (`PublisherSays`).

Only model-checked: `SwitchSettles`, `ComesToRest`, `LegsFollowState`,
`KeepsStepping`, `EndsIdle`, `RecoversIdle`, `LastTwistArrives`,
`ReleasedKeysStop`, `MoveBaseStops`, `LastFrameShown`, `SilenceShown`,
`StateArrives` and `UndisturbedCommandArrives`: liveness, which the prover does
not do. Every safety property that a passing run checks is stated by a theorem.
The types of `Teleop`, `Camera`, `Sensors`, `Simulation` and `HighCommand` are
proved and not checked again.

## 5. Not modelled, and why

* Kinematics, Kalman filter, force distribution, QuadProg++, low-pass filters:
  numeric, no control.
* The numbers inside a command or a state: joint torques from a command, gains
  and limits, the velocities of a twist other than whether they drive.
* The closed SDKs, the actuator SDK examples, URDF and Gazebo models, worlds,
  launch files, message definitions, the vendored `realsense_gazebo_plugin`,
  `pcl2scan`, QuadProg++, matplotlib-cpp: vendored or data. They and the numeric
  code above are more than three quarters of the repository's lines, which is why
  the modules account for a small share of them.
* The Gazebo demos of `unitree_controller` (`servo`, `body`, `move_publisher`,
  `external_force`), the plugins that draw forces, the SDK's examples.
* `WirelessHandle`: its construction is commented out (`IOSDK.cpp:18`).
* What the closed SDK does when port 8090 is taken (`ros_udp` and `sit_down` both
  bind it), and what the factory controller makes of a command: the model ends
  with the datagrams the Pi receives.
* The deployment scripts: shell commands on other machines, without state.
* The page's graphs and layout, HTTP itself.

## 6. Plan

Done: (1) the gait clock, the FSM, the panel; (2) FSM and gait clock composed,
with `GaitGenerator`; (3) MoveBase and (4b) `twist_sub` with the keyboard node;
(4a) `ros_udp` and the operator scripts; (5) the dashboard; (6) the simulation's
joint controller and IOROS; (7) the proofs, except that below.

Left:
(8) The cycloids and `FeetEndCal` as functions of a phase, to state that a swing
ends where the next stance begins.
(9) Proofs: what is safety in the liveness properties, as `EndedIdle` is in
`EndsIdle`: for `RecoversIdle`, that the next script alone brings the robot back
after an interruption; for `SwitchSettles` and `LegsFollowState`, that what was
reached is kept.
