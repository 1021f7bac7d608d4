---------------------------- MODULE HighCommand ----------------------------
(***************************************************************************)
(* The team's command path to the factory controller: the scripts          *)
(* go1_ros.sh and test_trot.sh, their background publishers of /high_cmd,  *)
(* and ros_udp, which keeps the last command it was given and sends it to  *)
(* the Pi every 2 ms.  sit_down, behind `damp', `sit', `stand' and `idle', *)
(* sends the Pi commands of its own; so does the dashboard, to be answered *)
(* with the robot's state.                                                 *)
(*                                                                         *)
(* A script is the sequence of its effects, interpreted one at a time, so  *)
(* that scripts typed into several shells interleave.  ROS and bash are    *)
(* external; a message is in flight until it is received, in any order.    *)
(***************************************************************************)
EXTENDS Integers, Sequences

CONSTANTS
  Shell,         \* the operator's terminals; each runs one script
  Command,       \* the subcommands that may be typed into each
  Interruptible, \* the terminals in which Ctrl-C may be pressed
  Prompt,        \* is `sleep' longer than ROS takes? see Sleep
  Dashboard      \* is tri_stream.py running?

(* The members that tell the commands apart; velocity in tenths of a m/s.  *)
HighCmd == [mode : {0, 2, 5, 6, 7}, gaitType : 0..2, velocity : {0, 2}]
Mode(m) == [mode |-> m, gaitType |-> 0, velocity |-> 0]
Idle == Mode(0)

Forward(g) == [mode |-> 2, gaitType |-> g, velocity |-> 2]

---------------------------------------------------------------------------
(* The scripts.  cmd is what the publisher of the moment sends.            *)
Effect(o, c) == [op |-> o, cmd |-> c]

kill_pub == <<Effect("kill_pub", Idle)>>
Publish(c) == <<Effect("spawn", c), Effect("sleep", c), Effect("kill", c)>>

(* mutant: nobody looks for publishers that are left over *)
publish_highcmd_NoKill(c) == Publish(c)

publish_highcmd(c) == kill_pub \o Publish(c)

(* mutant: the script ends with the walk *)
Walk_NoIdle(g) == publish_highcmd(Idle) \o publish_highcmd(Forward(g))

Walk(g) == publish_highcmd(Idle) \o publish_highcmd(Forward(g)) \o publish_highcmd(Idle)

SDK_BIN(m) == <<Effect("sdk", Mode(m))>>

(* mutant: `stop' only kills the publishers *)
Script_StopKills ==
  [damp  |-> SDK_BIN(7),
   sit   |-> SDK_BIN(5),
   stand |-> SDK_BIN(6),
   idle  |-> SDK_BIN(0),
   walk  |-> Walk(1),
   trot  |-> Walk(2),
   stop  |-> kill_pub \o <<Effect("echo", Idle)>>,
   test_trot |-> kill_pub \o <<Effect("sleep", Idle)>>
                   \o Publish(Idle) \o Publish(Forward(1)) \o Publish(Idle)]

Script ==
  [damp  |-> SDK_BIN(7),
   sit   |-> SDK_BIN(5),
   stand |-> SDK_BIN(6),
   idle  |-> SDK_BIN(0),
   walk  |-> Walk(1),
   trot  |-> Walk(2),
   stop  |-> kill_pub \o publish_highcmd(Idle) \o <<Effect("echo", Idle)>>,
   test_trot |-> kill_pub \o <<Effect("sleep", Idle)>>
                   \o Publish(Idle) \o Publish(Forward(1)) \o Publish(Idle)]

ASSUME CommandAssumption ==
  /\ Command \in [Shell -> SUBSET DOMAIN Script]
  /\ Interruptible \subseteq Shell
  /\ Prompt \in BOOLEAN /\ Dashboard \in BOOLEAN

NoScript == "none"

VARIABLES
  script,    \* what was typed into a shell
  done,      \* how many effects of it have happened
  interrupted, \* the shells whose script Ctrl-C has ended
  pub,       \* the shell's background publisher
  served,    \* the command of the sleep in progress has had its time, see Sleep
  wire,      \* commands in flight, and in ros_udp's queue
  high_cmd,
  sent       \* the last datagram the Pi received

scriptVars == <<script, done, interrupted>>
vars == <<scriptVars, pub, served, wire, high_cmd, sent>>

Typed(s) == script[s] # NoScript
Ended(s) == Typed(s) /\ (s \in interrupted \/ done[s] >= Len(Script[script[s]]))
Running(s) == Typed(s) /\ ~Ended(s)
Effect_(s) == Script[script[s]][done[s] + 1]
At(s, o) == Running(s) /\ Effect_(s).op = o
Advance(s) == done' = [done EXCEPT ![s] = @ + 1] /\ UNCHANGED <<script, interrupted>>

(* Processes that pkill finds and that are connected, or will be.          *)
Named == {"starting", "up"}

Init ==
  /\ script = [s \in Shell |-> NoScript]
  /\ done = [s \in Shell |-> 0]
  /\ interrupted = {}
  /\ pub = [s \in Shell |-> "none"]
  /\ served = [s \in Shell |-> FALSE]
  /\ wire = {}
  /\ high_cmd = Idle
  /\ sent = Idle

---------------------------------------------------------------------------
(* The scripts' effects.                                                   *)

Type(s, c) ==
  /\ ~Typed(s)
  /\ script' = [script EXCEPT ![s] = c]
  /\ UNCHANGED <<done, interrupted, pub, served, wire, high_cmd, sent>>

(* pkill -f looks at command lines: a child of the shell that has not yet  *)
(* become rostopic is not found.  Nobody waits for the killed process.     *)
KillPub(s) ==
  /\ At(s, "kill_pub")
  /\ pub' = [t \in Shell |-> IF pub[t] \in Named THEN "killed" ELSE pub[t]]
  /\ Advance(s)
  /\ UNCHANGED <<served, wire, high_cmd, sent>>

Spawn(s) ==
  /\ At(s, "spawn")
  /\ pub' = [pub EXCEPT ![s] = "forked"]
  /\ served' = [served EXCEPT ![s] = FALSE]
  /\ Advance(s)
  /\ UNCHANGED <<wire, high_cmd, sent>>

(* The scripts wait for a fixed time and look at nothing.  With Prompt the *)
(* time is long enough for rostopic to start and be heard, with everything *)
(* sent by dead publishers received before; unless it was killed.          *)
Sleep(s) ==
  /\ At(s, "sleep")
  /\ Prompt => served[s] \/ pub[s] \in {"none", "killed"}
  /\ Advance(s)
  /\ UNCHANGED <<pub, served, wire, high_cmd, sent>>

(* kill "$pid"; wait "$pid": both may fail, and the script goes on.        *)
Kill(s) ==
  /\ At(s, "kill")
  /\ pub' = [pub EXCEPT ![s] = "none"]
  /\ Advance(s)
  /\ UNCHANGED <<served, wire, high_cmd, sent>>

Echo(s) ==
  /\ At(s, "echo")
  /\ Advance(s)
  /\ UNCHANGED <<pub, served, wire, high_cmd, sent>>

(* sit_down: 300 datagrams of its own, past ros_udp.                       *)
SdkSend(s) ==
  /\ At(s, "sdk")
  /\ sent' = Effect_(s).cmd
  /\ served' = [served EXCEPT ![s] = TRUE]
  /\ UNCHANGED <<scriptVars, pub, wire, high_cmd>>

SdkEnd(s) ==
  /\ At(s, "sdk") /\ served[s]
  /\ Advance(s)
  /\ UNCHANGED <<pub, served, wire, high_cmd, sent>>

(* What becomes of a publisher.  bash without job control starts it with   *)
(* SIGINT ignored, and it stays so until rospy has installed a handler:    *)
(* before that, Ctrl-C leaves an orphan, which comes up and publishes.     *)
AfterCtrlC(p) ==
  CASE p = "forked"   -> {"forked"}
    [] p = "starting" -> {"starting", "none"}
    [] OTHER          -> {"none"}

(* Ctrl-C ends the script; done stays, as it tells what an orphan says.    *)
CtrlC(s) ==
  /\ s \in Interruptible /\ Running(s)
  /\ interrupted' = interrupted \cup {s}
  /\ \E p \in AfterCtrlC(pub[s]) : pub' = [pub EXCEPT ![s] = p]
  /\ UNCHANGED <<script, done, served, wire, high_cmd, sent>>

Effects(s) ==
  KillPub(s) \/ Spawn(s) \/ Sleep(s) \/ Kill(s) \/ Echo(s) \/ SdkSend(s) \/ SdkEnd(s)

---------------------------------------------------------------------------
(* The publishers and the transport.                                       *)

(* The child becomes rostopic, and finds the subscriber.                   *)
Start(s) ==
  /\ pub[s] \in {"forked", "starting"}
  /\ pub' = [pub EXCEPT ![s] = IF @ = "forked" THEN "starting" ELSE "up"]
  /\ UNCHANGED <<scriptVars, served, wire, high_cmd, sent>>

Says(s, c) == pub[s] = "up" /\ Effect_(s).cmd = c

PublishOne(s) ==
  /\ pub[s] = "up"
  /\ wire' = wire \cup {Effect_(s).cmd}
  /\ UNCHANGED <<scriptVars, pub, served, high_cmd, sent>>

(* Commands in flight whose publishers are gone.                           *)
Stale(w) == {c \in w : \A s \in Shell : ~Says(s, c)}

(* The subscriber's queue has room for one: a command that waits there is  *)
(* dropped for the next.                                                   *)
Drop(c) ==
  /\ c \in wire /\ wire # {c}
  /\ wire' = wire \ {c}
  /\ UNCHANGED <<scriptVars, pub, served, high_cmd, sent>>

---------------------------------------------------------------------------
(* ros_udp: the callback's thread and the sending thread share high_cmd.   *)

(* A copy taken while the callback writes has members of both commands.    *)
Mixed(a, b) ==
  [mode : {a.mode, b.mode}, gaitType : {a.gaitType, b.gaitType}, velocity : {a.velocity, b.velocity}]

highCmdCallback(c) ==
  /\ c \in wire
  /\ wire' = wire \ {c}
  /\ high_cmd' = c
  /\ sent' \in {sent} \cup Mixed(high_cmd, c)
  /\ served' = [s \in Shell |-> served[s] \/ (Says(s, c) /\ Stale(wire) = {})]
  /\ UNCHANGED <<scriptVars, pub>>

highUdpSend ==
  /\ sent' = high_cmd
  /\ UNCHANGED <<scriptVars, pub, served, wire, high_cmd>>

(* The dashboard asks for the robot's state with an idle command.          *)
sensor_reader ==
  /\ Dashboard
  /\ sent' = Idle
  /\ UNCHANGED <<scriptVars, pub, served, wire, high_cmd>>

Next ==
  \/ \E s \in Shell : \/ \E c \in Command[s] : Type(s, c)
                      \/ Effects(s) \/ CtrlC(s) \/ Start(s) \/ PublishOne(s)
  \/ \E c \in wire : Drop(c) \/ highCmdCallback(c)
  \/ highUdpSend
  \/ sensor_reader

Spec == Init /\ [][Next]_vars

(* What the scripts' publishers say.                                       *)
Published ==
  LET typed == UNION {Command[s] : s \in Shell}
      effects == UNION {{Script[c][i] : i \in DOMAIN Script[c]} : c \in typed}
  IN  {e.cmd : e \in {f \in effects : f.op = "spawn"}}

(* Every process and thread goes on, and a command that is repeated is not *)
(* dropped for ever.  sit_down ends after 300 datagrams.  Nothing is       *)
(* assumed of the operator.                                                *)
FairSpec ==
  /\ Spec
  /\ \A s \in Shell : /\ WF_vars(Effects(s)) /\ WF_vars(SdkEnd(s))
                     /\ WF_vars(Start(s)) /\ WF_vars(PublishOne(s))
  /\ \A c \in Published : SF_vars(highCmdCallback(c))
  /\ WF_vars(highUdpSend)

---------------------------------------------------------------------------
LongestScript == 12

TypeOK ==
  /\ \A s \in Shell : script[s] \in Command[s] \cup {NoScript}
  /\ done \in [Shell -> 0 .. LongestScript]
  /\ interrupted \subseteq Shell
  /\ pub \in [Shell -> {"none", "forked", "starting", "up", "killed"}]
  /\ served \in [Shell -> BOOLEAN]
  /\ wire \subseteq HighCmd
  /\ high_cmd \in HighCmd
  /\ sent \in HighCmd

Quiet == \A s \in Shell : Typed(s) => Ended(s)
Uninterrupted == interrupted = {}

(* Once the scripts that were typed have ended, none of them by Ctrl-C,    *)
(* ros_udp holds the idle command and nothing else can reach it: no walk   *)
(* is left behind in a publisher, on the way or in the queue, whoever      *)
(* killed whose publisher.  This is what the sleeps of 2 s are for.        *)
EndedIdle ==
  Prompt /\ Quiet /\ Uninterrupted =>
    high_cmd = Idle /\ wire \subseteq {Idle} /\ pub = [s \in Shell |-> "none"]

(* However scripts overlap, kill each other's publishers and leave         *)
(* messages behind, they all end; and then, unless one was ended by Ctrl-C *)
(* before its last phase, the robot is commanded to stand idle and to      *)
(* nothing else again: whoever published last published mode 0 after       *)
(* everything else was dead, and ros_udp repeats that.                     *)
EndsIdle == <>[](Quiet /\ (Uninterrupted => sent = Idle))

(* Ctrl-C leaves ros_udp with whatever it was told last, and may leave a   *)
(* publisher behind that says it for ever.  Any script that publishes,     *)
(* typed when no other runs and not interrupted itself, finds the orphan   *)
(* and brings the robot back to idle, provided that the orphan's exec is   *)
(* over by then; `damp' and the other uses of sit_down do not.             *)
Publishing == {"walk", "trot", "stop", "test_trot"}
Alone(s) == ~Typed(s) /\ \A t \in Shell \ {s} : Ended(t)
Findable == \A t \in Shell : pub[t] # "forked"
RecoversIdle ==
  \A s \in Shell \ Interruptible :
    [](Alone(s) /\ Findable => <>[](script[s] \in Publishing => sent = Idle))

(* go1_ros.sh:11: `damp' releases all motors.  With no other script it is  *)
(* the last command the Pi has been given.                                 *)
DampHolds ==
  \A s \in Shell :
    (script[s] = "damp" /\ Ended(s) /\ \A t \in Shell \ {s} : ~Typed(t)) => sent.mode = 7
============================================================================
