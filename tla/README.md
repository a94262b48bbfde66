# Verification of rfs-volvo_cacc

This directory models parts of the software of the PATH truck platoon: three
trucks that drive at short distances under cooperative adaptive cruise control.
The modules are TLA+ specifications translated from the C source under `src/`;
TLC checks them on small instances, and TLAPS proves every safety property that
the runs check for all parameters; liveness is left to TLC. Paths below are relative to `src/`, and
`xyl/`, `avcs/`, `vehcomm/` and `common/` stand for those directories of
`truckcontrol/long_ctl/src/`.

## The system

On each truck some twenty processes exchange data through one *data server*
(`path/db/db_slv.c`), a table of variables in memory. A process that updates
a variable triggers the processes that watch it.

    sensors, J1939 reader --update--> data server --trigger/read--> control loop
    veh_rcv (radio)  ------update-->     |   ^                        |
    dvi_rcv (tablet) ------update-->     |   +------------update------+
    veh_snd, dvi_snd, traces <--read-----+
                                         +--> jbussend --read, CAN--> engine,
                                                                      brakes

CAN messages pass through a *CAN driver* (`can/`), a QNX resource manager with
code for two chips. The *control loop* (`xyl/`) runs coordination (which
maneuver?), maneuver (what distance, what reference?) and numerical control
laws in every cycle.

### Components

| Component | State it keeps | Operations | Status |
|---|---|---|---|
| Data server, `path/db/db_slv.c` | list of variables, trigger list of each, list of logins | login, logout, create, destroy, read, update, set and unset trigger | modelled: `DbServer`, `VarTable` |
| Clients and message transport, `db_clt.c`, `db_comm.c` | message queues, retry counters | a call: send, wait for the answer; receive a trigger | the System V queue build: `DbPosix`; the QNX and TCP builds are not |
| Client helpers, `db_lib.c`, `path_datahub.cpp` | none | sequences of calls | not modelled |
| Circular buffer, `path/local/sys_buff.c` | array, start, count | add, pop, read first | modelled: `CircularBuffer`, `RecentQueue` |
| Other local library code, `path/local` | lists, FIFO, b-tree, timers, ini files | data structures and conversions | the list appears as a sequence; no modelled process uses the others but for conversions |
| CAN driver, sending, `can/drv_*` | output buffer, time of the last send; the chip's buffer | write, flush, transmit and error interrupts | modelled: `CanTransmit` |
| CAN driver, receiving | input buffer, filter, notified reader; the chip's FIFO | interrupts, arm, read, empty, set filter | `CanReceive`, without mask arithmetic |
| CAN client library, `can/client` | a channel for each open file | open, read, close | as readers of `CanReceive` |
| Coordination and maneuvers, `xyl/long_lib/coording.c`, `maneuver.c` | clocks, switches and sampled distances in static variables | one cycle | modelled: `Coordination` |
| Control laws, `xyl/long_lib` (others) | filters, integrators | floating point | not modelled: no discrete state |
| Control loop that calls these, `xyl/long_trk.c.mod-to-use-latposB-instead-of-hdistA` | | one cycle | only how it calls the two functions |
| Control loop, newer, `xyl/long_trk.c`, `long_trk_func.c`, `common/long_ctl.c` | the command, torque limiter, timers, counters of each radio link | one cycle, exit | `LongCommand`, `CaccComm`, `GapRequest`, `JbusSend`; its laws and state machine are in a library that is missing |
| Command sender, `avcs/jbussend.c` | loop number, hand-over counters, last times | one loop, exit | modelled without scaling: `JbusSend` |
| Vehicle to vehicle radio, `vehcomm/veh_snd.c`, `veh_rcv.c` | none but the packets | send, receive | `CaccComm`; the encoding (`veh_lib.c`, `BSM_asn1_dir`, which is generated) is not |
| Driver's tablet, `vehcomm/dvi_rcv.c`, `dvi_snd.c` | gap level, request; packets read last, fields shown | one byte, one notification | `GapRequest`, `DviDisplay` |
| J1939 and J1587, `can/jbus` | none but tables | scale and copy PDUs | not modelled: conversions |
| CAN message packing, `can/messages`, `can/msg_tests`, `can/db_tests` | none | pack, unpack | not modelled |
| Switches, lamps, traces, replay, test commands, profiles | none to speak of | copy and print | not modelled: input and output |
| Sensors, `path/sens` | none to speak of | parse a device, update a variable | not modelled |
| Tools, `path/clt`, `mtcp`, `plot`, `sqlite_eg`, `tilcon`; scripts, data, documents | | | not modelled |

### What is hard about it

* *Interleaving*: any client's request can come at any moment of another one's
  call; frames arrive while the interrupt handler runs; `can_open` is three
  requests with interrupts between them.
* *Shared channels*: the answers and the triggers for a client share one queue.
* *Blocking*: the server waits for room in a client's queue; a client waits for
  the server.
* *Failure*: clients crash with their login and triggers in place; signals
  interrupt calls, which are tried again a limited number of times; transmit
  interrupts are missed; the chips are reset.
* *Radio and network*: packets are lost, sent twice and overtaken; veh_snd goes
  on sending for a control process that is dead; a tablet's press comes as four
  bytes of which any may be missing.
* *Stale data*: a variable of the database has no age; a notification says
  that a variable was written, and what is read may be a later one.
* *Arbitration*: the law, the driver, a near target and an emergency each
  rewrite part of one command; the last messages of an override must arrive.
* *Time*: the maneuvers of the three trucks hand over by clock, not by message;
  a button is debounced by a clock that starts again at midnight.
* *Long sequences*: switches that permit each maneuver once, and distances that
  one maneuver leaves to the next.

`PROJECT.json` lists each of these as a hazard, at the line where it bites.

### What makes the components correct

* Data server: it is a table: a request reaches the entry that it names, an
  update tries every watcher once.
* Transport: one answer to each call, and the right one; nobody waits for ever.
* Buffers: first in, first out, displacing only the oldest.
* Driver: nothing sent out of order or lost silently; every received message
  is announced to the reader.
* Coordination: the distance that is to be kept changes gradually, ends where
  the task says, and a stop stays a stop.
* Command: the engine never pulls against its retarder or the brakes, torque
  rises gradually; whoever gives up control frees the vehicle.
* Radio: a dead leader is found out in bounded time, a live one is taken back,
  the brakes ahead are followed.
* Tablet: one press is one step, the mode asked for stays, and what is shown is
  what the truck does and what the other trucks last said.

## The modules

### CircularBuffer, RecentQueue

`CircularBuffer` is `sys_buff.c` with the `can_cq_*` functions of the driver:
`data_array`, `data_start` and `data_count`, and one action each for adding,
popping and reading the first item. Reading an empty buffer returns whatever
the slot holds. `RecentQueue` is what the comments promise: a queue of the most recent
items. `ImplementsRecentQueue` is the refinement, under the mapping that reads
the array from the start, around its end.

### DbServer, VarTable

`DbServer` is the server's loop. `pdb` is its list of variables, newest first,
with the bad variable, the answer to bogus requests, at the end; `pusr` the logins; `job` where the
server is: receiving, in the walk over a trigger list (`pnode`), or replying.
A request is one action up to its first output, and so is every trigger, so
that in `DbPosix` clients act between them. Every request of `slv_cmd` but the
debugging snapshot is there. Allocation does not fail. `comm_done` returns
FALSE for the message transports, and so an unset that succeeds is answered
with FALSE: the model says so, and `VarTable` leaves this answer open.
`VarTable` is a function from names to values and sets of watchers;
`ImplementsVarTable` is the refinement, provided that nobody destroys the bad
variable.

### DbPosix

`DbPosix` extends `DbServer` with the queues: one for the server, one for each
client. A client's call is a send and a wait, each of which a signal can
interrupt; the retry loops of `comm_sync_send` and `comm_async_trig` are in it
with the test that follows them, which throws away an answer that was received
at the last permitted try. Clients log out, crash, and log in again by
the same key; a logout in this build leaves the triggers behind. `MaxFaults`
bounds the interrupts and crashes together. Every queue has a bound.

### CanTransmit

The driver's output buffer, the one message in the chip, a pending transmit
interrupt and what the bus has carried. `late` stands for a
`last_time_can_sent` more than a second ago. `dev` is the chip: the SJA1000's
buffer is locked while it holds a message, the i82527's message object is
overwritten. A bus error may reset the chip.

### CanReceive

The chip's FIFO, the input buffer, the handler with its local variables (one
action for each turn of its loop, so that frames arrive meanwhile), and the
readers' calls. A closed reader's context has been freed: the model takes an
event for it as lost. `missed` counts the pulses the design never sends, those for
messages that were in the buffer when it was armed and those that a reset
drops, so that the properties say what remains.

### Coordination

One cycle of one truck: `coording`, then `maneuver`. Of the versions of the
control loop in `xyl/` the one that calls these two with the parameters they
have is `long_trk.c.mod-to-use-latposB-instead-of-hdistA`, and `Cycle` is its
(`run_tasks`). In tasks 3 to 8 it sets `des_f_dist` once, before its first
cycle, and then leaves it to `coording`; what the properties say of that
distance depends on it. The dated loops (`long_trkc.c`, `long_trk.c.091310`,
`long_trk_090810.c`) call an older `coording`, with the test site as one more
parameter, and for one site set the distance anew in every cycle: the distance
properties are not about them. `long_trk.c` and `long_trk_10.c` call a newer
library that is not in the repository. The speed (below, at or above the maximum), the fault index and the refusal of a
maneuver (the truck ahead is too near, or far already) are free in every cycle;
`past` is whether the stopping distance has been passed. `v` holds the static
variables and the fields of the shared structures; a switch of the code is a
member of the set `used` or `sampled` once it is 0. Abstractions:

* Time is in cycles, and clocks stop at a bound beyond their last test.
* A distance changes along a straight line instead of half a cosine, between
  the same ends, so that all distances are integers.
* Faults are managed from `man_des` 3 on, and a truck that waits stands still,
  which is how the loop calls the two functions. The cycles before its clock
  has started, in which it does not call `coording`, are left out.
* The loop's own overrides of `man_des` (29 and 30, from the radio) and the
  reference speed and acceleration are left out.

### JbusSend

One loop of `jbussend`'s `main` is one action: it reads the control variable
(or inactive control when the data server is away), and in the loops of one
message type decides whether a message is sent and with which mode.
`state_change_counter`, `old_mode`, `last_time` (as `recent`: whether a period
has passed is known up to the delay of a timer) and `engine_speed_mode` are
those of the code; `ecu` is what the receivers were told last, and `MaxLost`
bounds the messages that the bus loses in one hand-over, two of the three. The
loop's timer, the control process (`common/long_ctl.c`: it writes inactive
control when it exits, not when it crashes) and the data server are actions
around it. The comparison of the override limit uses times that are never set:
its outcome is free.

### LongCommand

A cycle of `actuate` and what `run_tasks` overrides after it, as a chain of
operators in the order of the code (torque, driver, retarder, near target,
brakes, mode, emergency), each a function of the command so far. What the
control law, the driver and the modes ask for is free in every cycle. Torque is a number, scaled
so that the three limits of its rise, the cap and the wiggle keep their order;
of the retarder only whether it is on and its torque has the right sign. The
part under `TEST_BRK`, which is not defined, is left out.

### CaccComm

A follower `me`, the control processes of the trucks ahead, their `veh_snd`, the
radio and `veh_rcv` of `me`. A packet is a time stamp and whether the driver
brakes. Packets are a set on their way, so that they overtake one another; one
stamp may be sent and received any number of times. `Cycle` is
`cacc_comm` with what it takes from packets and the emergency braking.
`trusted` counts the cycles that took the speed of a leader whose process was dead.
Stamps are used again only when nobody holds them any longer, which is sound as the code
compares them for equality only.

### GapRequest

The tablet's bytes, of which each may be lost; `dvi_rcv` with its gap level
and the time of the last gap button (in ticks of the tablet, with the order of
floating point times at exactly 200 ms left open); the selection
of mode and time gap in a control cycle; and the level that `dvi_snd` shows. `dvi_out` is
uninitialised until the first button: the model starts it with a member of
`Garbage`. `char` and `unsigned char` have their width: level -1 is asked for
as 255.

### DviDisplay

`dvi_snd` on one truck. The database holds the last packet of each truck;
`later` says whether its stamp is later than that of the last packet
that `dvi_snd` read, which is all that the error test asks; the radio may
deliver an older packet after it. Notifications are counted for each truck, and
have one queue. `triggers` are the trucks whose variables still have `dvi_snd`
in their trigger list: `slv_update` removes a client whose notification is
refused, and the next one to put it there is `dvi_snd` when it is started again.

## Runs

| Run | Shows | Bounds, and why they are enough |
|---|---|---|
| `circular_buffer` | the buffer implements the queue | the indices wrap several times |
| `db_server` | the list, the trigger lists and the answers; the server implements the table | two variables and three clients: an entry, or a trigger, that is first, last or between two others; logins are left to `db_posix` |
| `db_posix` | calls and answers pair, logins agree, every call returns unless the server is stuck | a client that updates and one that watches and logs out; one fault, an interrupt or a crash, and a limit of one try, so that the interrupted call gives up and its answer is left behind; three queue ids, so that a client can log in again; a client queue of three, so that it fills. A retry that succeeds needs a second try, beyond these bounds |
| `can_transmit` | order, no loss, no stall, for both chips | seven writes and a buffer flushed beyond three (ten in the code, of which only the order against the buffer's size matters): two flushes; one reset |
| `can_receive` | a pulse for each message; the buffer drains | two readers, two opens, four frames, a chip and a buffer of two: both overflow; one reset |
| `jbus_send` | whoever gives up control frees engine, retarder and brakes | one round of four loops (the code's length is a multiple of four); two masks, which between them have every message type; one command for each case that the code tells apart; two lost messages of the three of a hand-over |
| `long_command` | the engine never pulls against retarder or brakes; torque rises by steps | torques below, between and above the levels and the cap; every combination of inputs in every cycle; a near target outlasts its three cycles |
| `cacc_comm` | a dead leader is found out, a fault ends, brakes are followed | the second truck; two packets on their way, so that one overtakes the other; five stamps, so that a packet on its way is overtaken by up to four newer ones before its sender waits for it; a fault after three equal stamps. All other places and bounds by proof, for the safety part |
| `gap_request` | a press is one step; the mode stays; truck and tablet agree | leader and follower; three levels; a press of two bytes within a window of two, so that both, one or none arrive |
| `dvi_display` | no old braking unnoticed; errors pass; connections agree | the truck in the middle of three; a queue of two, so that a second packet comes before the first one's notification is taken, and a third notification is refused; others are refused at any time |
| `coordination` | the distance that `coording` sets is smooth, ends right and stays bounded; a stop is final | all trucks and tasks; the times are a few cycles, with CRUISE_T above the two cycles an acknowledgment takes, as in the code |
| `coordination_emergency` | finding: a stale acknowledgment ends an emergency split | one follower that splits |

Every module's type invariant is proved for all constants (below). Three of
them are in a run as well, as they say more than types: how full the queues of
`DbPosix` are, how long the handler of `CanReceive` runs, how far the distance
of `Coordination` goes.
Deadlock is checked except where writes, frames or calls are bounded, or the
server can really wait for ever (`db_posix`), or a signal ends the process
(`jbus_send`).

### Properties worth a remark

* `WaitsOnlyForBacklog`: `comm_sync_reply` blocks. The run shows that it does
  so only for a client that called with triggers unread; `CallsReturn` then holds
  with the exception `ServerStuck`, a client that cannot empty its queue because it is
  itself waiting, or dead. That exception is a real weakness of the transport.
* `PulseForEachMessage`: the SJA1000's handler leaves after a number of turns
  fixed at its entry; the run shows that this is sound as long as the interrupt
  is level triggered, which the model assumes.
* `NothingLost` excepts what the flush throws out, and messages that were sent
  again with their interrupt pending: then the interrupt acknowledges the next
  message as well, which is how the resend can lose one.
* `DistanceIsSmooth` and `EndsAtTaskDistance` speak of a truck that was not
  disturbed: kept at its speed since it first cruised, no fault, no
  refusal. A change of the speed during a split ends it for good (its switch is
  spent), and a refused split leaves the length of an earlier one behind; both
  make jumps, and are left to the controller's limits.
* `StopIsFinal` holds whatever the speed and the faults do.
* `HandOverReleases` counts three chances of a hand-over with at most two lost;
  `ExitReleasesAllButOne` is as much as the code can promise: it sends its last
  messages at once, and its own comment says that one is lost then.
* `LossOfControlReleases` excepts a control process that crashes: its last
  command stays in the database and is sent for ever.
* `RisesByStep` is about consecutive cycles under torque control. It compares
  commands, and so needs that the buffered torque and the command part only by
  cap and wiggle.
* `TrustEnds` bounds the damage of late packets: `Trusted` grows with the
  packets on their way, as each can look like a new stamp twice. It is tight
  in kind: without the term for the packets TLC finds a counterexample.
* `FollowsBrakes` takes brakes that stay; a short press between two packets
  may never be seen.
* `ModeAsKept` counts a gap button as a request for CACC, which is what the code
  makes of it.
* `ShownIsLast` does not say that a silent truck is noticed: it is not, as
  only a notification changes what is shown. It excepts a truck of which a
  notification was refused.
* `ErrorPasses` and `ConnectionsAgree` assume what the code does not ensure:
  that from some time on no notification is refused (`Notified`). After one that
  was, packets and the control process go on, `dvi_snd` runs, and yet nothing
  about that truck, or the connections, changes on the tablet; without the
  assumption TLC finds both properties violated. `LaterPackets` is needed as
  well: an older packet that overwrites each later one before it is read would
  keep the error.

### Fairness

* `CanTransmit`: weak fairness of `can_dev_write` only. The code says "Assumes
  message sends are at least 1 Hz" and relies on it; neither the bus nor the
  interrupts are assumed to go on.
* `CanReceive`: the handler runs when a frame waits and comes to its end, and an
  armed reader goes on reading. `can_dev_read` has strong fairness: it is
  disabled while the handler runs, and `dispatch_block` serves requests in the
  order of their arrival.
* `DbPosix`: the server goes on whenever it can; a client receives an answer
  that is there and, between calls, its triggers. No call, interrupt or crash
  is fair.
* `JbusSend`: the loop is driven by a timer. For each message type it has strong
  fairness of a loop that reads the real variable and finds its message due:
  a data server that answers again and again does not fail in exactly the loops
  of one type.
* `CaccComm`: cycles are driven by timers; sending and receiving have strong
  fairness (a radio that is tried again and again lets a packet through), and
  a packet that is on its way is received or lost some day.
* `GapRequest`: the control and `dvi_snd` go on. Presses, bytes and restarts
  have no fairness.
* `DviDisplay`: a notification that waits is taken, in the order of arrival.
  That packets are written, and notifications not refused, is not assumed of the
  system but stated as hypotheses of the two properties.
* `CircularBuffer`, `DbServer`, `LongCommand` and `Coordination` have safety
  properties only.

## Findings

`coordination_emergency` is the one run that is meant to fail. `coording.c:433`:
an old acknowledgment is taken for an emergency split's, which is then never
carried out.

Weaknesses that the models contain, and that the properties step around in the
way that `PROJECT.json` says at each hazard:

* `db_slv.c:695`: any client can destroy the bad variable, which must be last.
* `db_slv.c:503`: one notification that a full queue refuses ends the client's
  notifications of that variable; no client sets its trigger again.
* `db_clt.c:339`: a logout does not unset triggers in the message queue build.
* `db_comm.c:446`: an answer received at the last permitted try is discarded.
* `drv_i82527/can_dev.c:439`: the handler reports one message for many.
* `avcs/jbussend.c:605`: the last messages are sent at once.
* `avcs/jbussend.c:657`: a command whose author crashed is sent for ever.
* `xyl/long_trk_func.c:191`: the speed of the second truck is taken whatever
  the state of its link.
* `vehcomm/dvi_rcv.c:142`: the level moves beyond 1 to 5.
* `vehcomm/dvi_snd.c:306`: a silent truck is shown as connected.

## Proofs

| Module | Theorem | Argument |
|---|---|---|
| `CircularBuffer_proofs` | `TypeCorrect` | inductive as it stands |
| | `Refinement` | lemmas on the window of the array: overwriting the oldest slot drops the head and appends, writing the next free one appends, advancing the start drops the head |
| `DbServer_proofs` | `TypeCorrect`, `NoNameTwice`, `NoTriggerTwice` | one inductive invariant: types, and that names and the triggers of an entry are unique; lemmas say how each change of the list keeps it |
| | `BadVarIsLast`, `ReadsAnswerTheName` | from it, with nobody destroying the bad variable: entries are only added in front |
| | `Refinement` | from the same; as names are unique, each entry is found by its name (`View`), and adding, removing and changing an entry map to the table's creating, destroying and changing; `WalkKnown`: the variable being updated exists until the answer; removing a failed trigger at the walk's position leaves to be told all but that client |
| `DbPosix_proofs` | `QueuesStayTyped` | inductive, with the type invariant of `DbServer` under it |
| | `QueuedRequestsRefine` | each step is one of `DbServer` that its refinement covers, or leaves the table alone; a call never names the bad variable, which discharges the proviso of `DbServer_proofs` |
| | `AnswersAreNotLost`, `AnswersBelongToCalls` | `Calls`: until a call fails, where a client is in its call says where its request or reply is: in the server's queue, in the server's hands, in its own queue, or nowhere, and that there is one of them; `Keys`: no queue serves two clients. Without it an answer could reach the next owner of a queue |
| | `SessionsAreListed` | `Logins`: a client's queue is in the server's list exactly once from the time its login is served to the time its logout is, and nobody else's is |
| | `FullOnlyByBacklog` | `Backlogs`: only clients whose requests are ahead of a client's own, or whose update is being answered, can still trigger it; the length of its queue and their number together do not exceed what it began with by more than the number of clients |
| `Can_proofs` | `TypeCorrect`, `SentInOrder` (`CanTransmit`) | `Inv`: what was sent, the chip's message and what waits are in order; one lemma for each way in which a handler changes the three |
| | `NoneIsLost` | `Tracked`: until a flush or a race, the chip holds the oldest message that waits, and a pending interrupt is for a sent one that is still the oldest; this is what makes the pop of `tx_process_interrupt` right |
| | `HandlerLeaves` (`CanReceive`) | inductive: the turns left are part of the type |
| | `NoMessageIsLeft` | for a handler that reports each message: pulses on their way, pulses due and pulses missed together are no fewer than the messages that wait |
| `Command_proofs` | `TypeCorrect`, `Releases` (`JbusSend`) | `Held`: a receiver that is held while no control is seen is in a hand-over, all of whose messages so far were lost, as many as are missing from the four it started with |
| | `ExitReleases` | with `Untouched`: what is not active is told nothing; the exit ends the process and nothing is sent after it |
| | `CommandTypeCorrect` (`LongCommand`) | inductive as it stands |
| | `Exclusive` | the chain of operators, one lemma for each: only the torque branch turns the engine on, and it clears the rest; every later one that turns something else on turns the engine off |
| | `SlowRise` | `Tracks`: an engine that is on has the buffered torque, but for cap and wiggle, and a limiter that does not start afresh; `Limited` three times is bounded by the buffer and the largest step |
| | `NearTakesOver` | `StartsAgain`: the engine pulls near a target only in a cycle in which the target's timer has started again |
| `CaccComm_proofs` | `TypeCorrect` | inductive as it stands |
| | `Trust` | a potential: cycles already spent, plus a full run of the fault counter for every new stamp that can still be seen (two for each stale packet on its way), plus what is left of the present run; while the leader is dead, no step raises it |
| `Driver_proofs` | `TypeCorrect` (`GapRequest`) | with the invariant below, as the range of `steps` needs it |
| | `OneStep` | `Spent`: a press that has moved the level has less of its hold left than time has gone since; so the window is still open at its last byte |
| | `ModeKept` | `Held`: `dvi_rcv` and the database hold the request of the last button; `Fixed`: the leader never leaves ACC |
| | `DviTypeCorrect`, `LastShown` (`DviDisplay`) | inductive as they stand |
| `Coordination_proofs` | `DistanceIsBounded` | `Inv`: `Good`: maneuver's two distances belong together, and the desired one is beyond four splits only once the switch of falling back is spent; every operator of coording and maneuver keeps it. `NoJoinYet` keeps a join's negative ramp away from a split |
| | `StopsForGood` | from the same invariant: each branch of coording is followed for a truck beyond the stopping distance |
| | `DistanceWithoutJumps` | `OnCourse`: a follower that was not disturbed is in a phase of its task (`Course`): a maneuver that has gone on for so many cycles, with the distance that these have made, begun by a certain time. One lemma for each phase and task; the last cycle of each phase leads into the next without a jump |
| | `TaskEndsRight` | from `OnCourse`: at `End` every phase but the last is over, as each has a latest time |

The proof of `OnCourse` is the longest. A maneuver counts its own cycles, and
coording decides by the cycles since the truck first cruised or by those that
it has cruised for; both clocks are ahead of the maneuver by the cycle that
an acknowledgment takes. In tasks 6 to 8 a truck acts by clock alone while the
other one moves, so the phases are functions of the time; in tasks 3 to 5 they
are bounds on it.

The assumptions are the ASSUMEs of the modules on their constants: positive
sizes, the flush limit below the size of the buffer, the bad variable not
among the clients' names, values distinct from BOOLEANs, finitely many clients
none of which logs in again without a logout, the levels of the limiter in
rising and its steps in falling order, a press that is held no longer than the
debouncing window. `NoMessageIsLeft` is for the SJA1000's handler
(`PerMessage`); the i82527's reports one message for many. `Coordination` takes
`t_wait > 3` and `CRUISE_T > 2`, of times that are seconds in the code and
cycles of 20 ms here: with a shorter cruise task 8 would begin to join before
its split was acknowledged.

Model checked and not proved is every liveness property (liveness under
fairness is out of the prover's reach): `CallsReturn`, `StallEnds`, `Drains`,
`ReleaseReaches`, `BrakeCommandReaches`, `LossOfControlReleases`,
`DeadLeaderFound`, `FaultEnds`, `FollowsBrakes`, `RequestRules`, `ErrorPasses`
and `ConnectionsAgree`. All the other properties of passing runs are theorems.
Nothing here needs induction over data, and no module has a RECURSIVE operator.

## Not modelled

The map covers a few percent of the lines under `src/`, and most of the rest
holds nothing that a model checker decides:

* Vendored and generated code: `path/local/sqlite3.h`, `vehcomm/BSM_asn1_dir`,
  the drivers of `can/client`, and the tables of `can/jbus/src`, each PDU of
  which is scaled by its own functions.
* Copies: `old_src`, `jbussendGPS.c`, and the dated versions of the control
  loop and its library (`xyl/long_trk_090810.c`, `xyl/long_lib/long_vrd.c`).
* Floating point: control laws, filters, sensor fusion and trajectories.
* What needs the missing library `cacc`: the driving modes of `long_trk.c` and
  their transitions. `LongCommand` takes their outputs as free.
* Input and output: sensors, traces, replay, plots, user interfaces, scripts.
* The QNX and TCP transports of the data server, chosen when it is built; the
  debugging snapshot; failures of `malloc`.

## Plan

Done, in order of importance: the buffer, the server and its transport, the
driver's two halves, coordination; then the command and its way to the vehicle,
the radio, and the tablet. What would add most next:

1. `Platoon`: three `Coordination` trucks with their clocks and the radio
   between them. `Course` already says when each truck moves, and so where
   two of them are together.
2. `LongCommand` and `JbusSend` composed: a command on the bus that is no
   older than a cycle and a loop.
3. The conditions under which the exceptions of liveness cannot happen, such as
   `ServerStuck` by `FullOnlyByBacklog`.
