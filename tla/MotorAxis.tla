----------------------------- MODULE MotorAxis -----------------------------
(***************************************************************************)
(* One axis of the motor driver (motorSupportApp).  The driver is a client *)
(* of the EPICS records, not of the PLC: it puts its set points, a command *)
(* code and an execute flag into output records, and reads its status from *)
(* input records.  The asyn port is locked while the motor record calls    *)
(* the driver and while the poller polls, so one thread acts for both.     *)
(*                                                                         *)
(* Between the records and the axis stand the scanners: a write pass       *)
(* visits the records one by one and sends what it found dirty at its end  *)
(* (ProcWrite); a read pass fills the response buffer at once, and EPICS   *)
(* shows the values one by one (RecordExchange).  The axis is external.    *)
(***************************************************************************)
EXTENDS Naturals, Sequences, Functions

CONSTANTS movingCheckPolls,  \* polls by which move() waits for the axis
          Scripts            \* bound: what is tried, with .axis a class of axes,
                             \* .calls a sequence of calls by the motor record,
                             \* .orders in which a write pass may visit the
                             \* records, .alarms how often the inputs are in alarm

Outputs == {"VEL", "POS", "DIST", "CMD", "EXEC", "STOP"}
Inputs == <<"MOVING", "FORWARD", "BACKWARD">>   \* in the order of pollAll
Motions == {"rest", "forward", "backward"}
Calls == {"moveAbs", "moveRel", "moveVelocity", "home", "stop"}

---------------------------------------------------------------------------
(* The records the two classes of axes put into.  The set points of a call *)
(* come first, the command and the execute flag last.                      *)

DISTANCE_SP(class) == IF class = "ISIS" THEN "DIST" ELSE "POS"

SetPoints(class, call) ==
  CASE call = "moveAbs" -> <<"VEL", "POS">>
    [] call = "moveRel" -> <<"VEL", DISTANCE_SP(class)>>
    [] call = "moveVelocity" -> <<"VEL">>
    [] OTHER -> <<>>

(* Fault: execute is put before the command code.                          *)
sendCommandSwapped == <<"EXEC", "CMD">>
sendCommand == <<"CMD", "EXEC">>

sendStop(class) == IF class = "ISIS" THEN sendCommand ELSE <<"STOP">>

PutsOf(class, call) ==
  IF call = "stop" THEN sendStop(class) ELSE SetPoints(class, call) \o sendCommand

Moves == {"moveAbs", "moveRel"}

(* A pass visits each record once; those nobody puts into may be left out. *)
ASSUME MotorAssumption ==
  /\ movingCheckPolls \in Nat \ {0}
  /\ \A s \in Scripts :
       /\ s.axis \in {"ISIS", "twincat"} /\ s.calls \in Seq(Calls) /\ s.alarms \in Nat
       /\ \A o \in s.orders :
            /\ o \in Seq(Outputs) /\ \A i, j \in DOMAIN o : o[i] = o[j] => i = j
            /\ \A n \in DOMAIN s.calls : Range(PutsOf(s.axis, s.calls[n])) \subseteq Range(o)

VARIABLES
  axis,       \* the class of this axis
  order,      \* the order of a write pass
  script, op, \* the calls to come and the number of those made; a record
              \* holds the number of the call that put into it last
  at,         \* the driver: "idle", "put", "sleep", "read"
  puts,       \* what the call has yet to put
  caller,     \* whom pollAll serves: "move" or "poll"
  polls,      \* movingCheckPolls that are left
  reads,      \* what pollAll has yet to read
  got,        \* what it has read
  done,       \* motorStatusDone; motorStatusMoving is its negation
  commsError, \* motorStatusCommsError
  dirty,      \* the dirty output records, with their values
  visiting, batch,      \* the write pass: records it has yet to visit
  symbol,     \* the output symbols in the PLC
  motion,     \* what the axis does
  ordered,   \* the last call the PLC executed, and whether it has begun
  buffer,     \* the motion when the read scanner last asked
  shown,      \* the input records
  alarm,      \* the input records are in alarm
  alarms,     \* alarms that may still come
  stale,      \* history: calls executed with a set point of an older call
  calm,       \* history: all was at rest and sent when the last move began
  wait,       \* history: how the last move ended its wait
  rested      \* history: the axis came to rest after the last move began

driverVars == <<at, puts, caller, polls, reads, got, done, commsError>>
recordVars == <<dirty, visiting, batch>>
plcVars == <<symbol, motion, ordered, alarms>>
inputVars == <<buffer, shown, alarm>>
motorHistory == <<stale, calm, wait, rested>>
motorVars == <<axis, order, script, op, driverVars, recordVars, plcVars, inputVars, motorHistory>>

Flags(m) == [MOVING |-> m # "rest", FORWARD |-> m = "forward", BACKWARD |-> m = "backward"]
AtRest == Flags("rest")
NoData == [r \in {} |-> 0]
With(data, r, n) == [s \in DOMAIN data \cup {r} |-> IF s = r THEN n ELSE data[s]]

MotorInit ==
  /\ \E s \in Scripts :
       axis = s.axis /\ script = s.calls /\ order \in s.orders /\ alarms = s.alarms
  /\ op = 0
  /\ at = "idle" /\ puts = <<>> /\ caller = "poll" /\ polls = 0
  /\ reads = <<>> /\ got = AtRest /\ done = TRUE /\ commsError = FALSE
  /\ dirty = NoData /\ visiting = <<>> /\ batch = NoData
  /\ symbol = [r \in Outputs |-> 0] /\ motion = "rest"
  /\ ordered = [op |-> 0, begun |-> TRUE]
  /\ buffer = "rest" /\ shown = AtRest /\ alarm = FALSE
  /\ stale = {} /\ calm = FALSE /\ wait = "none" /\ rested = FALSE

---------------------------------------------------------------------------
(* The motor record calls the driver.                                      *)
Call ==
  /\ at = "idle" /\ op < Len(script)
  /\ op' = op + 1
  /\ puts' = PutsOf(axis, script[op'])
  /\ at' = "put"
  /\ IF script[op'] \in Moves
     THEN /\ calm' = (/\ motion = "rest" /\ buffer = "rest" /\ shown = AtRest /\ ordered.begun
                      /\ dirty = NoData /\ batch = NoData)
          /\ wait' = "waiting" /\ rested' = FALSE
     ELSE calm' = FALSE /\ wait' = "none" /\ UNCHANGED rested
  /\ UNCHANGED <<axis, order, script, caller, polls, reads, got, done, commsError, recordVars,
                 plcVars, inputVars, stale>>

(* putDb: the record processes at once, which makes its value dirty.       *)
putDb ==
  /\ at = "put" /\ puts # <<>>
  /\ dirty' = With(dirty, Head(puts), op)
  /\ puts' = Tail(puts)
  /\ UNCHANGED <<axis, order, script, op, at, caller, polls, reads, got, done, commsError, visiting,
                 batch, plcVars, inputVars, motorHistory>>

PutsDone ==
  /\ at = "put" /\ puts = <<>>
  /\ IF script[op] \in Moves
     THEN at' = "sleep" /\ polls' = movingCheckPolls
     ELSE at' = "idle" /\ UNCHANGED polls
  /\ UNCHANGED <<axis, order, script, op, puts, caller, reads, got, done, commsError, recordVars,
                 plcVars, inputVars, motorHistory>>

(* pollAll, after epicsThreadSleep in move or by the poller's timer.       *)
StartPollAll(who) ==
  /\ at = IF who = "move" THEN "sleep" ELSE "idle"
  /\ at' = "read" /\ caller' = who /\ reads' = Inputs /\ got' = AtRest
  /\ UNCHANGED <<axis, order, script, op, puts, polls, done, commsError, recordVars, plcVars, inputVars,
                 motorHistory>>

getInteger ==
  /\ at = "read" /\ reads # <<>> /\ ~alarm
  /\ got' = [got EXCEPT ![Head(reads)] = shown[Head(reads)]]
  /\ reads' = Tail(reads)
  /\ UNCHANGED <<axis, order, script, op, at, puts, caller, polls, done, commsError, recordVars, plcVars,
                 inputVars, motorHistory>>

BothDirections == got.FORWARD /\ got.BACKWARD

(* An alarm, or an axis that seems to run in both directions, throws.      *)
Throws == at = "read" /\ IF reads # <<>> THEN alarm ELSE BothDirections

PollAllFails ==
  /\ Throws
  /\ at' = "idle" /\ reads' = <<>> /\ got' = AtRest /\ polls' = 0
  /\ IF caller = "poll" THEN commsError' = TRUE /\ UNCHANGED wait
                        ELSE wait' = "error" /\ UNCHANGED commsError
  /\ UNCHANGED <<axis, order, script, op, puts, caller, done, recordVars, plcVars, inputVars,
                 stale, calm, rested>>

PollAllDone == at = "read" /\ reads = <<>> /\ ~BothDirections

(* Fault: move waits for the axis to stop, not to start.                   *)
EndWaitInverted ==
  /\ PollAllDone /\ caller = "move"
  /\ polls' = IF got.MOVING THEN polls - 1 ELSE polls
  /\ IF got.MOVING /\ polls' > 0
     THEN at' = "sleep" /\ UNCHANGED wait
     ELSE at' = "idle" /\ wait' = IF polls' > 0 THEN "early" ELSE "timeout"
  /\ got' = AtRest
  /\ UNCHANGED <<axis, order, script, op, puts, caller, reads, done, commsError, recordVars, plcVars,
                 inputVars, stale, calm, rested>>

EndWait ==
  /\ PollAllDone /\ caller = "move"
  /\ polls' = IF got.MOVING THEN polls ELSE polls - 1
  /\ IF ~got.MOVING /\ polls' > 0
     THEN at' = "sleep" /\ UNCHANGED wait
     ELSE at' = "idle" /\ wait' = IF polls' > 0 THEN "early" ELSE "timeout"
  /\ got' = AtRest
  /\ UNCHANGED <<axis, order, script, op, puts, caller, reads, done, commsError, recordVars, plcVars,
                 inputVars, stale, calm, rested>>

(* Fault: a poll that succeeds leaves the error of an earlier one.         *)
pollKeepsError ==
  /\ PollAllDone /\ caller = "poll"
  /\ at' = "idle" /\ got' = AtRest /\ done' = ~got.MOVING
  /\ wait' = IF wait = "early" /\ done' THEN "reported" ELSE wait
  /\ UNCHANGED <<axis, order, script, op, puts, caller, polls, reads, commsError, recordVars,
                 plcVars, inputVars, stale, calm, rested>>

poll ==
  /\ PollAllDone /\ caller = "poll"
  /\ at' = "idle" /\ got' = AtRest /\ done' = ~got.MOVING /\ commsError' = FALSE
  /\ wait' = IF wait = "early" /\ done' THEN "reported" ELSE wait
  /\ UNCHANGED <<axis, order, script, op, puts, caller, polls, reads, recordVars, plcVars, inputVars,
                 stale, calm, rested>>

Driver == putDb \/ PutsDone \/ StartPollAll("move") \/ getInteger \/ PollAllFails \/ EndWait \/ poll

---------------------------------------------------------------------------
(* The write scanner, and what its request does in the PLC: the values are *)
(* stored together, then the PLC program looks at the execute flag.        *)

StartPass ==
  /\ visiting = <<>> /\ batch = NoData /\ dirty # NoData
  /\ visiting' = order
  /\ UNCHANGED <<axis, order, script, op, driverVars, dirty, batch, plcVars, inputVars, motorHistory>>

Visit ==
  /\ visiting # <<>>
  /\ LET r == Head(visiting) IN
     IF r \in DOMAIN dirty
     THEN dirty' = Restrict(dirty, DOMAIN dirty \ {r}) /\ batch' = With(batch, r, dirty[r])
     ELSE UNCHANGED <<dirty, batch>>
  /\ visiting' = Tail(visiting)
  /\ UNCHANGED <<axis, order, script, op, driverVars, plcVars, inputVars, motorHistory>>

OlderSetPoint(s, n) ==
  \E r \in Range(SetPoints(axis, script[n])) \cup {"CMD"} : s[r] < n

Send ==
  /\ visiting = <<>> /\ batch # NoData
  /\ symbol' = [r \in Outputs |-> IF r \in DOMAIN batch THEN batch[r] ELSE symbol[r]]
  /\ batch' = NoData
  /\ IF "EXEC" \in DOMAIN batch
     THEN /\ ordered' = [op |-> batch["EXEC"], begun |-> FALSE]
          /\ stale' = IF OlderSetPoint(symbol', batch["EXEC"]) THEN stale \cup {batch["EXEC"]} ELSE stale
     ELSE UNCHANGED <<ordered, stale>>
  /\ IF "STOP" \in DOMAIN batch THEN motion' = "rest" ELSE UNCHANGED motion
  /\ rested' = (rested \/ (motion # "rest" /\ motion' = "rest"))
  /\ UNCHANGED <<axis, order, script, op, driverVars, dirty, visiting, alarms, inputVars, calm, wait>>

WritePass == StartPass \/ Visit \/ Send

(* The axis begins what it was told last, in some direction, and comes to  *)
(* rest.                                                                   *)
Begin ==
  /\ ~ordered.begun
  /\ ordered' = [ordered EXCEPT !.begun = TRUE]
  /\ motion' \in IF script[ordered.op] = "stop" THEN {"rest"} ELSE {"forward", "backward"}
  /\ rested' = (rested \/ (motion # "rest" /\ motion' = "rest"))
  /\ UNCHANGED <<axis, order, script, op, driverVars, recordVars, symbol, alarms, inputVars, stale, calm, wait>>

Arrive ==
  /\ motion # "rest" /\ motion' = "rest" /\ rested' = TRUE
  /\ UNCHANGED <<axis, order, script, op, driverVars, recordVars, symbol, ordered, alarms, inputVars,
                 stale, calm, wait>>

(* The read scanner asks for the status; EPICS shows it record by record.  *)
ReadPass ==
  /\ buffer # motion /\ buffer' = motion
  /\ UNCHANGED <<axis, order, script, op, driverVars, recordVars, plcVars, shown, alarm, motorHistory>>

Show(f) ==
  /\ shown[f] # Flags(buffer)[f]
  /\ shown' = [shown EXCEPT ![f] = Flags(buffer)[f]]
  /\ UNCHANGED <<axis, order, script, op, driverVars, recordVars, plcVars, buffer, alarm, motorHistory>>

Alarm ==
  /\ alarm' = ~alarm
  /\ IF alarm THEN UNCHANGED alarms ELSE alarms > 0 /\ alarms' = alarms - 1
  /\ UNCHANGED <<axis, order, script, op, driverVars, recordVars, symbol, motion, ordered, buffer, shown,
                 motorHistory>>

MotorNext ==
  \/ Call
  \/ Driver \/ StartPollAll("poll")
  \/ WritePass \/ Begin \/ Arrive
  \/ ReadPass \/ (\E f \in DOMAIN shown : Show(f)) \/ Alarm

---------------------------------------------------------------------------
(* Properties                                                              *)

ExecuteFirst == order[1] = "EXEC"

(* "first the command code is entered and then execute is called" holds in *)
(* the PLC when a write pass visits the execute flag before all others: no *)
(* call is executed with a set point or a command of an older one.         *)
SetPointsArrive == ExecuteFirst => stale = {}

(* The same without the condition on the order of the pass.                *)
CommandBeforeExecute == stale = {}

(* When a move began with the axis at rest and ended its wait because the  *)
(* axis moved, no poll reports done before the axis has come to rest.      *)
NotDoneEarly == calm /\ wait = "reported" => rested

(* When the axis stays as it is and the alarms are over, the poller does   *)
(* not go on to report a communication error, whatever mixture of old and  *)
(* new directions it has read.                                             *)
ErrorPasses == <>[](~alarm) => []<>(~commsError)
=============================================================================
