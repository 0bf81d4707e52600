---------------------------- MODULE PartsProofs ----------------------------
(***************************************************************************)
(* Proofs about three parts that share nothing: an axis of the motor       *)
(* driver, the info records and the update scanners' crawl.  Each has its  *)
(* specification, the inductive invariants of its properties in named      *)
(* parts, and one lemma for each action that the invariant depends on.     *)
(*                                                                         *)
(* SetPointsArrive: what saves a call from being executed with an older    *)
(* set point is an order at three places - the driver puts the flag last,  *)
(* a record on its way to the PLC is never older than the one before it,   *)
(* and a pass that has met the flag has the rest of the call before it.    *)
(*                                                                         *)
(* NotDoneEarly: MOVING, once seen, stays shown until the axis has come to *)
(* rest, because neither the buffer nor the record can fall back to a rest *)
(* older than the move.                                                    *)
(*                                                                         *)
(* PartsAgree: in the middle of an update, a part is up to date or has its *)
(* turn to come.  ResetHonoured is not inductive either: a push that has   *)
(* passed its test stores FALSE whatever the value is by then.  What saves *)
(* the TRUE is the dirty flag: EPICS raises it with the value, and only a  *)
(* push that reads the value lowers it (PushMayLose).                      *)
(*                                                                         *)
(* RemindedInTime: the records passed since r was reminded and those still *)
(* to pass before its turn are fewer than all, and a workload is more than *)
(* the share of a tick.                                                    *)
(***************************************************************************)
EXTENDS MotorAxis, InfoRecords, UpdateScanner, SequenceTheorems, FiniteSetTheorems, TLAPS

---------------------------------------------------------------------------
(* The motor driver.                                                       *)

MotorSpec == MotorInit /\ [][MotorNext]_motorVars

---------------------------------------------------------------------------
(* The set points of a call and its command.                               *)
Needed(n) == Range(SetPoints(axis, script[n])) \cup {"CMD"}

(* The value of call n has been put into r and is somewhere on its way.    *)
Given(r, n) ==
  \/ r \in DOMAIN dirty /\ dirty[r] >= n
  \/ r \in DOMAIN batch /\ batch[r] >= n
  \/ symbol[r] >= n

CallTypes ==
  /\ script \in Seq(Calls) /\ op \in 0..Len(script)
  /\ order \in Seq(Outputs) /\ \A i, j \in DOMAIN order : order[i] = order[j] => i = j
  /\ \A n \in DOMAIN script : Range(PutsOf(axis, script[n])) \subseteq Range(order)
  /\ puts \in Seq(Outputs) /\ visiting \in Seq(Outputs)
  /\ DOMAIN dirty \subseteq Outputs /\ DOMAIN batch \subseteq Outputs

(* A value further on its way is not a newer one.                          *)
InOrder ==
  /\ \A r \in Outputs : symbol[r] \in 0..op
  /\ \A r \in DOMAIN batch : batch[r] \in 0..op /\ batch[r] >= symbol[r]
  /\ \A r \in DOMAIN dirty :
       /\ dirty[r] \in 0..op /\ dirty[r] >= symbol[r]
       /\ r \in DOMAIN batch => dirty[r] >= batch[r]

(* The execute flag is put when everything else of its call has been.      *)
PutsInOrder ==
  at = "put" =>
    /\ op \in DOMAIN script /\ Range(puts) \subseteq Range(PutsOf(axis, script[op]))
    /\ \A i \in DOMAIN puts :
         puts[i] = "EXEC" =>
           \A r \in Needed(op) : Given(r, op) \/ \E j \in 1..i - 1 : puts[j] = r

ExecutesCall(n) == n \in DOMAIN script /\ "EXEC" \in Range(PutsOf(axis, script[n]))

DirtyComplete ==
  "EXEC" \in DOMAIN dirty =>
    /\ ExecutesCall(dirty["EXEC"])
    /\ \A r \in Needed(dirty["EXEC"]) : Given(r, dirty["EXEC"])

(* A pass that has the flag but not yet all of its call will still visit   *)
(* the rest.                                                               *)
BatchComplete ==
  "EXEC" \in DOMAIN batch =>
    \A r \in Needed(batch["EXEC"]) :
      \/ symbol[r] >= batch["EXEC"]
      \/ r \in DOMAIN batch /\ batch[r] >= batch["EXEC"]
      \/ r \in DOMAIN dirty /\ dirty[r] >= batch["EXEC"] /\ r \in Range(visiting)

FlagComesFirst ==
  "EXEC" \in Range(visiting) => visiting = order /\ DOMAIN batch = {}

CommandInv ==
  /\ CallTypes /\ InOrder /\ PutsInOrder /\ DirtyComplete
  /\ ExecuteFirst => BatchComplete /\ FlagComesFirst /\ stale = {}

---------------------------------------------------------------------------
(* What the driver and the status records hold.                            *)
StatusTypes ==
  /\ at \in {"idle", "put", "sleep", "read"} /\ caller \in {"move", "poll"}
  /\ reads \in Seq(DOMAIN AtRest)
  /\ got \in [DOMAIN AtRest -> BOOLEAN] /\ shown \in [DOMAIN AtRest -> BOOLEAN]
  /\ motion \in Motions /\ buffer \in Motions

(* Between the calls nothing is left of what was read; a move waits.       *)
WaitsInMove ==
  /\ at \in {"idle", "sleep", "put"} => got = AtRest
  /\ at = "sleep" \/ (at = "read" /\ caller = "move") => wait = "waiting"
  /\ at = "put" => (script[op] \in Moves <=> wait = "waiting")

(* Once a move that began at rest has been seen to move, MOVING is shown   *)
(* until the axis comes to rest: the motion that was at rest when the move *)
(* began has not yet begun, or goes on.                                    *)
ShowsMotion ==
  calm /\ ~rested =>
    /\ motion = "rest" => buffer = "rest"
    /\ buffer = "rest" => ~shown.MOVING
    /\ got.MOVING => shown.MOVING
    /\ wait = "early" =>
         /\ shown.MOVING
         /\ at = "read" /\ caller = "poll" => reads = Inputs \/ got.MOVING
    /\ wait # "reported"

StatusInv == StatusTypes /\ WaitsInMove /\ ShowsMotion

---------------------------------------------------------------------------
LEMMA SetPointsAre ==
  ASSUME NEW class, NEW call
  PROVE  SetPoints(class, call) \in Seq({"VEL", "POS", "DIST"})
<1>1. DISTANCE_SP(class) \in {"POS", "DIST"}
  BY DEF DISTANCE_SP
<1>2. SetPoints(class, call) \in {<<"VEL", "POS">>, <<"VEL", DISTANCE_SP(class)>>, <<"VEL">>, <<>>}
  BY DEF SetPoints
<1> DEFINE D == {"VEL", "POS", "DIST"}
           d == DISTANCE_SP(class)
<1>3. <<"VEL", "POS">> \in Seq(D)
  OBVIOUS
<1>4. <<"VEL", d>> \in Seq(D)
  <2> HIDE DEF d
  <2> QED BY <1>1 DEF d
<1>5. <<"VEL">> \in Seq(D) /\ <<>> \in Seq(D)
  OBVIOUS
<1> QED BY <1>2, <1>3, <1>4, <1>5

FlagLast(P, N) ==
  \A i \in DOMAIN P : P[i] = "EXEC" => \A r \in N : \E j \in 1..i - 1 : P[j] = r

LEMMA PutsFacts ==
  ASSUME NEW class, NEW call
  PROVE  /\ PutsOf(class, call) \in Seq(Outputs)
         /\ Range(SetPoints(class, call)) \cup {"CMD"} \subseteq Outputs \ {"EXEC"}
         /\ FlagLast(PutsOf(class, call), Range(SetPoints(class, call)) \cup {"CMD"})
<1> DEFINE s == SetPoints(class, call)
           P == PutsOf(class, call)
           N == Range(s) \cup {"CMD"}
<1>1. s \in Seq({"VEL", "POS", "DIST"})
  BY SetPointsAre
<1>2. N \subseteq Outputs \ {"EXEC"}
  BY <1>1 DEF Range, Outputs
<1>3. CASE P = s \o sendCommand
  <2> HIDE DEF P
  <2>0. N = Range(s) \cup {"CMD"}
    OBVIOUS
  <2> HIDE DEF s, N
  <2>1. s \in Seq(Outputs) /\ sendCommand \in Seq(Outputs) /\ Len(sendCommand) = 2
    BY <1>1 DEF Outputs, sendCommand
  <2>2. /\ P \in Seq(Outputs) /\ Len(P) = Len(s) + 2
        /\ \A i \in 1..Len(s) + 2 :
             P[i] = IF i <= Len(s) THEN s[i] ELSE sendCommand[i - Len(s)]
    <3> DEFINE c == sendCommand
    <3>1. P = s \o c /\ s \in Seq(Outputs) /\ c \in Seq(Outputs) /\ Len(c) = 2
      BY <1>3, <2>1
    <3> HIDE DEF c
    <3>2. /\ s \o c \in Seq(Outputs) /\ Len(s \o c) = Len(s) + Len(c)
          /\ \A i \in 1..Len(s) + Len(c) :
               (s \o c)[i] = IF i <= Len(s) THEN s[i] ELSE c[i - Len(s)]
      BY <3>1, ConcatProperties, ZenonT(30)
    <3> QED BY <3>1, <3>2 DEF c
  <2>3. P[Len(s) + 1] = "CMD"
    BY <2>1, <2>2 DEF sendCommand
  <2>4. ASSUME NEW i \in DOMAIN P, P[i] = "EXEC", NEW r \in N
        PROVE  \E j \in 1..i - 1 : P[j] = r
    <3>1. i \in 1..Len(s) + 2
      BY <2>2
    <3>2. i > Len(s)
      BY <1>1, <2>2, <2>4, <3>1
    <3>3. i = Len(s) + 2
      BY <2>1, <2>3, <2>4, <3>1, <3>2
    <3>4. CASE r = "CMD"
      BY <2>1, <2>3, <3>3, <3>4
    <3>5. CASE r \in Range(s)
      <4>1. PICK j \in 1..Len(s) : s[j] = r
        BY <2>1, <3>5 DEF Range
      <4>2. P[j] = r
        BY <2>1, <2>2, <4>1
      <4> QED BY <2>1, <3>3, <4>1, <4>2
    <3> QED BY <2>0, <3>4, <3>5
  <2>5. FlagLast(P, N)
    BY <2>4 DEF FlagLast
  <2> QED BY <1>2, <2>2, <2>5 DEF N, P, s
<1>4. CASE P = sendCommand /\ s = <<>>
  <2>1. N = {"CMD"}
    BY <1>4 DEF Range
  <2>2. FlagLast(<<"CMD", "EXEC">>, {"CMD"}) /\ <<"CMD", "EXEC">> \in Seq(Outputs)
    BY DEF FlagLast, Outputs
  <2> HIDE DEF P, N
  <2> QED BY <1>2, <1>4, <2>1, <2>2 DEF sendCommand, P, N
<1>5. CASE P = <<"STOP">>
  <2>1. FlagLast(<<"STOP">>, N) /\ <<"STOP">> \in Seq(Outputs)
    BY DEF FlagLast, Outputs
  <2> QED BY <1>2, <1>5, <2>1
<1>6. P = s \o sendCommand \/ (P = sendCommand /\ s = <<>>) \/ P = <<"STOP">>
  BY DEF PutsOf, sendStop, SetPoints
<1> QED BY <1>3, <1>4, <1>5, <1>6

LEMMA CommandInit == MotorInit => CommandInv
<1> SUFFICES ASSUME MotorInit PROVE CommandInv
  OBVIOUS
<1>1. DOMAIN dirty = {} /\ DOMAIN batch = {} /\ visiting = <<>> /\ puts = <<>> /\ Range(visiting) = {}
  BY DEF MotorInit, NoData, Range
<1>2. CallTypes
  BY <1>1, MotorAssumption DEF MotorInit, CallTypes
<1>3. InOrder
  BY <1>1 DEF MotorInit, InOrder
<1> QED BY <1>1, <1>2, <1>3 DEF MotorInit, CommandInv, PutsInOrder, DirtyComplete, BatchComplete,
                               FlagComesFirst
---------------------------------------------------------------------------
LEMMA FlagsAre ==
  ASSUME NEW m
  PROVE  /\ Flags(m) \in [{"MOVING", "FORWARD", "BACKWARD"} -> BOOLEAN]
         /\ Flags(m).MOVING <=> m # "rest"
<1>1. (m # "rest") \in BOOLEAN /\ (m = "forward") \in BOOLEAN /\ (m = "backward") \in BOOLEAN
  OBVIOUS
<1>2. Flags(m) \in [MOVING : BOOLEAN, FORWARD : BOOLEAN, BACKWARD : BOOLEAN]
  BY <1>1, Zenon DEF Flags
<1>3. Flags(m) \in [{"MOVING", "FORWARD", "BACKWARD"} -> BOOLEAN]
  BY <1>2
<1>4. Flags(m).MOVING <=> m # "rest"
  BY Zenon DEF Flags
<1> QED BY <1>3, <1>4

LEMMA AtRestIs ==
  /\ AtRest \in [DOMAIN AtRest -> BOOLEAN] /\ AtRest.MOVING = FALSE
  /\ DOMAIN AtRest = {"MOVING", "FORWARD", "BACKWARD"}
<1>1. AtRest \in [{"MOVING", "FORWARD", "BACKWARD"} -> BOOLEAN] /\ ~AtRest.MOVING
  BY FlagsAre, Zenon DEF AtRest
<1> QED BY <1>1

LEMMA NeededFacts ==
  ASSUME CommandInv, NEW n \in DOMAIN script
  PROVE  /\ Needed(n) \subseteq Outputs \ {"EXEC"}
         /\ ExecutesCall(n) => Needed(n) \subseteq Range(order)
<1> DEFINE P == PutsOf(axis, script[n])
<1>1. P \in Seq(Outputs) /\ Needed(n) \subseteq Outputs \ {"EXEC"}
  BY PutsFacts DEF Needed
<1>2. FlagLast(P, Needed(n))
  BY PutsFacts DEF Needed
<1>3. Range(P) \subseteq Range(order)
  BY DEF CommandInv, CallTypes
<1>4. ASSUME ExecutesCall(n), NEW r \in Needed(n) PROVE r \in Range(order)
  <2> HIDE DEF P
  <2>1. PICK i \in DOMAIN P : P[i] = "EXEC"
    BY <1>4 DEF ExecutesCall, Range, P
  <2>2. PICK j \in 1..i - 1 : P[j] = r
    BY <1>2, <1>4, <2>1 DEF FlagLast
  <2>3. j \in DOMAIN P
    BY <1>1, <2>1, <2>2
  <2> QED BY <1>3, <2>2, <2>3 DEF Range
<1> QED BY <1>1, <1>4

(* Nothing that the command invariant is about has changed, and no call    *)
(* has begun.                                                              *)
LEMMA CommandUnchanged ==
  ASSUME CommandInv,
         UNCHANGED <<axis, order, script, op, puts, dirty, visiting, batch, symbol, stale>>,
         at' = "put" => at = "put"
  PROVE  CommandInv'
<1>1. CallTypes' /\ InOrder' /\ PutsInOrder' /\ DirtyComplete'
  BY DEF CommandInv, CallTypes, InOrder, PutsInOrder, DirtyComplete, Given, Needed, ExecutesCall
<1>2. ExecuteFirst' => (BatchComplete /\ FlagComesFirst /\ stale = {})'
  BY DEF CommandInv, ExecuteFirst, BatchComplete, FlagComesFirst, Needed
<1> QED BY <1>1, <1>2 DEF CommandInv

LEMMA CommandCall == CommandInv /\ Call => CommandInv'
<1> SUFFICES ASSUME CommandInv, Call PROVE CommandInv'
  OBVIOUS
<1> USE DEF CommandInv, CallTypes
<1>1. /\ op' = op + 1 /\ op' \in DOMAIN script /\ op \in Nat
      /\ puts' = PutsOf(axis, script[op'])
      /\ UNCHANGED <<axis, order, script, dirty, visiting, batch, symbol, stale>>
  BY DEF Call, recordVars, plcVars
<1>2. puts' \in Seq(Outputs) /\ Range(puts') \subseteq Range(order)
  BY <1>1, PutsFacts
<1>3. CallTypes'
  BY <1>1, <1>2
<1>4. InOrder'
  BY <1>1 DEF InOrder
<1>5. PutsInOrder'
  <2>1. FlagLast(puts', Needed(op)')
    BY <1>1, PutsFacts DEF Needed
  <2> QED BY <1>1, <2>1 DEF PutsInOrder, FlagLast
<1>6. DirtyComplete'
  BY <1>1 DEF DirtyComplete, Given, Needed, ExecutesCall
<1>7. ExecuteFirst' => (BatchComplete /\ FlagComesFirst /\ stale = {})'
  BY <1>1 DEF ExecuteFirst, BatchComplete, FlagComesFirst, Needed
<1> QED BY <1>3, <1>4, <1>5, <1>6, <1>7

LEMMA CommandPut == CommandInv /\ putDb => CommandInv'
<1> SUFFICES ASSUME CommandInv, putDb PROVE CommandInv'
  OBVIOUS
<1> DEFINE h == Head(puts)
<1>1. /\ at = "put" /\ puts # <<>> /\ puts' = Tail(puts) /\ dirty' = With(dirty, h, op)
      /\ UNCHANGED <<at, axis, order, script, op, visiting, batch, symbol, stale>>
  BY DEF putDb, plcVars, motorHistory
<1>2. /\ h \in Outputs /\ Tail(puts) \in Seq(Outputs) /\ h = puts[1] /\ 1 \in DOMAIN puts
      /\ \A i \in DOMAIN Tail(puts) : i \in Nat /\ i + 1 \in DOMAIN puts /\ Tail(puts)[i] = puts[i + 1]
  BY <1>1 DEF CommandInv, CallTypes
<1> HIDE DEF h
<1>3. /\ DOMAIN dirty' = DOMAIN dirty \cup {h} /\ dirty'[h] = op
      /\ \A t \in DOMAIN dirty \ {h} : dirty'[t] = dirty[t]
  <2>1. /\ DOMAIN With(dirty, h, op) = DOMAIN dirty \cup {h} /\ With(dirty, h, op)[h] = op
        /\ \A t \in DOMAIN dirty \ {h} : With(dirty, h, op)[t] = dirty[t]
    BY DEF With
  <2> QED BY <1>1, <2>1
<1>4. CallTypes'
  BY <1>1, <1>2, <1>3 DEF CommandInv, CallTypes
<1>5. InOrder'
  <2>1. InOrder /\ op \in Nat
    BY DEF CommandInv, CallTypes
  <2>2. op' = op /\ symbol' = symbol /\ batch' = batch
    BY <1>1
  <2>3. \A t \in DOMAIN dirty' :
          (t = h /\ dirty'[t] = op) \/ (t \in DOMAIN dirty /\ dirty'[t] = dirty[t])
    BY <1>3
  <2>4. ASSUME NEW t \in DOMAIN dirty'
        PROVE  /\ dirty'[t] \in 0..op /\ dirty'[t] >= symbol[t]
               /\ t \in DOMAIN batch => dirty'[t] >= batch[t]
    <3>1. CASE t = h /\ dirty'[t] = op
      BY <1>2, <2>1, <3>1 DEF InOrder
    <3>2. CASE t \in DOMAIN dirty /\ dirty'[t] = dirty[t]
      BY <2>1, <3>2 DEF InOrder
    <3> QED BY <2>3, <3>1, <3>2
  <2> QED BY <2>1, <2>2, <2>4 DEF InOrder
<1>6. \A n \in Nat, r \in Outputs : Given(r, n) => Given(r, n)'
  BY SMTT(30), <1>1, <1>2, <1>3 DEF CommandInv, CallTypes, InOrder, Given
<1>7. PICK n \in DOMAIN script : n = op
  BY <1>1 DEF CommandInv, PutsInOrder
<1>8. n \in Nat /\ op' = n /\ Needed(n) \subseteq Outputs /\ Needed(n)' = Needed(n)
  BY <1>1, <1>7, NeededFacts DEF CommandInv, CallTypes, Needed
<1>9. PutsInOrder'
  <2>1. Range(Tail(puts)) \subseteq Range(puts)
    BY <1>2 DEF Range
  <2>2. ASSUME NEW i \in DOMAIN Tail(puts), Tail(puts)[i] = "EXEC", NEW r \in Needed(n)
        PROVE  Given(r, n)' \/ \E j \in 1..i - 1 : Tail(puts)[j] = r
    <3>1. CASE Given(r, n)
      BY <1>6, <1>8, <3>1
    <3>2. CASE \E j \in 1..(i + 1) - 1 : puts[j] = r
      <4>1. PICK j \in 1..i : puts[j] = r
        BY <1>2, <3>2
      <4>2. CASE j = 1
        BY <1>2, <1>3, <1>7, <1>8, <4>1, <4>2 DEF Given
      <4>3. CASE j # 1
        <5>1. j - 1 \in 1..i - 1 /\ j - 1 \in DOMAIN Tail(puts) /\ (j - 1) + 1 = j
          BY SMTT(30), <1>1, <1>2, <4>1, <4>3 DEF CommandInv, CallTypes
        <5>2. Tail(puts)[j - 1] = r
          BY <1>2, <4>1, <5>1
        <5> QED BY <5>1, <5>2
      <4> QED BY <4>2, <4>3
    <3>3. puts[i + 1] = "EXEC" /\ i + 1 \in DOMAIN puts
      BY <1>2, <2>2
    <3> QED BY <1>1, <1>7, <3>1, <3>2, <3>3 DEF CommandInv, PutsInOrder
  <2> QED BY <1>1, <1>7, <1>8, <2>1, <2>2 DEF CommandInv, PutsInOrder
<1>10. DirtyComplete'
  <2>1. CASE h = "EXEC"
    <3>0. puts[1] = "EXEC" /\ 1 \in DOMAIN puts /\ ~\E j \in 1..1 - 1 : TRUE
      BY <1>2, <2>1
    <3>1. ExecutesCall(n)
      <4>1. "EXEC" \in Range(puts)
        BY <3>0 DEF Range
      <4>2. Range(puts) \subseteq Range(PutsOf(axis, script[n]))
        BY <1>1, <1>7 DEF CommandInv, PutsInOrder
      <4> QED BY <4>1, <4>2 DEF ExecutesCall
    <3>2. \A r \in Needed(n) : Given(r, n)
      <4>1. \A r \in Needed(op) : Given(r, op) \/ \E j \in 1..1 - 1 : puts[j] = r
        BY <1>1, <3>0 DEF CommandInv, PutsInOrder
      <4> QED BY <1>7, <3>0, <4>1
    <3>3. \A r \in Needed(n) : Given(r, n)'
      BY <1>6, <1>8, <3>2
    <3> QED BY <1>1, <1>3, <1>7, <1>8, <2>1, <3>1, <3>3 DEF DirtyComplete, ExecutesCall
  <2>2. CASE h # "EXEC"
    <3> SUFFICES ASSUME "EXEC" \in DOMAIN dirty PROVE DirtyComplete'
      BY <1>3, <2>2 DEF DirtyComplete
    <3>1. PICK m \in DOMAIN script : m = dirty["EXEC"]
      BY DEF CommandInv, DirtyComplete, ExecutesCall
    <3>2. dirty'["EXEC"] = m /\ ExecutesCall(m) /\ \A r \in Needed(m) : Given(r, m)
      BY <1>3, <2>2, <3>1 DEF CommandInv, DirtyComplete
    <3>3. Needed(m) \subseteq Outputs /\ Needed(m)' = Needed(m) /\ m \in Nat
      BY <1>1, NeededFacts DEF CommandInv, CallTypes, Needed
    <3>4. \A r \in Needed(m) : Given(r, m)'
      BY <1>6, <3>2, <3>3
    <3> QED BY <1>1, <3>2, <3>3, <3>4 DEF DirtyComplete, ExecutesCall
  <2> QED BY <2>1, <2>2
<1>11. ASSUME ExecuteFirst' PROVE (BatchComplete /\ FlagComesFirst /\ stale = {})'
  <2>1. ExecuteFirst
    BY <1>1, <1>11 DEF ExecuteFirst
  <2>2. \A r \in DOMAIN dirty :
          r \in DOMAIN dirty' /\ dirty'[r] >= dirty[r] /\ dirty[r] \in Nat /\ dirty'[r] \in Nat
    BY SMTT(30), <1>3, <1>7 DEF CommandInv, CallTypes, InOrder
  <2>3. \A r \in DOMAIN batch : batch[r] \in Nat
    BY DEF CommandInv, CallTypes, InOrder
  <2>4. BatchComplete'
    BY <1>1, <2>1, <2>2, <2>3 DEF CommandInv, BatchComplete, Needed
  <2> QED BY <1>1, <2>1, <2>4 DEF CommandInv, FlagComesFirst
<1> QED BY <1>4, <1>5, <1>9, <1>10, <1>11 DEF CommandInv

LEMMA CommandStartPass == CommandInv /\ StartPass => CommandInv'
<1> SUFFICES ASSUME CommandInv, StartPass PROVE CommandInv'
  OBVIOUS
<1>1. /\ visiting' = order /\ DOMAIN batch = {} /\ dirty' = dirty /\ batch' = batch
      /\ UNCHANGED <<at, puts, axis, order, script, op, symbol, stale>>
  BY DEF StartPass, NoData, driverVars, plcVars, motorHistory
<1>2. CallTypes' /\ InOrder' /\ PutsInOrder' /\ DirtyComplete'
  BY <1>1 DEF CommandInv, CallTypes, InOrder, PutsInOrder, DirtyComplete, Given, Needed, ExecutesCall
<1>3. ExecuteFirst' => (BatchComplete /\ FlagComesFirst /\ stale = {})'
  BY <1>1 DEF CommandInv, ExecuteFirst, BatchComplete, FlagComesFirst
<1> QED BY <1>2, <1>3 DEF CommandInv

(* Visiting the records that come later does not meet the flag again.      *)
LEMMA RestOfThePass ==
  ASSUME CallTypes, ExecuteFirst, FlagComesFirst, visiting # <<>>
  PROVE  /\ "EXEC" \notin Range(Tail(visiting))
         /\ Head(visiting) \in Outputs /\ Tail(visiting) \in Seq(Outputs)
         /\ \A r \in Range(visiting) : r = Head(visiting) \/ r \in Range(Tail(visiting))
<1>1. /\ Head(visiting) \in Outputs /\ Tail(visiting) \in Seq(Outputs) /\ Head(visiting) = visiting[1]
      /\ \A i \in DOMAIN Tail(visiting) :
           i \in Nat /\ i >= 1 /\ i + 1 \in DOMAIN visiting /\ Tail(visiting)[i] = visiting[i + 1]
      /\ \A i \in DOMAIN visiting : i = 1 \/ (i - 1 \in DOMAIN Tail(visiting) /\ (i - 1) + 1 = i)
  BY DEF CallTypes
<1>2. ASSUME "EXEC" \in Range(Tail(visiting)) PROVE FALSE
  <2>1. PICK i \in DOMAIN Tail(visiting) : Tail(visiting)[i] = "EXEC"
    BY <1>2 DEF Range
  <2>2. "EXEC" \in Range(visiting)
    BY <1>1, <2>1 DEF Range
  <2>3. visiting = order /\ order[1] = "EXEC"
    BY <2>2 DEF ExecuteFirst, FlagComesFirst
  <2>4. 1 \in DOMAIN order /\ i + 1 \in DOMAIN order /\ order[i + 1] = "EXEC"
    BY <1>1, <2>1, <2>3 DEF CallTypes
  <2>5. 1 = i + 1
    BY <2>3, <2>4 DEF CallTypes
  <2> QED BY <1>1, <2>1, <2>5
<1>3. ASSUME NEW r \in Range(visiting) PROVE r = Head(visiting) \/ r \in Range(Tail(visiting))
  <2>1. PICK i \in DOMAIN visiting : visiting[i] = r
    BY DEF Range
  <2> QED BY <1>1, <2>1 DEF Range
<1> QED BY <1>1, <1>2, <1>3

LEMMA CommandVisit == CommandInv /\ Visit => CommandInv'
<1> SUFFICES ASSUME CommandInv, Visit PROVE CommandInv'
  OBVIOUS
<1> DEFINE h == Head(visiting)
<1>1. /\ visiting # <<>> /\ visiting' = Tail(visiting)
      /\ UNCHANGED <<at, puts, axis, order, script, op, symbol, stale>>
  BY DEF Visit, driverVars, plcVars, motorHistory
<1>2. h \in Outputs /\ Tail(visiting) \in Seq(Outputs)
  BY <1>1 DEF CommandInv, CallTypes
<1>3. \/ h \notin DOMAIN dirty /\ dirty' = dirty /\ batch' = batch
      \/ /\ h \in DOMAIN dirty
         /\ DOMAIN dirty' = DOMAIN dirty \ {h} /\ \A t \in DOMAIN dirty \ {h} : dirty'[t] = dirty[t]
         /\ DOMAIN batch' = DOMAIN batch \cup {h} /\ batch'[h] = dirty[h]
         /\ \A t \in DOMAIN batch \ {h} : batch'[t] = batch[t]
  <2>1. CASE h \in DOMAIN dirty
    <3>1. dirty' = Restrict(dirty, DOMAIN dirty \ {h}) /\ batch' = With(batch, h, dirty[h])
      BY <2>1 DEF Visit
    <3>2. DOMAIN dirty' = DOMAIN dirty \ {h} /\ \A t \in DOMAIN dirty \ {h} : dirty'[t] = dirty[t]
      BY <3>1 DEF Restrict
    <3>3. /\ DOMAIN batch' = DOMAIN batch \cup {h} /\ batch'[h] = dirty[h]
          /\ \A t \in DOMAIN batch \ {h} : batch'[t] = batch[t]
      BY <3>1 DEF With
    <3> QED BY <2>1, <3>2, <3>3
  <2>2. CASE h \notin DOMAIN dirty
    BY <2>2 DEF Visit
  <2> QED BY <2>1, <2>2
<1>r. ExecuteFirst => /\ "EXEC" \notin Range(Tail(visiting))
                      /\ \A r \in Range(visiting) : r = h \/ r \in Range(Tail(visiting))
  BY <1>1, RestOfThePass DEF CommandInv
<1> HIDE DEF h
<1>4. CallTypes'
  BY <1>1, <1>2, <1>3 DEF CommandInv, CallTypes
<1>5. InOrder'
  BY <1>2, <1>3, <1>1 DEF CommandInv, InOrder
<1>6. \A n \in Nat, r \in Outputs : Given(r, n) => Given(r, n)'
  <2> TAKE n \in Nat, r \in Outputs
  <2> HAVE Given(r, n)
  <2>1. CASE r \in DOMAIN dirty /\ dirty[r] >= n
    BY <1>3, <2>1 DEF Given
  <2>2. CASE r \in DOMAIN batch /\ batch[r] >= n
    <3>1. r \in DOMAIN batch' /\ batch'[r] >= n
      BY <1>3, <2>2 DEF CommandInv, CallTypes, InOrder
    <3> QED BY <3>1 DEF Given
  <2> QED BY <1>1, <2>1, <2>2 DEF Given
<1>n. ASSUME NEW n \in DOMAIN script
      PROVE  n \in Nat /\ Needed(n) \subseteq Outputs \ {"EXEC"} /\ Needed(n)' = Needed(n)
             /\ (ExecutesCall(n) => Needed(n) \subseteq Range(order))
  BY <1>1, NeededFacts DEF CommandInv, CallTypes, Needed
<1>7. PutsInOrder'
  <2>1. CASE at = "put"
    <3>1. PICK n \in DOMAIN script : n = op
      BY <2>1 DEF CommandInv, PutsInOrder
    <3>2. op' = n /\ Needed(n) \subseteq Outputs /\ Needed(n)' = Needed(n) /\ n \in Nat
      BY <1>1, <1>n, <3>1
    <3>3. \A i \in DOMAIN puts : puts[i] = "EXEC" =>
            \A r \in Needed(n) : Given(r, n) \/ \E j \in 1..i - 1 : puts[j] = r
      BY <2>1, <3>1 DEF CommandInv, PutsInOrder
    <3>4. \A i \in DOMAIN puts : puts[i] = "EXEC" =>
            \A r \in Needed(n) : Given(r, n)' \/ \E j \in 1..i - 1 : puts[j] = r
      BY <1>6, <3>2, <3>3
    <3> QED BY <1>1, <2>1, <3>1, <3>2, <3>4 DEF CommandInv, PutsInOrder
  <2>2. CASE at # "put"
    BY <1>1, <2>2 DEF PutsInOrder
  <2> QED BY <2>1, <2>2
<1>8. DirtyComplete'
  <2> SUFFICES ASSUME "EXEC" \in DOMAIN dirty' PROVE DirtyComplete'
    BY DEF DirtyComplete
  <2>1. "EXEC" \in DOMAIN dirty /\ dirty'["EXEC"] = dirty["EXEC"]
    BY <1>3
  <2>2. PICK m \in DOMAIN script : m = dirty["EXEC"]
    BY <2>1 DEF CommandInv, DirtyComplete, ExecutesCall
  <2>3. ExecutesCall(m) /\ \A r \in Needed(m) : Given(r, m)
    BY <2>1, <2>2 DEF CommandInv, DirtyComplete
  <2>4. \A r \in Needed(m) : Given(r, m)'
    BY <1>6, <1>n, <2>3
  <2> QED BY <1>1, <1>n, <2>1, <2>2, <2>3, <2>4 DEF DirtyComplete, ExecutesCall
<1>9. ASSUME ExecuteFirst PROVE (BatchComplete /\ FlagComesFirst /\ stale = {})'
  <2>1. FlagComesFirst'
    BY <1>1, <1>r, <1>9 DEF FlagComesFirst
  <2>2. CASE h = "EXEC" /\ h \in DOMAIN dirty
    <3>1. "EXEC" \in Range(visiting)
      BY <1>1, <2>2 DEF CommandInv, CallTypes, Range, h
    <3>2. visiting = order /\ DOMAIN batch = {}
      BY <1>9, <3>1 DEF CommandInv, FlagComesFirst
    <3>3. PICK m \in DOMAIN script : m = dirty["EXEC"]
      BY <2>2 DEF CommandInv, DirtyComplete, ExecutesCall
    <3>4. batch'["EXEC"] = m /\ ExecutesCall(m) /\ \A r \in Needed(m) : Given(r, m)
      BY <1>3, <2>2, <3>3 DEF CommandInv, DirtyComplete
    <3>5. ASSUME NEW r \in Needed(m)
          PROVE  \/ symbol[r] >= m
                 \/ r \in DOMAIN dirty' /\ dirty'[r] >= m /\ r \in Range(Tail(visiting))
      <4>1. r # "EXEC" /\ r \in Range(visiting)
        BY <1>n, <3>2, <3>4
      <4>2. symbol[r] >= m \/ (r \in DOMAIN dirty /\ dirty[r] >= m)
        BY <3>2, <3>4 DEF Given
      <4> QED BY <1>3, <1>9, <1>r, <2>2, <4>1, <4>2
    <3>6. BatchComplete'
      BY <1>1, <1>n, <3>4, <3>5 DEF BatchComplete
    <3> QED BY <1>1, <1>9, <2>1, <3>6 DEF CommandInv
  <2>3. CASE ~(h = "EXEC" /\ h \in DOMAIN dirty)
    <3>1. ("EXEC" \in DOMAIN batch') => "EXEC" \in DOMAIN batch /\ batch'["EXEC"] = batch["EXEC"]
      BY <1>3, <2>3
    <3>2. ASSUME "EXEC" \in DOMAIN batch,
                 NEW m \in Nat, m = batch["EXEC"], NEW r \in Needed(m)
          PROVE  \/ symbol[r] >= m
                 \/ r \in DOMAIN batch' /\ batch'[r] >= m
                 \/ r \in DOMAIN dirty' /\ dirty'[r] >= m /\ r \in Range(Tail(visiting))
      <4>1. \/ symbol[r] >= m
            \/ r \in DOMAIN batch /\ batch[r] >= m
            \/ r \in DOMAIN dirty /\ dirty[r] >= m /\ r \in Range(visiting)
        BY <1>9, <3>2 DEF CommandInv, BatchComplete
      <4>2. CASE r \in DOMAIN batch /\ batch[r] >= m
        BY SMTT(30), <1>3, <3>2, <4>2 DEF CommandInv, InOrder, CallTypes
      <4>3. CASE r \in DOMAIN dirty /\ dirty[r] >= m /\ r \in Range(visiting)
        BY <1>3, <1>9, <1>r, <4>3
      <4> QED BY <4>1, <4>2, <4>3
    <3>3. BatchComplete'
      <4> SUFFICES ASSUME "EXEC" \in DOMAIN batch' PROVE BatchComplete'
        BY DEF BatchComplete
      <4>1. PICK m \in Nat : m = batch["EXEC"]
        BY <3>1 DEF CommandInv, InOrder
      <4>2. Needed(m)' = Needed(m)
        BY <1>1 DEF Needed
      <4> QED BY <1>1, <3>1, <3>2, <4>1, <4>2 DEF BatchComplete
    <3> QED BY <1>1, <1>9, <2>1, <3>3 DEF CommandInv
  <2> QED BY <2>2, <2>3
<1>10. ExecuteFirst' => ExecuteFirst
  BY <1>1 DEF ExecuteFirst
<1> QED BY <1>4, <1>5, <1>7, <1>8, <1>9, <1>10 DEF CommandInv

LEMMA CommandSend == CommandInv /\ Send => CommandInv'
<1> SUFFICES ASSUME CommandInv, Send PROVE CommandInv'
  OBVIOUS
<1>1. /\ visiting = <<>> /\ Range(visiting) = {} /\ DOMAIN batch' = {}
      /\ \A r \in Outputs : symbol'[r] = IF r \in DOMAIN batch THEN batch[r] ELSE symbol[r]
      /\ UNCHANGED <<at, puts, axis, order, script, op, dirty, visiting>>
  BY DEF Send, NoData, driverVars, Range
<1>2. CallTypes'
  BY <1>1 DEF CommandInv, CallTypes
<1>3. InOrder'
  BY <1>1 DEF CommandInv, CallTypes, InOrder
<1>4. \A n \in Nat, r \in Outputs : Given(r, n) => Given(r, n)'
  <2> TAKE n \in Nat, r \in Outputs
  <2> HAVE Given(r, n)
  <2>1. CASE symbol[r] >= n
    <3>1. symbol'[r] >= n
      BY <1>1, <2>1 DEF CommandInv, CallTypes, InOrder
    <3> QED BY <3>1 DEF Given
  <2> QED BY <1>1, <2>1 DEF Given
<1>5. ASSUME NEW n \in DOMAIN script
      PROVE  n \in Nat /\ Needed(n) \subseteq Outputs \ {"EXEC"} /\ Needed(n)' = Needed(n)
  BY <1>1, NeededFacts DEF CommandInv, CallTypes, Needed
<1>6. PutsInOrder'
  <2>1. CASE at = "put"
    <3>1. PICK n \in DOMAIN script : n = op
      BY <2>1 DEF CommandInv, PutsInOrder
    <3>2. op' = n /\ Needed(n) \subseteq Outputs /\ Needed(n)' = Needed(n) /\ n \in Nat
      BY <1>1, <1>5, <3>1
    <3>3. \A i \in DOMAIN puts : puts[i] = "EXEC" =>
            \A r \in Needed(n) : Given(r, n) \/ \E j \in 1..i - 1 : puts[j] = r
      BY <2>1, <3>1 DEF CommandInv, PutsInOrder
    <3>4. \A i \in DOMAIN puts : puts[i] = "EXEC" =>
            \A r \in Needed(n) : Given(r, n)' \/ \E j \in 1..i - 1 : puts[j] = r
      BY <1>4, <3>2, <3>3
    <3> QED BY <1>1, <2>1, <3>1, <3>2, <3>4 DEF CommandInv, PutsInOrder
  <2>2. CASE at # "put"
    BY <1>1, <2>2 DEF PutsInOrder
  <2> QED BY <2>1, <2>2
<1>7. DirtyComplete'
  <2> SUFFICES ASSUME "EXEC" \in DOMAIN dirty PROVE DirtyComplete'
    BY <1>1 DEF DirtyComplete
  <2>1. PICK m \in DOMAIN script : m = dirty["EXEC"]
    BY DEF CommandInv, DirtyComplete, ExecutesCall
  <2>2. ExecutesCall(m) /\ \A r \in Needed(m) : Given(r, m)
    BY <2>1 DEF CommandInv, DirtyComplete
  <2>3. \A r \in Needed(m) : Given(r, m)'
    BY <1>4, <1>5, <2>2
  <2> QED BY <1>1, <1>5, <2>1, <2>2, <2>3 DEF DirtyComplete, ExecutesCall
<1>8. ASSUME ExecuteFirst PROVE (BatchComplete /\ FlagComesFirst /\ stale = {})'
  <2>1. BatchComplete' /\ FlagComesFirst'
    BY <1>1 DEF BatchComplete, FlagComesFirst
  <2>2. stale = {}
    BY <1>8 DEF CommandInv
  <2>3. CASE "EXEC" \in DOMAIN batch
    <3>1. PICK m \in Nat : m = batch["EXEC"]
      BY <2>3 DEF CommandInv, InOrder
    <3>2. \A r \in Needed(m) : r \in Outputs
      <4>1. Range(SetPoints(axis, script[m])) \cup {"CMD"} \subseteq Outputs
        BY PutsFacts
      <4> QED BY <4>1 DEF Needed
    <3>3. \A r \in Needed(m) : symbol[r] >= m \/ (r \in DOMAIN batch /\ batch[r] >= m)
      BY <1>1, <1>8, <2>3, <3>1 DEF CommandInv, BatchComplete
    <3>4. \A r \in Needed(m) : symbol'[r] >= m /\ symbol'[r] \in Nat
      BY SMTT(30), <1>1, <3>1, <3>2, <3>3 DEF CommandInv, CallTypes, InOrder
    <3>5. ~OlderSetPoint(symbol', m)
      BY <3>1, <3>4 DEF OlderSetPoint, Needed
    <3> QED BY <2>1, <2>2, <2>3, <3>1, <3>5 DEF Send
  <2>4. CASE "EXEC" \notin DOMAIN batch
    BY <2>1, <2>2, <2>4 DEF Send
  <2> QED BY <2>3, <2>4
<1>9. ExecuteFirst' => ExecuteFirst
  BY <1>1 DEF ExecuteFirst
<1> QED BY <1>2, <1>3, <1>6, <1>7, <1>8, <1>9 DEF CommandInv

LEMMA CommandStep == CommandInv /\ [MotorNext]_motorVars => CommandInv'
<1> SUFFICES ASSUME CommandInv, [MotorNext]_motorVars PROVE CommandInv'
  OBVIOUS
<1> DEFINE Same == /\ UNCHANGED <<axis, order, script, op, puts, dirty, visiting, batch, symbol, stale>>
                   /\ at' = "put" => at = "put"
<1>1. Same => CommandInv'
  BY CommandUnchanged
<1>2. PutsDone \/ StartPollAll("move") \/ StartPollAll("poll") => Same
  BY DEF PutsDone, StartPollAll, recordVars, plcVars, motorHistory
<1>3. getInteger \/ PollAllFails \/ EndWait \/ poll => Same
  BY DEF getInteger, PollAllFails, EndWait, poll, recordVars, plcVars, motorHistory
<1>4. Begin \/ Arrive => Same
  BY DEF Begin, Arrive, driverVars, recordVars
<1>5. ReadPass \/ (\E f \in DOMAIN shown : Show(f)) \/ Alarm => Same
  BY DEF ReadPass, Show, Alarm, driverVars, recordVars, plcVars, motorHistory
<1>6. UNCHANGED motorVars => Same
  BY DEF motorVars, driverVars, recordVars, plcVars, motorHistory
<1> HIDE DEF Same
<1> QED BY <1>1, <1>2, <1>3, <1>4, <1>5, <1>6, CommandCall, CommandPut, CommandStartPass, CommandVisit,
           CommandSend DEF MotorNext, Driver, WritePass

(* "first the command code is entered and then execute is called" holds in *)
(* the PLC for every script of calls on either class of axes, when a write *)
(* pass visits the execute flag before the other records: no call is       *)
(* executed with a set point or a command of an older one.                 *)
THEOREM MotorSetPointsArrive == MotorSpec => []SetPointsArrive
<1>1. CommandInv => SetPointsArrive
  BY DEF CommandInv, SetPointsArrive
<1> QED BY CommandInit, CommandStep, <1>1, PTL DEF MotorSpec

LEMMA StatusInit == MotorInit => StatusInv
<1> SUFFICES ASSUME MotorInit PROVE StatusInv
  OBVIOUS
<1> QED BY AtRestIs DEF MotorInit, StatusInv, StatusTypes, WaitsInMove, ShowsMotion, Motions

LEMMA StatusStep == StatusInv /\ [MotorNext]_motorVars => StatusInv'
<1> SUFFICES ASSUME StatusInv, [MotorNext]_motorVars PROVE StatusInv'
  OBVIOUS
<1> USE AtRestIs DEF StatusInv, StatusTypes, WaitsInMove, ShowsMotion
<1>1. CASE Call
  BY <1>1 DEF Call, recordVars, plcVars, inputVars
<1>2. CASE putDb
  BY <1>2 DEF putDb, plcVars, inputVars, motorHistory
<1>3. CASE PutsDone
  BY <1>3 DEF PutsDone, plcVars, inputVars, motorHistory
<1>4. ASSUME NEW who \in {"move", "poll"}, StartPollAll(who) PROVE StatusInv'
  <2>1. Inputs \in Seq(DOMAIN AtRest)
    BY DEF Inputs
  <2> QED BY <1>4, <2>1 DEF StartPollAll, plcVars, inputVars, motorHistory
<1>5. CASE getInteger
  <2>1. Inputs # <<>> /\ Head(Inputs) = "MOVING"
    BY DEF Inputs
  <2>2. Head(reads) \in DOMAIN AtRest /\ Tail(reads) \in Seq(DOMAIN AtRest)
    BY <1>5 DEF getInteger
  <2>3. /\ got' \in [DOMAIN AtRest -> BOOLEAN]
        /\ (got'.MOVING = IF Head(reads) = "MOVING" THEN shown.MOVING ELSE got.MOVING)
    BY <1>5, <2>2 DEF getInteger
  <2> QED BY <1>5, <2>1, <2>2, <2>3 DEF getInteger, plcVars, inputVars, motorHistory
<1>6. CASE PollAllFails
  BY <1>6 DEF PollAllFails, Throws, plcVars, inputVars
<1>7. CASE EndWait
  BY <1>7 DEF EndWait, PollAllDone, plcVars, inputVars
<1>8. CASE poll
  <2>1. Inputs # <<>>
    BY DEF Inputs
  <2> QED BY <1>8, <2>1 DEF poll, PollAllDone, plcVars, inputVars
<1>9. CASE StartPass \/ Visit
  BY <1>9 DEF StartPass, Visit, driverVars, plcVars, inputVars, motorHistory
<1>10. CASE Send
  <2>1. motion' \in Motions
    BY <1>10 DEF Send, Motions
  <2> QED BY <1>10, <2>1 DEF Send, driverVars, inputVars
<1>11. CASE Begin
  <2>1. motion' \in Motions
    BY <1>11 DEF Begin, Motions
  <2> QED BY <1>11, <2>1 DEF Begin, driverVars, inputVars
<1>12. CASE Arrive
  <2>1. motion' \in Motions
    BY <1>12 DEF Arrive, Motions
  <2> QED BY <1>12, <2>1 DEF Arrive, driverVars, inputVars
<1>13. CASE ReadPass
  BY <1>13 DEF ReadPass, driverVars, plcVars, motorHistory
<1>14. ASSUME NEW f \in DOMAIN shown, Show(f) PROVE StatusInv'
  <2>1. Flags(buffer) \in [DOMAIN AtRest -> BOOLEAN] /\ (Flags(buffer).MOVING = (buffer # "rest"))
    BY FlagsAre
  <2>2. /\ shown' \in [DOMAIN AtRest -> BOOLEAN]
        /\ (shown'.MOVING = IF f = "MOVING" THEN buffer # "rest" ELSE shown.MOVING)
    BY <1>14, <2>1 DEF Show
  <2> QED BY <1>14, <2>2 DEF Show, driverVars, plcVars, motorHistory
<1>15. CASE Alarm
  BY <1>15 DEF Alarm, driverVars, motorHistory
<1>16. CASE UNCHANGED motorVars
  BY <1>16 DEF motorVars, driverVars, plcVars, inputVars, motorHistory
<1> QED BY <1>1, <1>2, <1>3, <1>4, <1>5, <1>6, <1>7, <1>8, <1>9, <1>10, <1>11, <1>12, <1>13,
           <1>14, <1>15, <1>16 DEF MotorNext, Driver, WritePass

(* The motor driver's reports: a move that began with the axis at rest and *)
(* saw it move is not reported done before the axis has come to rest       *)
(* (devMotorAxis.cpp, move and poll), whatever the scanners interleave.    *)
THEOREM MotorNotDoneEarly == MotorSpec => []NotDoneEarly
<1>1. StatusInv => NotDoneEarly
  BY DEF StatusInv, ShowsMotion, NotDoneEarly
<1> QED BY StatusInit, StatusStep, <1>1, PTL DEF MotorSpec

---------------------------------------------------------------------------
(* The reset record of the info records.                                   *)

InfoSpec == InfoInit /\ [][InfoNext]_infoVars

Places == {"idle", "push", "read", "reset", "test", "store"}

ResetTypes == pushing \in [Pushers -> Places]

Resetting == \E t \in Pushers : pushing[t] = "reset"

(* A push about to store FALSE has no TRUE to lose, and one about to test  *)
(* the flag finds it raised when there is one.                             *)
PushMayLose ==
  \A t \in Pushers :
    /\ pushing[t] = "store" => ~owed \/ hidden \/ Resetting
    /\ pushing[t] = "test" => ~owed \/ hidden \/ resetDirty \/ Resetting

ResetInv == ResetTypes /\ ResetHonoured /\ PushMayLose

LEMMA ResetInvInit == InfoInit => ResetInv
  BY DEF InfoInit, ResetInv, ResetTypes, ResetHonoured, PushMayLose, Resetting, Pushers, Places

(* Whatever leaves the output record alone keeps the invariant.            *)
LEMMA ResetInvElsewhere ==
  ASSUME ResetInv,
         UNCHANGED <<reset, resetDirty, pushing, owed, hidden>>
  PROVE  ResetInv'
  BY DEF ResetInv, ResetTypes, ResetHonoured, PushMayLose, Resetting

(* EPICS writes: the flag goes up with the value.                          *)
LEMMA PutKeeps ==
  ASSUME ResetInv, NEW b \in BOOLEAN, PutReset(b)
  PROVE  ResetInv'
<1>. USE DEF ResetInv, Pushers
<1>1. pushing' = [pushing EXCEPT !["epics"] = "push"] /\ pushing["epics"] = "idle"
  BY DEF PutReset, Go
<1>2. ResetTypes'
  BY <1>1 DEF ResetTypes, Places
<1>3. pushing'["epics"] = "push" /\ pushing'["write"] = pushing["write"]
  BY <1>1 DEF ResetTypes
<1>4. /\ reset' = b /\ owed' = b /\ resetDirty' = TRUE
      /\ hidden' = (b /\ pushing["write"] = "store")
  BY DEF PutReset
<1>5. ResetHonoured'
  BY <1>4 DEF ResetHonoured
<1>6. PushMayLose'
  BY <1>3, <1>4 DEF PushMayLose
<1>. QED BY <1>2, <1>5, <1>6

(* A push reads the value and lowers the flag: a TRUE is now its own.      *)
LEMMA ReadKeeps ==
  ASSUME ResetInv, NEW t \in Pushers, PushReads(t)
  PROVE  ResetInv'
<1>. USE DEF ResetInv
<1>1. /\ pushing[t] = "read" /\ resetDirty' = FALSE /\ UNCHANGED <<reset, owed, hidden>>
      /\ pushing' = [pushing EXCEPT ![t] = IF reset THEN "reset" ELSE "idle"]
  BY DEF PushReads, Go, infoReset
<1>2. ResetTypes'
  BY <1>1 DEF ResetTypes, Places
<1>3. CASE reset
  <2>1. pushing'[t] = "reset"
    BY <1>1, <1>3 DEF ResetTypes
  <2>2. Resetting'
    BY <2>1 DEF Resetting
  <2>. QED BY <1>2, <2>2 DEF ResetHonoured, PushMayLose, Resetting
<1>4. CASE ~reset
  <2>1. pushing'[t] = "idle" /\ \A u \in Pushers \ {t} : pushing'[u] = pushing[u]
    BY <1>1, <1>4 DEF ResetTypes
  <2>2. Resetting => Resetting'
    BY <1>1, <2>1 DEF Resetting
  <2>3. ~owed \/ hidden \/ Resetting'
    BY <1>4, <2>2 DEF ResetHonoured, Resetting
  <2>. QED BY <1>1, <1>2, <2>3 DEF ResetHonoured, PushMayLose, Resetting
<1>. QED BY <1>3, <1>4

(* The watermarks are reset: nothing is owed any more.                     *)
LEMMA ResetKeeps ==
  ASSUME ResetInv, NEW t \in Pushers, PushResets(t)
  PROVE  ResetInv'
<1>1. owed' = FALSE /\ pushing' = [pushing EXCEPT ![t] = "test"]
  BY DEF PushResets, Go
<1>2. ResetTypes'
  BY <1>1 DEF ResetInv, ResetTypes, Places
<1>. QED BY <1>1, <1>2 DEF ResetInv, ResetHonoured, PushMayLose

(* A push tests the flag before it stores.                                 *)
LEMMA TestKeeps ==
  ASSUME ResetInv, NEW t \in Pushers, PushTests(t)
  PROVE  ResetInv'
<1>. USE DEF ResetInv
<1>1. /\ pushing[t] = "test" /\ UNCHANGED <<reset, resetDirty, owed, hidden>>
      /\ pushing' = [pushing EXCEPT ![t] = IF resetDirty THEN "idle" ELSE "store"]
  BY DEF PushTests, Go
<1>2. ResetTypes'
  BY <1>1 DEF ResetTypes, Places
<1>3. \A u \in Pushers \ {t} : pushing'[u] = pushing[u]
  BY <1>1 DEF ResetTypes
<1>4. Resetting => Resetting'
  BY <1>1, <1>3 DEF Resetting
<1>5. ResetHonoured'
  BY <1>1, <1>4 DEF ResetHonoured, Resetting
<1>6. pushing'[t] # "test" /\ (pushing'[t] = "store" => ~resetDirty)
  BY <1>1 DEF ResetTypes
<1>7. PushMayLose'
  BY <1>1, <1>3, <1>4, <1>6 DEF PushMayLose
<1>. QED BY <1>2, <1>5, <1>7

(* FALSE is stored: no TRUE is lost that the invariant does not excuse.    *)
LEMMA StoreKeeps ==
  ASSUME ResetInv, NEW t \in Pushers, PushStores(t)
  PROVE  ResetInv'
<1>. USE DEF ResetInv
<1>1. /\ pushing[t] = "store" /\ reset' = FALSE /\ UNCHANGED <<resetDirty, owed, hidden>>
      /\ pushing' = [pushing EXCEPT ![t] = "idle"]
  BY DEF PushStores, Go
<1>2. ResetTypes'
  BY <1>1 DEF ResetTypes, Places
<1>3. pushing'[t] = "idle" /\ \A u \in Pushers \ {t} : pushing'[u] = pushing[u]
  BY <1>1 DEF ResetTypes
<1>4. Resetting => Resetting'
  BY <1>1, <1>3 DEF Resetting
<1>5. ~owed \/ hidden \/ Resetting'
  BY <1>1, <1>4 DEF PushMayLose
<1>6. ResetHonoured' /\ PushMayLose'
  BY <1>1, <1>5 DEF ResetHonoured, PushMayLose, Resetting
<1>. QED BY <1>2, <1>6

(* The two that only move a push between places where it owes nothing.     *)
LEMMA MoveKeeps ==
  ASSUME ResetInv, PlcPush \/ WritePassPushes
  PROVE  ResetInv'
<1>. USE DEF ResetInv
<1>0. UNCHANGED <<reset, resetDirty, owed, hidden>>
  BY DEF PlcPush, WritePassPushes
<1>1. PICK t \in Pushers, p \in {"idle", "read"} :
        pushing[t] \in {"idle", "push"} /\ pushing' = [pushing EXCEPT ![t] = p]
  BY DEF PlcPush, WritePassPushes, Go, Pushers
<1>2. ResetTypes'
  BY <1>1 DEF ResetTypes, Places
<1>3. pushing'[t] = p /\ \A u \in Pushers \ {t} : pushing'[u] = pushing[u]
  BY <1>1 DEF ResetTypes
<1>4. Resetting => Resetting'
  BY <1>1, <1>3 DEF Resetting
<1>5. ResetHonoured'
  BY <1>0, <1>4 DEF ResetHonoured, Resetting
<1>6. PushMayLose'
  BY <1>0, <1>3, <1>4 DEF PushMayLose
<1>. QED BY <1>2, <1>5, <1>6

LEMMA ResetInvNext == ResetInv /\ [InfoNext]_infoVars => ResetInv'
<1>. SUFFICES ASSUME ResetInv, [InfoNext]_infoVars PROVE ResetInv'
  OBVIOUS
<1>1. CASE \/ ReadPassBegins \/ update \/ StateChanges \/ QueueChanges \/ EpicsShows
           \/ UNCHANGED infoVars
  <2>1. UNCHANGED <<reset, resetDirty, pushing, owed, hidden>>
    BY <1>1 DEF ReadPassBegins, update, StateChanges, QueueChanges, EpicsShows, infoVars,
                infoPass, infoReset
  <2>. QED BY <2>1, ResetInvElsewhere
<1>2. CASE \E b \in BOOLEAN : PutReset(b)
  BY <1>2, PutKeeps
<1>3. CASE PlcPush \/ WritePassPushes
  BY <1>3, MoveKeeps
<1>4. CASE \E t \in Pushers : PushStep(t)
  BY <1>4, ReadKeeps, ResetKeeps, TestKeeps, StoreKeeps DEF PushStep
<1>. QED BY <1>1, <1>2, <1>3, <1>4 DEF InfoNext

(* The inductive invariant of the reset record.                            *)
THEOREM ResetInvariant == InfoSpec => []ResetInv
  BY ResetInvInit, ResetInvNext, PTL DEF InfoSpec

(* A reset that EPICS asked for is carried out, or still stored, unless a  *)
(* FALSE was already on its way when it was written.                       *)
THEOREM ResetNotForgotten == InfoSpec => []ResetHonoured
<1>1. ResetInv => ResetHonoured
  BY DEF ResetInv
<1>. QED BY ResetInvariant, <1>1, PTL

---------------------------------------------------------------------------
(* The parts of one fact in the info records.                              *)

(* The records whose parts should agree, of those that are looked at.      *)
TimeParts == Updated \cap TimeRecords
StateParts == Updated \cap {"active", "state"}

PartTypes ==
  /\ DOMAIN data = Updated /\ DOMAIN freq = Range(Present) /\ pending \in Seq(Range(Present))
  /\ \A r \in TimeParts \cup StateParts : freq[r] = "forever"

(* In the middle of an update a part of a fact has been brought up to date *)
(* or its turn is still to come.                                           *)
PartsFollow ==
  pending # <<>> =>
    /\ \A r \in TimeParts : r \in Range(pending) \/ data[r] = stamp
    /\ ~swapped => \A r \in StateParts : r \in Range(pending) \/ data[r] = StateSource(r)

AgreeInv == PartTypes /\ PartsFollow /\ PartsAgree

(* What the table says of these records: they are updated for ever, and    *)
(* their methods write what they look at.                                  *)
LEMMA PartsAre ==
  /\ \A r \in TimeParts : dbinfo_list[r].freq = "forever" /\ Writes(r) /\ Source(r) = stamp
  /\ \A r \in StateParts : dbinfo_list[r].freq = "forever" /\ Writes(r) /\ Source(r) = StateSource(r)
<1>1. ASSUME NEW r \in TimeRecords \cup {"active", "state"}
      PROVE  r \in ForeverRecords /\ r \notin {"cb.queue[0].percent", "cb.queue[0].mprcnt"}
  BY DEF ForeverRecords, StateRecords, TimeRecords
<1>2. ASSUME NEW r \in ForeverRecords PROVE dbinfo_list[r].freq = "forever"
  BY DEF dbinfo_list
<1>3. ASSUME NEW r \in TimeRecords PROVE Source(r) = stamp
  <2>1. r \notin StateRecords
    BY DEF TimeRecords, StateRecords
  <2> QED BY <2>1, Zenon DEF Source
<1>4. ASSUME NEW r \in {"active", "state"} PROVE Source(r) = StateSource(r)
  <2>1. r \in StateRecords
    BY DEF StateRecords
  <2> QED BY <2>1, Zenon DEF Source
<1>5. ASSUME NEW r, r \notin {"cb.queue[0].percent", "cb.queue[0].mprcnt"} PROVE Writes(r)
  BY <1>5 DEF Writes
<1> QED BY <1>1, <1>2, <1>3, <1>4, <1>5 DEF TimeParts, StateParts

LEMMA UpdatedIs == Updated = {r \in Range(Present) : dbinfo_list[r].readonly}
  BY DEF Updated, Range

LEMMA AgreeInit == InfoInit => AgreeInv
<1> SUFFICES ASSUME InfoInit PROVE AgreeInv
  OBVIOUS
<1>1. pending = <<>> /\ DOMAIN data = Updated /\ \A r \in Updated : data[r] = None
  BY DEF InfoInit
<1>2. PartTypes
  BY <1>1, PartsAre, UpdatedIs DEF InfoInit, PartTypes, TimeParts, StateParts
<1> QED BY <1>1, <1>2 DEF AgreeInv, PartsFollow, PartsAgree

(* A read pass begins: the update, if it is due, has all parts to come.    *)
LEMMA AgreeBegins == AgreeInv /\ ReadPassBegins => AgreeInv'
<1> SUFFICES ASSUME AgreeInv, ReadPassBegins PROVE AgreeInv'
  OBVIOUS
<1>1. /\ pending = <<>> /\ UNCHANGED <<ads, freq, data>>
      /\ \/ pending' = Present /\ swapped' = FALSE
         \/ pending' = pending /\ swapped' = swapped
  BY DEF ReadPassBegins
<1>2. CASE pending' = pending /\ swapped' = swapped
  BY <1>1, <1>2 DEF AgreeInv, PartTypes, PartsFollow, PartsAgree
<1>3. CASE pending' = Present
  <2>1. Present \in Seq(Range(Present))
    BY PresentAssumption DEF Range
  <2>2. \A r \in Updated : r \in Range(pending')
    BY <1>3, UpdatedIs
  <2>3. Present # <<>> \/ Updated = {}
    BY UpdatedIs DEF Range
  <2> QED BY <1>1, <1>3, <2>1, <2>2, <2>3 DEF AgreeInv, PartTypes, PartsFollow, PartsAgree,
                                               TimeParts, StateParts
<1> QED BY <1>1, <1>2, <1>3

LEMMA AgreeUpdates == AgreeInv /\ update => AgreeInv'
<1> SUFFICES ASSUME AgreeInv, update PROVE AgreeInv'
  OBVIOUS
<1> DEFINE r == Head(pending)
<1>1. /\ pending # <<>> /\ pending' = Tail(pending) /\ UNCHANGED <<ads, stamp, used, high, swapped>>
      /\ r \in Range(Present) /\ Tail(pending) \in Seq(Range(Present))
      /\ \A s \in Range(pending) : s = r \/ s \in Range(Tail(pending))
  <2>1. pending # <<>> /\ pending \in Seq(Range(Present))
    BY DEF update, AgreeInv, PartTypes
  <2>2. /\ r \in Range(Present) /\ Tail(pending) \in Seq(Range(Present)) /\ r = pending[1]
        /\ \A i \in DOMAIN pending :
             i = 1 \/ (i - 1 \in DOMAIN Tail(pending) /\ Tail(pending)[i - 1] = pending[i])
    BY <2>1
  <2>3. \A s \in Range(pending) : s = r \/ s \in Range(Tail(pending))
    BY <2>2 DEF Range
  <2> QED BY <2>1, <2>2, <2>3 DEF update, infoInputs
<1>2. /\ DOMAIN data' = Updated /\ DOMAIN freq' = Range(Present)
      /\ \A s \in Updated \ {r} : data'[s] = data[s]
      /\ \A s \in TimeParts \cup StateParts : freq'[s] = "forever"
  <2>1. CASE dbinfo_list[r].readonly
    <3>1. freq' = [freq EXCEPT ![r] = IF freq[r] = "once" THEN "done" ELSE freq[r]]
      BY <2>1 DEF update
    <3>2. data' = [data EXCEPT ![r] = Source(r)] \/ data' = data
      BY <2>1 DEF update
    <3> QED BY <3>1, <3>2 DEF AgreeInv, PartTypes, TimeParts, StateParts
  <2>2. CASE ~dbinfo_list[r].readonly
    BY <2>2 DEF update, AgreeInv, PartTypes
  <2> QED BY <2>1, <2>2
<1>3. ASSUME r \in TimeParts PROVE data'[r] = stamp
  <2>1. dbinfo_list[r].readonly /\ freq[r] # "done" /\ Writes(r) /\ Source(r) = stamp /\ r \in DOMAIN data
    BY <1>3, PartsAre, UpdatedIs DEF AgreeInv, PartTypes, TimeParts
  <2> QED BY <2>1 DEF update
<1>4. ASSUME r \in StateParts PROVE data'[r] = StateSource(r)
  <2>1. dbinfo_list[r].readonly /\ freq[r] # "done" /\ Writes(r)
        /\ Source(r) = StateSource(r) /\ r \in DOMAIN data
    BY <1>4, PartsAre, UpdatedIs DEF AgreeInv, PartTypes, StateParts
  <2> QED BY <2>1 DEF update
<1> HIDE DEF r
<1>5. \A s \in TimeParts : s \in Range(Tail(pending)) \/ data'[s] = stamp
  BY <1>1, <1>2, <1>3 DEF AgreeInv, PartsFollow, TimeParts
<1>6. ~swapped => \A s \in StateParts : s \in Range(Tail(pending)) \/ data'[s] = StateSource(s)
  BY <1>1, <1>2, <1>4 DEF AgreeInv, PartsFollow, StateParts
<1>7. PartTypes'
  BY <1>1, <1>2 DEF PartTypes, TimeParts, StateParts
<1>8. PartsFollow'
  BY <1>1, <1>5, <1>6 DEF PartsFollow, StateSource, TimeParts, StateParts
<1>9. PartsAgree'
  <2> SUFFICES ASSUME Range(Tail(pending)) = {} PROVE PartsAgree'
    BY <1>1 DEF PartsAgree, Range
  <2>1. \A s \in DOMAIN data' \cap TimeRecords : data'[s] = stamp
    BY <1>2, <1>5 DEF TimeParts
  <2>2. {"active", "state"} \subseteq DOMAIN data' /\ ~swapped
          => data'["state"] = ads /\ data'["active"] = (ads = "RUN")
    BY <1>2, <1>6 DEF StateParts, StateSource
  <2> QED BY <1>1, <2>1, <2>2 DEF PartsAgree
<1> QED BY <1>7, <1>8, <1>9 DEF AgreeInv

LEMMA AgreeStep == AgreeInv /\ [InfoNext]_infoVars => AgreeInv'
<1> SUFFICES ASSUME AgreeInv, [InfoNext]_infoVars PROVE AgreeInv'
  OBVIOUS
<1>1. CASE StateChanges
  BY <1>1 DEF StateChanges, AgreeInv, PartTypes, PartsFollow, PartsAgree
<1>2. CASE UNCHANGED <<ads, stamp, freq, data, pending, swapped>>
  BY <1>2 DEF AgreeInv, PartTypes, PartsFollow, PartsAgree, StateSource
<1>3. QueueChanges \/ (\E b \in BOOLEAN : PutReset(b)) \/ PlcPush \/ WritePassPushes \/ EpicsShows
        \/ UNCHANGED infoVars => UNCHANGED <<ads, stamp, freq, data, pending, swapped>>
  BY DEF QueueChanges, PutReset, PlcPush, WritePassPushes, EpicsShows, infoVars, infoInputs, infoPass
<1>4. ASSUME NEW t \in Pushers, PushStep(t) PROVE UNCHANGED <<ads, stamp, freq, data, pending, swapped>>
  BY <1>4 DEF PushStep, PushReads, PushResets, PushTests, PushStores, infoInputs, infoPass
<1> QED BY <1>1, <1>2, <1>3, <1>4, AgreeBegins, AgreeUpdates DEF InfoNext

(* Between two updates the parts of the time stamp, and those of the ADS   *)
(* state unless it changed during the update, are of the same moment       *)
(* (infoPlc.cpp, update), for any choice of records and any events.        *)
THEOREM InfoPartsAgree == InfoSpec => []PartsAgree
<1>1. AgreeInv => PartsAgree
  BY DEF AgreeInv
<1> QED BY AgreeInit, AgreeStep, <1>1, PTL DEF InfoSpec

---------------------------------------------------------------------------
(* The update scanners.                                                    *)

UpdateSpec == UpdateInit /\ [][UpdateNext]_updateVars

LEMMA ModIs ==
  ASSUME NEW N \in Nat \ {0}, NEW x \in Int, NEW q \in Int, NEW m \in 0..N - 1, x = q * N + m
  PROVE  x % N = m
<1> DEFINE d == x \div N
           e == x % N
<1>1. d \in Int /\ e \in 0..N - 1 /\ x = d * N + e
  OBVIOUS
<1> HIDE DEF d, e
<1>2. (q - d) * N = e - m
  BY <1>1
<1>3. PICK k \in Int : k = q - d
  BY <1>1
<1>4. k * N = e - m
  BY <1>2, <1>3
<1>5. k <= 0
  <2> SUFFICES ASSUME k >= 1 PROVE FALSE
    OBVIOUS
  <2>1. k * N >= N
    BY <1>3
  <2> QED BY <1>1, <1>4, <2>1
<1>6. k >= 0
  <2> SUFFICES ASSUME k <= -1 PROVE FALSE
    OBVIOUS
  <2>1. k * N <= -N
    BY <1>3
  <2> QED BY <1>1, <1>4, <2>1
<1>7. e = m
  BY <1>1, <1>3, <1>4, <1>5, <1>6
<1> QED BY <1>7 DEF e

(* Where the crawl stands after a tick, seen from record r.                *)
StepsTo(N, last, r) == (r - last - 1) % N
Onwards(N, last, w) == ((last + w - 1) % N) + 1

LEMMA AheadAfter ==
  ASSUME NEW N \in Nat \ {0}, NEW last \in 1..N, NEW r \in 1..N, NEW w \in Nat \ {0}
  PROVE  /\ Onwards(N, last, w) \in 1..N
         /\ StepsTo(N, last, r) \in 0..N - 1 /\ StepsTo(N, Onwards(N, last, w), r) \in 0..N - 1
         /\ StepsTo(N, last, r) >= w =>
              StepsTo(N, Onwards(N, last, w), r) = StepsTo(N, last, r) - w
<1> DEFINE next == Onwards(N, last, w)
           a == StepsTo(N, last, r)
           b == StepsTo(N, next, r)
<1>0. next = ((last + w - 1) % N) + 1 /\ a = (r - last - 1) % N /\ b = (r - next - 1) % N
  BY DEF Onwards, StepsTo
<1> HIDE DEF next, a, b
<1>1. next \in 1..N /\ a \in 0..N - 1 /\ b \in 0..N - 1
  <2>1. next \in 1..N
    BY <1>0
  <2> QED BY <1>0, <2>1
<1>2. ASSUME a >= w PROVE b = a - w
  <2> DEFINE d == (last + w - 1) \div N
             c == (r - last - 1) \div N
  <2>1. d \in Int /\ last + w - 1 = d * N + (next - 1)
    BY <1>0
  <2>2. c \in Int /\ r - last - 1 = c * N + a
    BY <1>0
  <2> HIDE DEF c, d
  <2>3. r - next - 1 = (c + d) * N + (a - w)
    <3>1. next = last + w - d * N
      BY <1>1, <2>1
    <3>2. r = c * N + a + last + 1
      BY <1>1, <2>2
    <3>3. c * N \in Int /\ d * N \in Int /\ (c + d) * N = c * N + d * N
      BY <2>1, <2>2
    <3> QED BY <1>1, <3>1, <3>2, <3>3
  <2>4. a - w \in 0..N - 1 /\ c + d \in Int /\ r - next - 1 \in Int
    BY <1>1, <1>2, <2>1, <2>2
  <2> QED BY <1>0, <2>3, <2>4, ModIs
<1> QED BY <1>1, <1>2 DEF next, a, b

(* A workload is more than a tick's share of the records.                  *)
LEMMA WorkloadIsEnough ==
  ASSUME NEW N \in Nat, NEW P \in Nat, NEW w, w = (N * P) \div 10000 + 1,
         NEW t \in Nat, t * w < N
  PROVE  t * P < 10000
<1>1. PICK x \in Nat : x = N * P
  OBVIOUS
<1>2. w \in Nat \ {0} /\ 10000 * w > x
  <2>1. PICK d \in Nat : d = x \div 10000
    BY <1>1
  <2>2. x < 10000 * d + 10000
    BY <1>1, <2>1
  <2> QED BY <1>1, <2>1, <2>2
<1> SUFFICES ASSUME t * P >= 10000 PROVE FALSE
  OBVIOUS
<1>3. (t * P) * w >= 10000 * w
  <2>1. PICK y \in Nat : y = t * P
    OBVIOUS
  <2>2. PICK z \in Nat : y = 10000 + z
    BY <2>1
  <2>3. z * w \in Nat /\ y * w = 10000 * w + z * w
    BY <1>2, <2>2
  <2> QED BY <1>2, <2>1, <2>3
<1>4. (t * w) * P <= N * P
  <2>1. PICK y \in Nat : y = t * w
    BY <1>2
  <2>2. PICK z \in Nat : N = y + z
    BY <2>1
  <2>3. N * P = y * P + z * P /\ z * P \in Nat /\ y * P \in Nat
    BY <2>2
  <2> QED BY <2>1, <2>3
<1>5. (t * P) * w = (t * w) * P
  BY <1>2
<1> QED BY <1>1, <1>2, <1>3, <1>4, <1>5

LEMMA PeriodIs ==
  ASSUME NEW p \in PLCs, second \in Seconds
  PROVE  update_scanner_period(p) \in Nat
<1> DEFINE S == {i \in DOMAIN second : second[i] = p}
<1>1. second \in Seq(PLCs) /\ Range(second) = PLCs
  BY UpdateAssumption
<1>2. DOMAIN second = 1..Len(second) /\ Len(second) \in Nat
  BY <1>1
<1>3. IsFiniteSet(S)
  <2>1. IsFiniteSet(1..Len(second))
    BY <1>2, FS_Interval
  <2> QED BY <1>2, <2>1, FS_Subset
<1>4. S # {}
  BY <1>1 DEF Range
<1>5. Cardinality(S) \in Nat /\ Cardinality(S) # 0
  BY <1>3, <1>4, FS_EmptySet, FS_CardinalityType
<1> QED BY <1>5 DEF update_scanner_period, Fires

---------------------------------------------------------------------------
CrawlTypes ==
  /\ second \in Seconds
  /\ DOMAIN update_last = PLCs /\ DOMAIN age = PLCs
  /\ \A p \in PLCs :
       /\ update_last[p] \in IF Records[p] = 0 THEN {0} ELSE 1..Records[p]
       /\ age[p] \in [1..Records[p] -> Nat]

(* The records a PLC's crawl still has to pass before it is at r, and those*)
(* it has passed since it was last there, are fewer than all.              *)
OneRound ==
  \A p \in PLCs : \A r \in 1..Records[p] :
    age[p][r] * update_workload(p) + Ahead(p, r) < Records[p]

CrawlInv == CrawlTypes /\ OneRound

(* The timer that fires next is that of a PLC.                             *)
TimerInv == second \in Seconds /\ fired \in 0..Len(second) - 1

LEMMA WorkloadIs ==
  ASSUME CrawlTypes, NEW p \in PLCs
  PROVE  update_workload(p) \in Nat \ {0} /\ Records[p] \in Nat
<1>1. update_scanner_period(p) \in Nat /\ Records[p] \in Nat
  BY PeriodIs, UpdateAssumption DEF CrawlTypes
<1>2. PICK x \in Nat : x = Records[p] * update_scanner_period(p)
  BY <1>1
<1>3. x \div 10000 \in Nat
  OBVIOUS
<1> QED BY <1>1, <1>2, <1>3 DEF update_workload

LEMMA CrawlInit == UpdateInit => CrawlInv
<1> SUFFICES ASSUME UpdateInit PROVE CrawlInv
  OBVIOUS
<1>1. CrawlTypes
  BY UpdateAssumption DEF UpdateInit, CrawlTypes
<1>2. ASSUME NEW p \in PLCs, NEW r \in 1..Records[p]
      PROVE  age[p][r] * update_workload(p) + Ahead(p, r) < Records[p]
  <2>1. age[p][r] = 0 /\ update_last[p] = 1 /\ Records[p] \in Nat \ {0}
    BY <1>2, UpdateAssumption DEF UpdateInit
  <2>2. Ahead(p, r) \in 0..Records[p] - 1
    BY <2>1 DEF Ahead
  <2>3. 0 * update_workload(p) = 0
    BY <1>1, WorkloadIs
  <2> QED BY <2>1, <2>2, <2>3
<1> QED BY <1>1, <1>2 DEF CrawlInv, OneRound

LEMMA CrawlSame ==
  ASSUME CrawlInv, UNCHANGED <<second, update_last, age>>
  PROVE  CrawlInv'
BY DEF CrawlInv, CrawlTypes, OneRound, update_workload, update_scanner_period, Ahead

(* A tick of one PLC.                                                      *)
LEMMA CrawlTick ==
  ASSUME CrawlInv, NEW p \in PLCs, Crawl(p), second' = second
  PROVE  CrawlInv'
<1> DEFINE N == Records[p]
           w == update_workload(p)
<1>1. CASE update_last[p] = 0
  BY <1>1, CrawlSame DEF Crawl
<1>2. CASE update_last[p] # 0
  <2>1. N \in Nat \ {0} /\ w \in Nat \ {0} /\ update_last[p] \in 1..N /\ age[p] \in [1..N -> Nat]
    BY <1>2, WorkloadIs DEF CrawlInv, CrawlTypes
  <2>2. /\ DOMAIN update_last' = PLCs /\ DOMAIN age' = PLCs
        /\ \A q \in PLCs \ {p} : update_last'[q] = update_last[q] /\ age'[q] = age[q]
        /\ update_last'[p] = ((update_last[p] + w - 1) % N) + 1
        /\ age'[p] = [r \in 1..N |-> IF r \in Reminded(p) THEN 0 ELSE age[p][r] + 1]
    BY <1>2, <2>1 DEF Crawl, CrawlInv, CrawlTypes, get_next
  <2>3. /\ \A q \in PLCs : update_workload(q)' = update_workload(q)
        /\ \A q \in PLCs \ {p} : \A r \in 1..Records[q] : Ahead(q, r)' = Ahead(q, r)
    BY <2>2 DEF update_workload, update_scanner_period, Ahead
  <2>4. ASSUME NEW r \in 1..N
        PROVE  /\ update_last'[p] \in 1..N /\ Ahead(p, r) \in 0..N - 1 /\ Ahead(p, r)' \in 0..N - 1
               /\ Ahead(p, r) >= w => Ahead(p, r)' = Ahead(p, r) - w
    <3>1. Ahead(p, r) = (r - update_last[p] - 1) % N /\ Ahead(p, r)' = (r - update_last'[p] - 1) % N
      BY DEF Ahead
    <3>2. PICK last \in 1..N : last = update_last[p]
      BY <2>1
    <3>3. update_last'[p] = ((last + w - 1) % N) + 1
      BY <2>2, <3>2
    <3> HIDE DEF N, w
    <3>4. /\ update_last'[p] = Onwards(N, last, w) /\ Ahead(p, r) = StepsTo(N, last, r)
          /\ Ahead(p, r)' = StepsTo(N, Onwards(N, last, w), r)
      BY <3>1, <3>2, <3>3 DEF Onwards, StepsTo
    <3> QED BY <2>1, <3>4, AheadAfter
  <2>5. CrawlTypes'
    <3>1. update_last'[p] \in 1..N
      BY <2>1, <2>4
    <3>2. age'[p] \in [1..N -> Nat]
      BY SMTT(30), <2>1, <2>2
    <3> QED BY <2>1, <2>2, <3>1, <3>2 DEF CrawlInv, CrawlTypes
  <2>6. ASSUME NEW r \in 1..N PROVE age'[p][r] * w + Ahead(p, r)' < N
    <3>1. CASE Ahead(p, r) < w
      <4>1. age'[p][r] = 0
        BY <2>2, <3>1 DEF Reminded
      <4> HIDE DEF N, w
      <4>2. 0 * w = 0
        BY <2>1
      <4> QED BY <2>1, <2>4, <4>1, <4>2
    <3>2. CASE Ahead(p, r) >= w
      <4>1. age'[p][r] = age[p][r] + 1
        BY <2>1, <2>2, <2>4, <3>2 DEF Reminded
      <4>2. age[p][r] * w + Ahead(p, r) < N
        BY DEF CrawlInv, OneRound
      <4>3. PICK t \in Nat : t = age[p][r]
        BY <2>1
      <4> HIDE DEF N, w
      <4>4. (t + 1) * w = t * w + w /\ t * w \in Nat
        BY <2>1
      <4> QED BY SMTT(30), <2>1, <2>4, <3>2, <4>1, <4>2, <4>3, <4>4
    <3> QED BY <2>1, <2>4, <3>1, <3>2
  <2>7. OneRound'
    <3>1. ASSUME NEW q \in PLCs, q # p, NEW r \in 1..Records[q]
          PROVE  age'[q][r] * update_workload(q)' + Ahead(q, r)' < Records[q]
      BY <2>2, <2>3, <3>1 DEF CrawlInv, OneRound
    <3> QED BY <2>3, <2>6, <3>1 DEF OneRound
  <2> QED BY <2>5, <2>7 DEF CrawlInv
<1> QED BY <1>1, <1>2

LEMMA TimerFires ==
  ASSUME second \in Seconds
  PROVE  /\ second \in Seq(PLCs) /\ Len(second) \in Nat \ {0}
         /\ TimerInv => second[fired + 1] \in PLCs
<1>1. second \in Seq(PLCs) /\ Range(second) # {}
  BY UpdateAssumption
<1>2. Len(second) # 0
  BY <1>1 DEF Range
<1> QED BY <1>1, <1>2 DEF TimerInv

LEMMA TimerInit == UpdateInit => TimerInv
BY TimerFires DEF UpdateInit, TimerInv

LEMMA TimerStep == TimerInv /\ [UpdateNext]_updateVars => TimerInv'
<1> SUFFICES ASSUME TimerInv, [UpdateNext]_updateVars PROVE TimerInv'
  OBVIOUS
<1>1. CASE update_scanner
  BY <1>1, TimerFires DEF update_scanner, TimerInv
<1>2. CASE UNCHANGED <<second, fired>>
  BY <1>2 DEF TimerInv
<1> QED BY <1>1, <1>2 DEF UpdateNext, UpdateReads, SwitchOff, SwitchOn, updateVars

LEMMA CrawlStep == CrawlInv /\ TimerInv /\ [UpdateNext]_updateVars => CrawlInv'
<1> SUFFICES ASSUME CrawlInv, TimerInv, [UpdateNext]_updateVars PROVE CrawlInv'
  OBVIOUS
<1>1. CASE update_scanner
  <2> DEFINE p == second[fired + 1]
  <2>1. Crawl(p) /\ second' = second
    BY <1>1 DEF update_scanner
  <2>2. p \in PLCs
    BY TimerFires DEF TimerInv
  <2> HIDE DEF p
  <2> QED BY <2>1, <2>2, CrawlTick
<1>2. CASE UNCHANGED <<second, update_last, age>>
  BY <1>2, CrawlSame
<1>3. (\E p \in PLCs : UpdateReads(p) \/ SwitchOff(p) \/ SwitchOn(p)) \/ UNCHANGED updateVars
        => UNCHANGED <<second, update_last, age>>
  BY DEF UpdateReads, SwitchOff, SwitchOn, updateVars
<1> QED BY <1>1, <1>2, <1>3 DEF UpdateNext

(* "to make sure they won't go stale" (tcComms.cpp, update_scanner): no    *)
(* tick leaves out a record that EPICS was reminded of ten seconds ago or  *)
(* longer, for any number of records, PLCs and ticks in a second.          *)
THEOREM UpdateRemindedInTime == UpdateSpec => []RemindedInTime
<1>1. ASSUME CrawlInv PROVE RemindedInTime
  <2> SUFFICES ASSUME NEW p \in PLCs, NEW r \in DOMAIN age[p]
               PROVE  age[p][r] * update_scanner_period(p) < 10000
    BY DEF RemindedInTime
  <2> DEFINE N == Records[p]
             P == update_scanner_period(p)
             w == update_workload(p)
             t == age[p][r]
  <2>1. /\ N \in Nat /\ P \in Nat /\ w = (N * P) \div 10000 + 1 /\ w \in Nat
        /\ t \in Nat /\ r \in 1..N
    BY <1>1, WorkloadIs, PeriodIs DEF CrawlInv, CrawlTypes, update_workload
  <2>2. t * w + Ahead(p, r) < N
    BY <1>1, <2>1 DEF CrawlInv, OneRound
  <2>3. Ahead(p, r) \in Nat
    <3>1. update_last[p] \in 1..N
      BY <1>1, <2>1 DEF CrawlInv, CrawlTypes
    <3> QED BY <2>1, <3>1 DEF Ahead
  <2> HIDE DEF N, P, w, t
  <2>4. t * w < N
    <3>1. t * w \in Nat
      BY <2>1
    <3> QED BY <2>1, <2>2, <2>3, <3>1
  <2>5. t * P < 10000
    BY <2>1, <2>4, WorkloadIsEnough
  <2> QED BY <2>5 DEF t, P
<1> QED BY CrawlInit, CrawlStep, TimerInit, TimerStep, <1>1, PTL DEF UpdateSpec
===========================================================================
