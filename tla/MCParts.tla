------------------------------ MODULE MCParts ------------------------------
(***************************************************************************)
(* Three parts that share nothing here, in one run: an axis of the motor   *)
(* driver, the info records and the update scanners.  `part` says which of *)
(* them a behaviour is about; the others stay as they start.               *)
(***************************************************************************)
EXTENDS MotorAxis, InfoRecords, UpdateScanner

VARIABLE part

partsVars == <<part, motorVars, infoVars, updateVars>>

\* A pass that visits the execute flag first, and one that does not; of the
\* records those that the calls put into.
MCVisitOrders ==
  { <<"EXEC", "CMD", "VEL", "POS", "DIST", "STOP">>,
    <<"POS", "CMD", "EXEC", "STOP", "VEL", "DIST">> }

Script(class, toCall, inAlarm) ==
  LET into == UNION {Range(PutsOf(class, toCall[n])) : n \in DOMAIN toCall}
      needed(o) == SelectSeq(o, LAMBDA r : r \in into)
  IN [axis |-> class, calls |-> toCall, alarms |-> inAlarm,
      orders |-> {needed(o) : o \in MCVisitOrders}]
OneMove == Script("twincat", <<"moveAbs">>, 1)
MCScripts ==
  { OneMove,
    Script("twincat", <<"moveVelocity", "stop">>, 0),
    Script("ISIS", <<"home", "moveVelocity">>, 0),
    Script("ISIS", <<"moveRel", "stop">>, 0) }

\* A few records of every kind, the reset among them.
MCPresent ==
  <<"active", "state", "timestamp.year", "timestamp.sec", "rate.read",
    "cb.queue[0].max", "cb.queue[0].percent", "cb.reset.max">>

\* One PLC with more records than an update reminds of, one with fewer; one
\* tick a second each, and a PLC with two or three.
MCRecords == [a |-> 12, b |-> 3]
EachOnce == <<"a", "b">>
MCSeconds == {EachOnce, <<"b", "b", "a", "b", "b">>}

MotorStays == /\ MotorInit
              /\ axis = OneMove.axis /\ script = OneMove.calls /\ order[1] = "EXEC"
InfoStays == InfoInit /\ ads = "RUN"
UpdateStays == UpdateInit /\ second = EachOnce /\ online = [p \in PLCs |-> TRUE]

Init ==
  \/ part = "motor" /\ MotorInit /\ InfoStays /\ UpdateStays
  \/ part = "info" /\ MotorStays /\ InfoInit /\ UpdateStays
  \/ part = "update" /\ MotorStays /\ InfoStays /\ UpdateInit

Next ==
  \/ part = "motor" /\ MotorNext /\ UNCHANGED <<part, infoVars, updateVars>>
  \/ part = "info" /\ InfoNext /\ UNCHANGED <<part, motorVars, updateVars>>
  \/ part = "update" /\ UpdateNext /\ UNCHANGED <<part, motorVars, infoVars>>

\* The poller of the motor driver, the scanners and EPICS' callbacks run
\* again and again; timers fire for ever.  Each in the behaviours of its part.
Spec ==
  /\ Init /\ [][Next]_partsVars
  /\ WF_motorVars(part = "motor" /\ Driver)
  /\ WF_motorVars(part = "motor" /\ StartPollAll("poll"))
  /\ WF_motorVars(part = "motor" /\ WritePass)
  /\ WF_motorVars(part = "motor" /\ ReadPass)
  /\ \A f \in DOMAIN AtRest : WF_motorVars(part = "motor" /\ Show(f))
  /\ WF_updateVars(part = "update" /\ update_scanner)
  /\ \A p \in PLCs : WF_updateVars(part = "update" /\ UpdateReads(p))
============================================================================
