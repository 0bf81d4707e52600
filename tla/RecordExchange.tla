--------------------------- MODULE RecordExchange ---------------------------
(***************************************************************************)
(* One record between EPICS and the PLC: its data value (DataValue), the   *)
(* read, write and update scanners of TcPLC, the callbacks by which they   *)
(* wake EPICS, and the processing of the EPICS record by devTcDefIn::read  *)
(* or devTcDefOut::write.                                                  *)
(*                                                                         *)
(* EPICS locks a record while it processes it, so one thread "epics" acts  *)
(* for it.  The read and the write scanner hold TcPLC::sync for a whole    *)
(* pass, so one thread "scan" acts for both; "update" holds no lock.       *)
(***************************************************************************)
EXTENDS Naturals

CONSTANTS Values, NoValue,
          Passive,      \* TRUE: an output record, FALSE: an input record
          RingSize,     \* bound: entries of this record in the callback ring
          MaxChanges,   \* bound: puts and changes by the PLC program
          MaxFailures   \* bound: losses of the link, callbacks refused

ASSUME BoundsAssumption ==
  /\ Passive \in BOOLEAN
  /\ RingSize \in Nat \ {0}
  /\ MaxChanges \in Nat
  /\ MaxFailures \in Nat

VARIABLES
  mydata, myvalid, dirty, pc, arg, known, raced,  \* the data value
  val,        \* the VAL field of the EPICS record
  udf,        \* its UDF field: set with the INVALID alarm
  at,         \* at[t]: where thread t is, outside the data value's calls
  cause,      \* what made EPICS process the record: "put" or "callback"
  ring,       \* callbacks for the record in the EPICS ring
  dropped,    \* history: the last push met a ring full of other callbacks
  linked,     \* ADS requests reach the PLC
  plcval,     \* the symbol in the PLC
  buffer,     \* ADS response buffer of the read scanner
  request,    \* the value in the request the write scanner is building
  changes, failures

dvars == <<mydata, myvalid, dirty, pc, arg, known, raced>>
epicsVars == <<val, udf, cause>>
plcVars == <<linked, plcval, buffer, request>>
bounds == <<changes, failures>>
vars == <<dvars, epicsVars, at, ring, dropped, plcVars, bounds>>

DV == INSTANCE DataValue WITH UserThreads <- {"epics"}, PlcThreads <- {"scan", "update"}

Threads == {"epics", "scan", "update"}
Places == {"idle", "branch", "validity", "read", "load", "write", "storing",
           "update", "invalid", "push", "take", "send"}
Content == Values \cup {NoValue}

TypeOK ==
  /\ DV!TypeOK
  /\ val \in Content /\ udf \in BOOLEAN /\ cause \in {"put", "callback"}
  /\ at \in [Threads -> Places]
  /\ ring \in 0..RingSize /\ dropped \in BOOLEAN
  /\ linked \in BOOLEAN /\ plcval \in Content /\ buffer \in Content /\ request \in Content
  /\ changes \in 0..MaxChanges /\ failures \in 0..MaxFailures

Init ==
  /\ DV!Init
  /\ val = NoValue /\ udf = TRUE /\ cause = "callback"
  /\ at = [t \in Threads |-> "idle"]
  /\ ring = 0 /\ dropped = FALSE
  /\ linked \in BOOLEAN /\ plcval \in Values /\ buffer = NoValue /\ request = NoValue
  /\ changes = 0 /\ failures = 0

Go(t, place) == at' = [at EXCEPT ![t] = place]

---------------------------------------------------------------------------
(* EPICS side.  A client's put stores VAL and processes the record.        *)

Put(v) ==
  /\ Passive
  /\ at["epics"] = "idle"
  /\ changes < MaxChanges
  /\ changes' = changes + 1
  /\ val' = v
  /\ cause' = "put"
  /\ Go("epics", "branch")
  /\ UNCHANGED <<dvars, udf, ring, dropped, plcVars, failures>>

RunCallback ==
  /\ at["epics"] = "idle"
  /\ ring > 0
  /\ ring' = ring - 1
  /\ cause' = "callback"
  /\ Go("epics", IF Passive THEN "branch" ELSE "validity")
  /\ UNCHANGED <<dvars, val, udf, dropped, plcVars, bounds>>

(* get_callbackRequestPending: an output record reads if its flag is up.   *)
Branch ==
  /\ at["epics"] = "branch"
  /\ Go("epics", IF dirty["user"] THEN "validity" ELSE "write")
  /\ UNCHANGED <<dvars, epicsVars, ring, dropped, plcVars, bounds>>

CheckValid ==
  /\ at["epics"] = "validity"
  /\ udf' = ~myvalid
  /\ Go("epics", "read")
  /\ UNCHANGED <<dvars, val, cause, ring, dropped, plcVars, bounds>>

UserReadClear ==
  /\ at["epics"] = "read"
  /\ DV!ClearDirty("epics")
  /\ Go("epics", "load")
  /\ UNCHANGED <<epicsVars, ring, dropped, plcVars, bounds>>

(* Fault: a value that is not valid is not copied to VAL.                  *)
UserReadLoadValid ==
  /\ at["epics"] = "load"
  /\ DV!Load("epics")
  /\ val' = IF udf THEN val ELSE mydata
  /\ Go("epics", "idle")
  /\ UNCHANGED <<udf, cause, ring, dropped, plcVars, bounds>>

UserReadLoad ==
  /\ at["epics"] = "load"
  /\ DV!Load("epics")
  /\ val' = mydata
  /\ Go("epics", "idle")
  /\ UNCHANGED <<udf, cause, ring, dropped, plcVars, bounds>>

UserWriteTest ==
  /\ at["epics"] = "write"
  /\ DV!TestPending("epics", val, "template")
  /\ Go("epics", "storing")
  /\ UNCHANGED <<epicsVars, ring, dropped, plcVars, bounds>>

(* write_and_test returns false; devTcDefOut::write ignores it.            *)
UserWriteRefused ==
  /\ at["epics"] = "write"
  /\ dirty["user"]
  /\ udf' = FALSE
  /\ Go("epics", "idle")
  /\ UNCHANGED <<dvars, val, cause, ring, dropped, plcVars, bounds>>

UserWriteStore ==
  /\ at["epics"] = "storing"
  /\ DV!Exchange("epics") \/ DV!StoreValid("epics")
  /\ UNCHANGED <<epicsVars, at, ring, dropped, plcVars, bounds>>

UserWriteDone ==
  /\ at["epics"] = "storing"
  /\ DV!RaiseDirty("epics")
  /\ udf' = FALSE
  /\ Go("epics", "idle")
  /\ UNCHANGED <<val, cause, ring, dropped, plcVars, bounds>>

Epics ==
  \/ RunCallback \/ Branch \/ CheckValid \/ UserReadClear \/ UserReadLoad
  \/ UserWriteTest \/ UserWriteRefused \/ UserWriteStore \/ UserWriteDone

---------------------------------------------------------------------------
(* BaseRecord::UserPush and EpicsInterface::push: only a dirty record is   *)
(* pushed.  The ring is shared by all records: EPICS refuses a callback    *)
(* when it is full, and push tells nobody.                                 *)

Push(t) ==
  /\ at[t] = "push"
  /\ \/ ~dirty["user"] /\ UNCHANGED <<ring, dropped, failures>>
     \/ /\ dirty["user"]
        /\ ring' = IF ring < RingSize THEN ring + 1 ELSE ring
        /\ dropped' = FALSE
        /\ UNCHANGED failures
     \/ /\ dirty["user"] /\ failures < MaxFailures
        /\ failures' = failures + 1
        /\ dropped' = TRUE
        /\ UNCHANGED ring
  /\ Go(t, "idle")
  /\ UNCHANGED <<dvars, epicsVars, plcVars, changes>>

(* Fault: the pass counts as read although this buffer was not refilled.   *)
ReadStale ==
  /\ at["scan"] = "idle"
  /\ linked
  /\ buffer' = IF buffer = NoValue THEN plcval ELSE buffer
  /\ Go("scan", "update")
  /\ UNCHANGED <<dvars, epicsVars, ring, dropped, linked, plcval, request, bounds>>

(* read_scanner, online: the response buffer is filled ...                 *)
ReadPlc ==
  /\ at["scan"] = "idle"
  /\ linked
  /\ buffer' = plcval
  /\ Go("scan", "update")
  /\ UNCHANGED <<dvars, epicsVars, ring, dropped, linked, plcval, request, bounds>>

(* ... or no request of this pass succeeds.                                *)
ReadFails ==
  /\ at["scan"] = "idle"
  /\ ~linked
  /\ Go("scan", "invalid")
  /\ UNCHANGED <<dvars, epicsVars, ring, dropped, plcVars, bounds>>

PlcWriteTest ==
  /\ at["scan"] = "update"
  /\ DV!TestPending("scan", buffer, "template")
  /\ Go("scan", "storing")
  /\ UNCHANGED <<epicsVars, ring, dropped, plcVars, bounds>>

PlcWriteRefused ==
  /\ at["scan"] = "update"
  /\ dirty["plc"]
  /\ Go("scan", "idle")
  /\ UNCHANGED <<dvars, epicsVars, ring, dropped, plcVars, bounds>>

PlcWriteStore ==
  /\ at["scan"] = "storing"
  /\ DV!Exchange("scan") \/ DV!StoreValid("scan")
  /\ UNCHANGED <<epicsVars, at, ring, dropped, plcVars, bounds>>

PlcWriteDone ==
  /\ at["scan"] = "storing"
  /\ DV!RaiseDirty("scan")
  /\ Go("scan", "push")
  /\ UNCHANGED <<epicsVars, ring, dropped, plcVars, bounds>>

(* UserSetValid(false): the flag goes up only when the validity changed.   *)
Invalidate ==
  /\ at["scan"] = "invalid"
  /\ DV!SetInvalid("scan")
  /\ Go("scan", IF myvalid THEN "storing" ELSE "push")
  /\ UNCHANGED <<epicsVars, ring, dropped, plcVars, bounds>>

(* write_scanner: tcProcWrite takes a dirty record's value, also while the *)
(* link is down and nothing has noticed it yet ...                         *)
PlcIsDirty ==
  /\ at["scan"] = "idle"
  /\ dirty["plc"]
  /\ Go("scan", "take")
  /\ UNCHANGED <<dvars, epicsVars, ring, dropped, plcVars, bounds>>

PlcReadClear ==
  /\ at["scan"] = "take"
  /\ DV!ClearDirty("scan")
  /\ UNCHANGED <<epicsVars, at, ring, dropped, plcVars, bounds>>

PlcReadLoad ==
  /\ at["scan"] = "take"
  /\ DV!Load("scan")
  /\ request' = mydata
  /\ Go("scan", "send")
  /\ UNCHANGED <<epicsVars, ring, dropped, linked, plcval, buffer, bounds>>

(* ... and tcwrite sends it; a failed request is reported and forgotten.   *)
SendOk ==
  /\ at["scan"] = "send"
  /\ linked
  /\ plcval' = request
  /\ request' = NoValue
  /\ Go("scan", "idle")
  /\ UNCHANGED <<dvars, epicsVars, ring, dropped, linked, buffer, bounds>>

SendFails ==
  /\ at["scan"] = "send"
  /\ ~linked
  /\ request' = NoValue
  /\ Go("scan", "idle")
  /\ UNCHANGED <<dvars, epicsVars, ring, dropped, linked, plcval, buffer, bounds>>

ScanStep ==
  \/ Push("scan") \/ PlcWriteTest \/ PlcWriteRefused \/ PlcWriteStore
  \/ PlcWriteDone \/ Invalidate \/ PlcReadClear \/ PlcReadLoad \/ SendOk
  \/ SendFails

(* update_scanner: UserSetDirty, then its UserPush.                        *)
(* Fault: the reminder raises the flag and leaves the push to the next     *)
(* change of the value.                                                    *)
RemindNoPush ==
  /\ at["update"] = "idle"
  /\ DV!SetDirty("update")
  /\ UNCHANGED <<epicsVars, at, ring, dropped, plcVars, bounds>>

(* Fault: the reminder pushes and does not raise the flag, so that a       *)
(* record nobody changed is not pushed.                                    *)
RemindClean ==
  /\ at["update"] = "idle"
  /\ Go("update", "push")
  /\ UNCHANGED <<dvars, epicsVars, ring, dropped, plcVars, bounds>>

Remind ==
  /\ at["update"] = "idle"
  /\ DV!SetDirty("update")
  /\ Go("update", "push")
  /\ UNCHANGED <<epicsVars, ring, dropped, plcVars, bounds>>

(* The PLC program assigns the symbol; the link goes down and comes back.  *)
PlcChange(v) ==
  /\ changes < MaxChanges
  /\ v # plcval
  /\ changes' = changes + 1
  /\ plcval' = v
  /\ UNCHANGED <<dvars, epicsVars, at, ring, dropped, linked, buffer, request, failures>>

LinkDown ==
  /\ linked /\ failures < MaxFailures
  /\ failures' = failures + 1
  /\ linked' = FALSE
  /\ UNCHANGED <<dvars, epicsVars, at, ring, dropped, plcval, buffer, request, changes>>

LinkUp ==
  /\ ~linked
  /\ linked' = TRUE
  /\ UNCHANGED <<dvars, epicsVars, at, ring, dropped, plcval, buffer, request, bounds>>

---------------------------------------------------------------------------
Next ==
  \/ \E v \in Values : Put(v) \/ PlcChange(v)
  \/ Epics
  \/ ScanStep \/ ReadPlc \/ ReadFails \/ PlcIsDirty
  \/ Remind \/ Push("update")
  \/ LinkDown \/ LinkUp

Spec == Init /\ [][Next]_vars

(* The scanners run on periodic timers and queue for sync, so each gets it *)
(* again and again; EPICS runs its callbacks; a call that began ends.      *)
FairSpec ==
  /\ Spec
  /\ WF_vars(Epics)
  /\ WF_vars(ScanStep)
  /\ SF_vars(ReadPlc \/ ReadFails)
  /\ SF_vars(linked /\ PlcIsDirty)
  /\ WF_vars(Remind)
  /\ WF_vars(Push("update"))

---------------------------------------------------------------------------
(* No wake-up is lost: while a record is dirty for EPICS, a callback for   *)
(* it is queued, a scanner is about to push it, EPICS is about to read it, *)
(* or the callback ring refused it when it was last pushed.                *)
NoLostWakeup ==
  dirty["user"] =>
    \/ ring > 0
    \/ dropped
    \/ at["scan"] = "push" \/ at["update"] = "push"
    \/ at["epics"] \in {"branch", "validity", "read"}

(* VAL never diverges silently: between two processings either VAL is the  *)
(* data value, or the data value is still announced to EPICS (its flag is  *)
(* up or about to go up).  That covers refused puts and put-away callbacks.*)
ShowsDataValue ==
  at["epics"] = "idle" /\ ~DV!Announced("user") => val = mydata

(* Once operators, the PLC program and the link leave it alone, the three  *)
(* copies of an input's value agree for good.                              *)
Agree == val = mydata /\ mydata = plcval
Converges == <>[]linked => <>[]Agree

(* A link that stays down shows: an input keeps the INVALID alarm.  The    *)
(* last resort is the reminder of the update scanner.                      *)
AlarmStays == <>[]~linked => <>[]udf

(* README.md: a new value received through channel access is written "to   *)
(* the IOC's internal memory".                                             *)
PutIsStored ==
  [][at["epics"] # "idle" /\ at'["epics"] = "idle" /\ cause = "put"
       => DV!RaiseDirty("epics")]_vars
=============================================================================
