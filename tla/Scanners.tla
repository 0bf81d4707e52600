------------------------------ MODULE Scanners ------------------------------
(***************************************************************************)
(* The read scanner and the write scanner of a TcPLC over all its records. *)
(* A pass holds TcPLC::sync from its first statement to its last; EPICS    *)
(* writes to a record at any time, without it.                             *)
(*                                                                         *)
(* One action is one ADS request, one test or one store of PlcWriteBinary, *)
(* or the reading of one dirty record.  DataValue has the steps inside,    *)
(* RecordExchange what EPICS does with the value, ReadRequests how the     *)
(* read requests are formed and ProcWrite how the write requests are.      *)
(***************************************************************************)
EXTENDS Integers, FiniteSets

CONSTANTS Records, Values,
          Zero,              \* what new storage and a new buffer hold
          ReadOnly,          \* records with access right read_only
          nRequest,          \* read requests are 0..nRequest
          requestNum,        \* the request in which a record is read
          scanRateMultiple,
          default_multiple,
          MaxAssigned,       \* bound: assignments by EPICS and the PLC program
          MaxEvents          \* bound: changes of the link, failed writes

Requests == 0..nRequest

ASSUME RequestsAssumption ==
  /\ nRequest \in Nat /\ requestNum \in [Records -> Requests]
  /\ ReadOnly \subseteq Records
ASSUME NumbersAssumption ==
  /\ scanRateMultiple \in Nat \ {0} /\ default_multiple \in Nat \ {0}
  /\ MaxAssigned \in Nat /\ MaxEvents \in Nat

VARIABLES
  assigned,     \* assignments so far
  dval, valid,  \* data value and valid flag of each record
  dirty,        \* records whose myplcdirty is set
  symbol,       \* the value of each symbol in the PLC
  online,       \* ads_state is ADSSTATE_RUN and the tpy file is valid
  broken,       \* requests that ADS answers with an error
  events,
  sync,         \* who holds the mutex: "nobody", "read" or "write"
  reader,       \* where the read scanner is
  request, read_success, buffer, cyclesLeft,
  todo,         \* records the pass has yet to update
  storing,      \* the record that passed the test of write_and_test
  writer,       \* where the write scanner is
  unseen,       \* records it has yet to visit
  batch,        \* what it has collected: a partial function of Records
  raced,        \* history: EPICS wrote the record that is being stored
  fresh,        \* history: requests that succeeded in this pass
  written,      \* history: records EPICS wrote since they were last read
  waited        \* history: passes since a record was last updated

dataVars == <<assigned, dval, valid, dirty>>
plcVars == <<symbol, online, broken, events>>
readVars == <<reader, request, read_success, buffer, cyclesLeft, todo, storing>>
writeVars == <<writer, unseen, batch>>
history == <<raced, fresh, written, waited>>
vars == <<dataVars, plcVars, sync, readVars, writeVars, history>>

Content == Values \cup {Zero}
Nobody == {}
Infos == "info"   \* stands for the records that are not of the PLC

TypeOK ==
  /\ assigned \in 0..MaxAssigned
  /\ dval \in [Records -> Content] /\ valid \in [Records -> BOOLEAN] /\ dirty \subseteq Records
  /\ symbol \in [Records -> Content] /\ online \in BOOLEAN /\ broken \subseteq Requests
  /\ events \in 0..MaxEvents
  /\ sync \in {"nobody", "read", "write"}
  /\ reader \in {"idle", "request", "count", "update"} /\ request \in 0..nRequest + 1
  /\ read_success \in BOOLEAN /\ buffer \in [Records -> Content]
  /\ cyclesLeft \in 0..default_multiple \cup 0..scanRateMultiple - 1
  /\ todo \subseteq Records /\ storing \subseteq Records /\ Cardinality(storing) <= 1
  /\ writer \in {"idle", "collect"} /\ unseen \subseteq Records
  /\ DOMAIN batch \subseteq Records /\ \A r \in DOMAIN batch : batch[r] \in Content
  /\ raced \in BOOLEAN /\ fresh \subseteq Requests /\ written \subseteq Records
  /\ waited \in [Records \cup {Infos} -> 0..default_multiple + scanRateMultiple]

NoBatch == [r \in {} |-> Zero]

Init ==
  /\ assigned = 0
  /\ dval = [r \in Records |-> Zero] /\ valid = [r \in Records |-> FALSE] /\ dirty = {}
  /\ symbol \in [Records -> Values] /\ online \in BOOLEAN /\ broken = {} /\ events = 0
  /\ sync = "nobody"
  /\ reader = "idle" /\ request = 0 /\ read_success = FALSE
  /\ buffer = [r \in Records |-> Zero]
  /\ cyclesLeft = default_multiple /\ todo = {} /\ storing = Nobody
  /\ writer = "idle" /\ unseen = {} /\ batch = NoBatch
  /\ raced = FALSE /\ fresh = {} /\ written = {}
  /\ waited = [x \in Records \cup {Infos} |-> 0]

---------------------------------------------------------------------------
(* EPICS and the PLC program assign values; the link changes.              *)

UserWrite(r, v) ==
  /\ r \notin ReadOnly
  /\ assigned < MaxAssigned /\ assigned' = assigned + 1
  /\ dval' = [dval EXCEPT ![r] = v]
  /\ valid' = [valid EXCEPT ![r] = TRUE]
  /\ dirty' = dirty \cup {r}
  /\ raced' = (raced \/ r \in storing)
  /\ written' = written \cup {r}
  /\ UNCHANGED <<plcVars, sync, readVars, writeVars, fresh, waited>>

PlcAssigns(r, v) ==
  /\ assigned < MaxAssigned /\ assigned' = assigned + 1
  /\ symbol' = [symbol EXCEPT ![r] = v]
  /\ UNCHANGED <<dval, valid, dirty, online, broken, events, sync, readVars, writeVars, history>>

LinkChanges ==
  /\ events < MaxEvents /\ events' = events + 1
  /\ \/ online' = ~online /\ UNCHANGED broken
     \/ \E b \in SUBSET Requests : b # broken /\ broken' = b /\ UNCHANGED online
  /\ UNCHANGED <<dataVars, symbol, sync, readVars, writeVars, history>>

---------------------------------------------------------------------------
(* read_scanner                                                            *)

(* Fault: the read scanner does not take the mutex.                        *)
ReadBeginsUnlocked ==
  /\ reader = "idle"
  /\ reader' = IF online THEN "request" ELSE "count"
  /\ request' = 0 /\ read_success' = FALSE /\ fresh' = {}
  /\ UNCHANGED <<dataVars, plcVars, sync, buffer, cyclesLeft, todo, storing, writeVars,
                 raced, written, waited>>

ReadBegins ==
  /\ reader = "idle" /\ sync = "nobody" /\ sync' = "read"
  /\ reader' = IF online THEN "request" ELSE "count"
  /\ request' = 0 /\ read_success' = FALSE /\ fresh' = {}
  /\ UNCHANGED <<dataVars, plcVars, buffer, cyclesLeft, todo, storing, writeVars,
                 raced, written, waited>>

(* One success makes the pass a success; a request that fails leaves its   *)
(* response buffer as it was.                                              *)
Request ==
  /\ reader = "request"
  /\ IF request \in broken
     THEN UNCHANGED <<buffer, read_success, fresh, written>>
     ELSE /\ buffer' = [r \in Records |->
                          IF requestNum[r] = request THEN symbol[r] ELSE buffer[r]]
          /\ read_success' = TRUE
          /\ fresh' = fresh \cup {request}
          /\ written' = {r \in written : requestNum[r] # request}
  /\ request' = request + 1
  /\ reader' = IF request = nRequest THEN "count" ELSE "request"
  /\ UNCHANGED <<dataVars, plcVars, sync, cyclesLeft, todo, storing, writeVars,
                 raced, waited>>

readAll == cyclesLeft <= 0

(* Fault: the countdown is reset to one cycle too many.                    *)
ResetLate == IF readAll THEN scanRateMultiple + 1 ELSE cyclesLeft

Reset == IF readAll THEN scanRateMultiple ELSE cyclesLeft

(* Read-only records wait until the countdown is over; info records are    *)
(* updated one pass before.                                                *)
Count ==
  /\ reader = "count"
  /\ reader' = "update"
  /\ todo' = {r \in Records : readAll \/ r \notin ReadOnly}
  /\ cyclesLeft' = Reset - 1
  /\ waited' = [x \in Records \cup {Infos} |->
                  IF x \in todo' \/ (x = Infos /\ Reset = 1) THEN 0 ELSE waited[x] + 1]
  /\ UNCHANGED <<dataVars, plcVars, sync, request, read_success, buffer, storing,
                 writeVars, raced, fresh, written>>

UpdateNext == reader = "update" /\ storing = Nobody

(* PlcWriteBinary refuses a record that EPICS has written ...              *)
PlcWriteRefused(r) ==
  /\ UpdateNext /\ r \in todo /\ read_success
  /\ r \in dirty
  /\ todo' = todo \ {r}
  /\ UNCHANGED <<dataVars, plcVars, sync, reader, request, read_success, buffer,
                 cyclesLeft, storing, writeVars, history>>

PlcWriteTest(r) ==
  /\ UpdateNext /\ r \in todo /\ read_success
  /\ r \notin dirty
  /\ todo' = todo \ {r} /\ storing' = {r} /\ raced' = FALSE
  /\ UNCHANGED <<dataVars, plcVars, sync, reader, request, read_success, buffer,
                 cyclesLeft, writeVars, fresh, written, waited>>

(* Fault: a value from the PLC does not make the record valid.             *)
PlcWriteStoreOnly(r) ==
  /\ r \in storing /\ storing' = Nobody
  /\ dval' = [dval EXCEPT ![r] = buffer[r]]
  /\ UNCHANGED <<assigned, valid, dirty, plcVars, sync, reader, request, read_success,
                 buffer, cyclesLeft, todo, writeVars, history>>

PlcWriteStore(r) ==
  /\ r \in storing /\ storing' = Nobody
  /\ dval' = [dval EXCEPT ![r] = buffer[r]]
  /\ valid' = [valid EXCEPT ![r] = TRUE]
  /\ UNCHANGED <<assigned, dirty, plcVars, sync, reader, request, read_success, buffer,
                 cyclesLeft, todo, writeVars, history>>

(* Fault: only records that EPICS has not written are made invalid.        *)
UserSetValidClean(r) ==
  /\ UpdateNext /\ r \in todo /\ ~read_success
  /\ valid' = [valid EXCEPT ![r] = valid[r] /\ r \in dirty]
  /\ todo' = todo \ {r}
  /\ UNCHANGED <<assigned, dval, dirty, plcVars, sync, reader, request, read_success,
                 buffer, cyclesLeft, storing, writeVars, history>>

UserSetValid(r) ==
  /\ UpdateNext /\ r \in todo /\ ~read_success
  /\ valid' = [valid EXCEPT ![r] = FALSE]
  /\ todo' = todo \ {r}
  /\ UNCHANGED <<assigned, dval, dirty, plcVars, sync, reader, request, read_success,
                 buffer, cyclesLeft, storing, writeVars, history>>

ReadEnds ==
  /\ UpdateNext /\ todo = {}
  /\ reader' = "idle" /\ sync' = "nobody"
  /\ UNCHANGED <<dataVars, plcVars, request, read_success, buffer, cyclesLeft, todo,
                 storing, writeVars, history>>

ReadStep ==
  \/ Request \/ Count
  \/ \E r \in Records :
       PlcWriteRefused(r) \/ PlcWriteTest(r) \/ PlcWriteStore(r) \/ UserSetValid(r)
  \/ ReadEnds

---------------------------------------------------------------------------
(* write_scanner; ProcWrite has the requests it sends.                     *)

WriteBegins ==
  /\ writer = "idle" /\ sync = "nobody" /\ online
  /\ sync' = "write" /\ writer' = "collect" /\ unseen' = Records
  /\ UNCHANGED <<dataVars, plcVars, readVars, batch, history>>

Visit(r) == writer = "collect" /\ r \in unseen /\ unseen' = unseen \ {r}

PassOver(r) ==
  /\ Visit(r) /\ r \notin dirty
  /\ UNCHANGED <<dataVars, plcVars, sync, readVars, writer, batch, history>>

Collect(r) ==
  /\ Visit(r) /\ r \in dirty
  /\ batch' = [x \in DOMAIN batch \cup {r} |-> IF x = r THEN dval[r] ELSE batch[x]]
  /\ dirty' = dirty \ {r}
  /\ UNCHANGED <<assigned, dval, valid, plcVars, sync, readVars, writer, history>>

WriteEnds ==
  /\ writer = "collect" /\ unseen = {}
  /\ writer' = "idle" /\ sync' = "nobody" /\ batch' = NoBatch
  /\ UNCHANGED unseen

(* A request that fails is not repeated.                                   *)
Send ==
  /\ WriteEnds
  /\ symbol' = [r \in Records |-> IF r \in DOMAIN batch THEN batch[r] ELSE symbol[r]]
  /\ UNCHANGED <<dataVars, online, broken, events, readVars, history>>

SendFails ==
  /\ WriteEnds /\ batch # NoBatch
  /\ events < MaxEvents /\ events' = events + 1
  /\ UNCHANGED <<dataVars, symbol, online, broken, readVars, history>>

---------------------------------------------------------------------------
WriteStep == Send \/ SendFails \/ \E r \in Records : PassOver(r) \/ Collect(r)

Next ==
  \/ \E r \in Records, v \in Values : UserWrite(r, v) \/ PlcAssigns(r, v)
  \/ LinkChanges
  \/ ReadBegins \/ ReadStep
  \/ WriteBegins \/ WriteStep

Spec == Init /\ [][Next]_vars

(* Both scanners have a periodic timer and wait for the mutex; a pass that *)
(* has begun ends.                                                         *)
FairSpec ==
  /\ Spec
  /\ SF_vars(ReadBegins)
  /\ SF_vars(WriteBegins)
  /\ WF_vars(ReadStep)
  /\ WF_vars(WriteStep)

---------------------------------------------------------------------------
(* A read that was answered before a write never undoes the write: the     *)
(* read scanner does not store a value that is older than the last one     *)
(* EPICS wrote.  That is what the mutex and the pending test of            *)
(* write_and_test are for.  It happens only if EPICS wrote between that    *)
(* test and the store, or if the record's own read request failed in a     *)
(* pass that succeeded.                                                    *)
NeverUndone ==
  [][\A r \in written :
       PlcWriteStore(r) => raced \/ requestNum[r] \notin fresh]_vars

(* The countdown serves everybody: no record waits longer than one round   *)
(* of scanRateMultiple passes for its update (the first round takes        *)
(* default_multiple passes), info records in the pass before included.     *)
ServedInTime ==
  \A x \in Records \cup {Infos} :
    waited[x] <= default_multiple \/ waited[x] < scanRateMultiple

(* With all requests answered, every record ends up valid and equal to its *)
(* symbol; with none, every record ends up invalid, read-only ones and     *)
(* those that EPICS has written included.                                  *)
Converges ==
  <>[](online /\ broken = {}) =>
    <>[](\A r \in Records : valid[r] /\ dval[r] = symbol[r])

ShowsLoss ==
  <>[](~online \/ broken = Requests) => <>[](\A r \in Records : ~valid[r])

(* README.md, Synchronization: the record values "are never more than a    *)
(* minute old".  A value that is not the PLC's is renewed, or it is marked *)
(* invalid.                                                                *)
NeverStale ==
  \A r \in Records :
    valid[r] /\ dval[r] # symbol[r] ~> ~valid[r] \/ dval[r] = symbol[r]
=============================================================================
