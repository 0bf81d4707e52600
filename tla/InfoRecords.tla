---------------------------- MODULE InfoRecords ----------------------------
(***************************************************************************)
(* The info records of a PLC (InfoPlc): records of the PLC's own state, of *)
(* its files and of EPICS' callback queues, next to the records of the PLC *)
(* program.  A read pass updates the input records when its countdown is   *)
(* at one; a write pass, and EPICS itself when it writes, push the output  *)
(* record, whose TRUE resets the high watermarks of the queues.            *)
(*                                                                         *)
(* One action is one record updated or one access to the output record's   *)
(* data value.  Passes hold TcPLC::sync; the ADS callback, EPICS and its   *)
(* queues do not.                                                          *)
(***************************************************************************)
EXTENDS Integers, Sequences, FiniteSets, SequencesExt

CONSTANTS Present,           \* the info records looked at, in the order of the table
          infoMultiple,      \* scanRateMultiple
          QueueSize,         \* entries of a callback queue
          None,              \* the value of a record not yet updated
          MaxPasses,         \* bound: read passes
          MaxEvents          \* bound: changes of state and queues, puts

ASSUME InfoAssumption ==
  /\ infoMultiple \in Nat \ {0} /\ QueueSize \in Nat \ {0}
  /\ MaxPasses \in Nat /\ MaxEvents \in Nat

---------------------------------------------------------------------------
(* dbinfo_list: per record how often it is updated, and whether by the     *)
(* update of a read pass (readonly) or by a push.  The first entry is the  *)
(* structure that holds the others; it has no method of its own.           *)

NameRecords == {"name", "alias"}
StateRecords == {"active", "state", "statestr"}
TimeRecords ==
  {"timestamp.str", "timestamp.local", "timestamp.year", "timestamp.month",
   "timestamp.day", "timestamp.hour", "timestamp.min", "timestamp.sec"}
RateRecords == {"rate.read", "rate.write", "rate.update", "records.num"}
TpyFileRecords ==
  {"tpy.valid", "tpy.time.str", "tpy.time.year", "tpy.time.month", "tpy.time.day",
   "tpy.time.hour", "tpy.time.min", "tpy.time.sec"}
AdsRecords ==
  {"ads.version", "ads.revision", "ads.build", "ads.port", "ads.netid.str", "ads.netid.b0",
   "ads.netid.b1", "ads.netid.b2", "ads.netid.b3", "ads.netid.b4", "ads.netid.b5"}
SvnRecords == {"svn.local", "svn.revision", "svn.time.str"}
QueueRecords(q) ==
  {q \o k : k \in {".size", ".used", ".max", ".overflow", ".free", ".percent", ".mprcnt"}}
LowQueueRecords == QueueRecords("cb.queue[0]")
MediumQueueRecords == QueueRecords("cb.queue[1]")
HighQueueRecords == QueueRecords("cb.queue[2]")
ResetRecord == "cb.reset.max"

OnceRecords == NameRecords \cup RateRecords \cup {"tpy.filename"} \cup AdsRecords \cup SvnRecords
ForeverRecords ==
  StateRecords \cup TimeRecords \cup TpyFileRecords \cup LowQueueRecords
    \cup MediumQueueRecords \cup HighQueueRecords \cup {ResetRecord}

(* Fault: the year was thought not to change.                              *)
dbinfo_listYearOnce ==
  [r \in OnceRecords \cup ForeverRecords |->
     [freq |-> IF r \in ForeverRecords \ {"timestamp.year"} THEN "forever" ELSE "once",
      readonly |-> r # ResetRecord]]

dbinfo_list ==
  [r \in OnceRecords \cup ForeverRecords |->
     [freq |-> IF r \in ForeverRecords THEN "forever" ELSE "once", readonly |-> r # ResetRecord]]

ASSUME PresentAssumption == Present \in Seq(DOMAIN dbinfo_list)

VARIABLES
  ads,          \* ads_state, set by the ADS callback
  stamp,        \* the PLC's time stamp, set by a read pass that succeeds
  used, high,   \* entries of the low priority callback queue, and their maximum
  passes, happened,
  cycles,       \* cyclesLeft
  freq,         \* update_freq of each record
  data,         \* the data value of each input record
  pending,      \* records the read pass has yet to update
  swapped,      \* history: ads changed since the last update began
  reset, resetDirty, resetShow,  \* the output record: value and its two flags
  pushing,      \* where a push of it is, by EPICS or by a write pass
  owed,         \* history: EPICS stored TRUE and no reset has followed
  hidden        \* history: a FALSE was being stored when EPICS stored TRUE

infoInputs == <<ads, stamp, used, high, passes, happened>>
infoPass == <<cycles, freq, data, pending, swapped>>
infoReset == <<reset, resetDirty, resetShow, pushing, owed, hidden>>
infoVars == <<infoInputs, infoPass, infoReset>>

Pushers == {"epics", "write"}
Updated == {r \in Range(Present) : dbinfo_list[r].readonly}

InfoInit ==
  /\ ads \in {"RUN", "STOP"} /\ stamp = 0 /\ used = 0 /\ high = 0 /\ passes = 0 /\ happened = 0
  /\ cycles = infoMultiple
  /\ freq = [r \in Range(Present) |-> dbinfo_list[r].freq]
  /\ data = [r \in Updated |-> None] /\ pending = <<>> /\ swapped = FALSE
  /\ reset = FALSE /\ resetDirty = FALSE /\ resetShow = FALSE
  /\ pushing = [t \in Pushers |-> "idle"] /\ owed = FALSE /\ hidden = FALSE

---------------------------------------------------------------------------
(* What the methods of the input records write.  A percentage is its       *)
(* numerator here.  With one entry or none the two percentage methods      *)
(* write nothing.                                                          *)

Writes(r) == CASE r \in {"cb.queue[0].percent"} -> used > 1
               [] r \in {"cb.queue[0].mprcnt"} -> high > 1
               [] OTHER -> TRUE

StateSource(r) == IF r = "active" THEN ads = "RUN" ELSE ads

QueueSource(r) ==
  CASE r = "cb.queue[0].size" -> QueueSize
    [] r \in {"cb.queue[0].used", "cb.queue[0].percent"} -> used
    [] r = "cb.queue[0].free" -> QueueSize - used
    [] r \in {"cb.queue[0].max", "cb.queue[0].mprcnt"} -> high
    [] OTHER -> "overflows"   \* not counted here

Source(r) ==
  IF r \in StateRecords THEN StateSource(r)
  ELSE IF r \in TimeRecords THEN stamp
  ELSE IF r \in LowQueueRecords THEN QueueSource(r) ELSE "constant"

---------------------------------------------------------------------------
(* A read pass.  cyclesLeft is reloaded when it has run out.               *)

ReadPassBegins ==
  /\ pending = <<>> /\ passes < MaxPasses /\ passes' = passes + 1
  /\ \E read_success \in IF ads = "RUN" THEN BOOLEAN ELSE {FALSE} :
       stamp' = (IF read_success THEN stamp + 1 ELSE stamp)
  /\ LET left == IF cycles <= 0 THEN infoMultiple ELSE cycles IN
     /\ cycles' = left - 1
     /\ IF left = 1 THEN pending' = Present /\ swapped' = FALSE ELSE UNCHANGED <<pending, swapped>>
  /\ UNCHANGED <<ads, used, high, happened, freq, data, infoReset>>

update ==
  /\ pending # <<>> /\ pending' = Tail(pending)
  /\ LET r == Head(pending) IN
     IF dbinfo_list[r].readonly
     THEN /\ freq' = [freq EXCEPT ![r] = IF @ = "once" THEN "done" ELSE @]
          /\ data' = IF freq[r] # "done" /\ Writes(r) THEN [data EXCEPT ![r] = Source(r)] ELSE data
     ELSE UNCHANGED <<freq, data>>
  /\ UNCHANGED <<infoInputs, cycles, swapped, infoReset>>

(* The ADS callback stores a new state; callbacks are queued and run.      *)
StateChanges ==
  /\ happened < MaxEvents /\ happened' = happened + 1
  /\ ads' \in {"RUN", "STOP"} \ {ads} /\ swapped' = TRUE
  /\ UNCHANGED <<stamp, used, high, passes, cycles, freq, data, pending, infoReset>>

QueueChanges ==
  /\ happened < MaxEvents /\ happened' = happened + 1
  /\ used' \in 0..QueueSize \ {used} /\ high' = IF used' > high THEN used' ELSE high
  /\ UNCHANGED <<ads, stamp, passes, infoPass, infoReset>>

---------------------------------------------------------------------------
(* The output record.  EPICS writes it and pushes it at once when the PLC  *)
(* side is dirty; a write pass pushes it whether dirty or not.             *)

Go(t, place) == pushing' = [pushing EXCEPT ![t] = place]

PutReset(b) ==
  /\ pushing["epics"] = "idle" /\ happened < MaxEvents /\ happened' = happened + 1
  /\ ~resetShow
  /\ reset' = b /\ resetDirty' = TRUE
  /\ owed' = b /\ hidden' = (b /\ pushing["write"] = "store")
  /\ Go("epics", "push")
  /\ UNCHANGED <<ads, stamp, used, high, passes, infoPass, resetShow>>

PlcPush ==
  /\ pushing["epics"] = "push"
  /\ Go("epics", IF resetDirty THEN "read" ELSE "idle")
  /\ UNCHANGED <<infoInputs, infoPass, reset, resetDirty, resetShow, owed, hidden>>

WritePassPushes ==
  /\ pushing["write"] = "idle"
  /\ reset \/ resetDirty    \* else it reads FALSE and changes nothing
  /\ Go("write", "read")
  /\ UNCHANGED <<infoInputs, infoPass, reset, resetDirty, resetShow, owed, hidden>>

(* info_update_callback_queue_reset_max: PlcRead, the reset, PlcWrite.     *)
PushReads(t) ==
  /\ pushing[t] = "read"
  /\ resetDirty' = FALSE
  /\ Go(t, IF reset THEN "reset" ELSE "idle")
  /\ UNCHANGED <<infoInputs, infoPass, reset, resetShow, owed, hidden>>

PushResets(t) ==
  /\ pushing[t] = "reset"
  /\ high' = used /\ owed' = FALSE
  /\ Go(t, "test")
  /\ UNCHANGED <<ads, stamp, used, passes, happened, infoPass, reset, resetDirty, resetShow, hidden>>

(* Fault: FALSE is written whatever EPICS has written in the meantime.     *)
PushTestsNot(t) ==
  /\ pushing[t] = "test"
  /\ Go(t, "store")
  /\ UNCHANGED <<infoInputs, infoPass, reset, resetDirty, resetShow, owed, hidden>>

PushTests(t) ==
  /\ pushing[t] = "test"
  /\ Go(t, IF resetDirty THEN "idle" ELSE "store")
  /\ UNCHANGED <<infoInputs, infoPass, reset, resetDirty, resetShow, owed, hidden>>

PushStores(t) ==
  /\ pushing[t] = "store"
  /\ reset' = FALSE /\ resetShow' = TRUE
  /\ Go(t, "idle")
  /\ UNCHANGED <<infoInputs, infoPass, resetDirty, owed, hidden>>

EpicsShows ==
  /\ resetShow /\ pushing["epics"] = "idle" /\ resetShow' = FALSE
  /\ UNCHANGED <<infoInputs, infoPass, reset, resetDirty, pushing, owed, hidden>>

PushStep(t) == PushReads(t) \/ PushResets(t) \/ PushTests(t) \/ PushStores(t)

InfoNext ==
  \/ ReadPassBegins \/ update
  \/ StateChanges \/ QueueChanges
  \/ \E b \in BOOLEAN : PutReset(b)
  \/ PlcPush \/ WritePassPushes \/ EpicsShows
  \/ \E t \in Pushers : PushStep(t)

---------------------------------------------------------------------------
(* Properties                                                              *)

(* Between two updates the records that are parts of one fact agree: those *)
(* of the time stamp always, those of the ADS state unless the callback    *)
(* changed it after the update had begun.                                  *)
PartsAgree ==
  pending = <<>> =>
    /\ \A r, s \in DOMAIN data \cap TimeRecords : data[r] = data[s]
    /\ {"active", "state"} \subseteq DOMAIN data /\ data["state"] # None /\ ~swapped
         => data["state"] = ads /\ data["active"] = (ads = "RUN")

(* A TRUE that EPICS wrote is not lost: until the watermarks are reset it  *)
(* is stored, or a push has read it - unless a FALSE was on its way into   *)
(* the data value when it was written.                                     *)
ResetHonoured == owed => reset \/ hidden \/ \E t \in Pushers : pushing[t] = "reset"

=============================================================================
