----------------------------- MODULE DataValue -----------------------------
(***************************************************************************)
(* plc::DataValue: one value shared, without a lock, by the user side      *)
(* (EPICS) and the plc side (the ADS scanners).  Each side owns a dirty    *)
(* flag that says "the other side left something for you".                 *)
(*                                                                         *)
(* One action is one sequentially consistent access to an atomic member,   *)
(* so every interleaving of the calls of different threads is explored.    *)
(* A call that is refused before it changes anything is a stuttering step. *)
(***************************************************************************)
CONSTANTS UserThreads,  \* threads that call on behalf of EPICS
          PlcThreads,   \* threads that call on behalf of the PLC
          Values,       \* what the two sides write
          NoValue       \* the content of the storage before the first write

ASSUME ThreadsAssumption == UserThreads \cap PlcThreads = {}
ASSUME ValuesAssumption == NoValue \notin Values

Threads == UserThreads \cup PlcThreads
Sides == {"user", "plc"}
Side(t) == IF t \in UserThreads THEN "user" ELSE "plc"
Other(s) == IF s = "user" THEN "plc" ELSE "user"

(* The overload a write resolves to.  All of them raise the flag whatever  *)
(* the old value was, except string-to-wstring, which compares first.      *)
Overloads == {"template", "wstring"}

VARIABLES
  mydata,   \* the value
  myvalid,  \* the valid flag
  dirty,    \* dirty["user"] is myuserdirty, dirty["plc"] is myplcdirty
  pc,       \* pc[t]: the next atomic access of t's call, or "idle"
  arg,      \* arg[t]: what t is writing, how, and whether it differed
  known,    \* history: known[s] is the last value side s loaded or stored
  raced     \* history: raced[t], t's write overlaps one that can hide data

vars == <<mydata, myvalid, dirty, pc, arg, known, raced>>

PCs == {"idle", "load", "exchange", "valid", "dirty", "validdirty"}
Args == [v : Values \cup {NoValue}, how : Overloads, changed : BOOLEAN]
NoArg == [v |-> NoValue, how |-> "template", changed |-> FALSE]

TypeOK ==
  /\ mydata \in Values \cup {NoValue}
  /\ myvalid \in BOOLEAN
  /\ dirty \in [Sides -> BOOLEAN]
  /\ pc \in [Threads -> PCs]
  /\ arg \in [Threads -> Args]
  /\ known \in [Sides -> Values \cup {NoValue}]
  /\ raced \in [Threads -> BOOLEAN]

Init ==
  /\ mydata = NoValue
  /\ myvalid = FALSE
  /\ dirty = [s \in Sides |-> FALSE]
  /\ pc = [t \in Threads |-> "idle"]
  /\ arg = [t \in Threads |-> NoArg]
  /\ known = [s \in Sides |-> NoValue]
  /\ raced = [t \in Threads |-> FALSE]

---------------------------------------------------------------------------
(* Read: reset_and_read drops the reader's own flag, then loads.           *)

ClearDirty(t) ==
  /\ pc[t] = "idle"
  /\ dirty' = [dirty EXCEPT ![Side(t)] = FALSE]
  /\ pc' = [pc EXCEPT ![t] = "load"]
  /\ UNCHANGED <<mydata, myvalid, arg, known, raced>>

Load(t) ==
  /\ pc[t] = "load"
  /\ known' = [known EXCEPT ![Side(t)] = mydata]
  /\ pc' = [pc EXCEPT ![t] = "idle"]
  /\ UNCHANGED <<mydata, myvalid, dirty, arg, raced>>

---------------------------------------------------------------------------
(* Write: write_and_test refuses while the writer's own flag is up, else   *)
(* exchanges the value, then the valid flag, then raises the other's flag. *)

HidesDataFrom(t, u) ==
  \/ Side(u) # Side(t) /\ pc[u] \in {"valid", "dirty"}
  \/ Side(u) = Side(t) /\ pc[u] = "load"

(* Fault: the writer does not look at its own flag.                        *)
TestNothing(t, v, how) ==
  /\ pc[t] = "idle"
  /\ pc' = [pc EXCEPT ![t] = "exchange"]
  /\ arg' = [arg EXCEPT ![t] = [v |-> v, how |-> how, changed |-> FALSE]]
  /\ raced' = [raced EXCEPT ![t] = \E u \in Threads : HidesDataFrom(t, u)]
  /\ UNCHANGED <<mydata, myvalid, dirty, known>>

(* Fault: the valid flag is stored before the value.                       *)
TestMarksValid(t, v, how) ==
  /\ pc[t] = "idle"
  /\ ~dirty[Side(t)]
  /\ myvalid' = TRUE
  /\ pc' = [pc EXCEPT ![t] = "exchange"]
  /\ arg' = [arg EXCEPT ![t] = [v |-> v, how |-> how, changed |-> FALSE]]
  /\ raced' = [raced EXCEPT ![t] = \E u \in Threads : HidesDataFrom(t, u)]
  /\ UNCHANGED <<mydata, dirty, known>>

TestPending(t, v, how) ==
  /\ pc[t] = "idle"
  /\ ~dirty[Side(t)]
  /\ pc' = [pc EXCEPT ![t] = "exchange"]
  /\ arg' = [arg EXCEPT ![t] = [v |-> v, how |-> how, changed |-> FALSE]]
  /\ raced' = [raced EXCEPT ![t] = \E u \in Threads : HidesDataFrom(t, u)]
  /\ UNCHANGED <<mydata, myvalid, dirty, known>>

(* Fault: the exchange stores the request in place of the value.           *)
ExchangeRequest(t) ==
  /\ pc[t] = "exchange"
  /\ mydata' = arg[t]
  /\ pc' = [pc EXCEPT ![t] = "valid"]
  /\ UNCHANGED <<myvalid, dirty, arg, known, raced>>

Exchange(t) ==
  /\ pc[t] = "exchange"
  /\ mydata' = arg[t].v
  /\ arg' = [arg EXCEPT ![t] = [v |-> NoValue, how |-> arg[t].how,
                               changed |-> mydata # arg[t].v]]
  /\ known' = [known EXCEPT ![Side(t)] = arg[t].v]
  /\ pc' = [pc EXCEPT ![t] = "valid"]
  /\ raced' = [u \in Threads |->
                 /\ u # t
                 /\ raced[u] \/ (Side(u) # Side(t) /\ pc[u] = "exchange")]
  /\ UNCHANGED <<myvalid, dirty>>

MustNotify(t) == arg[t].how = "template" \/ arg[t].changed

(* Fault: the other side is told only of a value that becomes valid.       *)
StoreNotifiesOnce(t) ==
  /\ pc[t] = "valid"
  /\ myvalid' = TRUE
  /\ IF ~myvalid
     THEN pc' = [pc EXCEPT ![t] = "dirty"] /\ UNCHANGED arg
     ELSE pc' = [pc EXCEPT ![t] = "idle"] /\ arg' = [arg EXCEPT ![t] = NoArg]
  /\ UNCHANGED <<mydata, dirty, known, raced>>

StoreValid(t) ==
  /\ pc[t] = "valid"
  /\ myvalid' = TRUE
  /\ IF MustNotify(t)
     THEN pc' = [pc EXCEPT ![t] = "dirty"] /\ UNCHANGED arg
     ELSE pc' = [pc EXCEPT ![t] = "idle"] /\ arg' = [arg EXCEPT ![t] = NoArg]
  /\ UNCHANGED <<mydata, dirty, known, raced>>

(* Fault: the writer raises its own flag, not the other side's.            *)
RaiseOwnDirty(t) ==
  /\ pc[t] \in {"dirty", "validdirty"}
  /\ dirty' = [dirty EXCEPT ![Side(t)] = TRUE]
  /\ pc' = [pc EXCEPT ![t] = "idle"]
  /\ arg' = [arg EXCEPT ![t] = NoArg]
  /\ UNCHANGED <<mydata, myvalid, known, raced>>

RaiseDirty(t) ==
  /\ pc[t] \in {"dirty", "validdirty"}
  /\ dirty' = [dirty EXCEPT ![Other(Side(t))] = TRUE]
  /\ pc' = [pc EXCEPT ![t] = "idle"]
  /\ arg' = [arg EXCEPT ![t] = NoArg]
  /\ UNCHANGED <<mydata, myvalid, known, raced>>

---------------------------------------------------------------------------
(* UserSetValid is called on the plc side, PlcSetValid on the user side:   *)
(* the flag of the other side goes up when the validity changed.  The      *)
(* program only ever withdraws validity (tcComms.cpp, read_scanner).       *)

SetInvalid(t) ==
  /\ pc[t] = "idle"
  /\ myvalid' = FALSE
  /\ pc' = [pc EXCEPT ![t] = IF myvalid THEN "validdirty" ELSE "idle"]
  /\ UNCHANGED <<mydata, dirty, arg, known, raced>>

(* UserSetDirty and PlcSetDirty: the crawling update scanner's reminder.   *)
SetDirty(t) ==
  /\ pc[t] = "idle"
  /\ dirty' = [dirty EXCEPT ![Other(Side(t))] = TRUE]
  /\ UNCHANGED <<mydata, myvalid, pc, arg, known, raced>>

---------------------------------------------------------------------------
Step(t) ==
  \/ ClearDirty(t)
  \/ Load(t)
  \/ \E v \in Values, how \in Overloads : TestPending(t, v, how)
  \/ Exchange(t)
  \/ StoreValid(t)
  \/ RaiseDirty(t)
  \/ SetInvalid(t)
  \/ SetDirty(t)

Next == \E t \in Threads : Step(t)

Spec == Init /\ [][Next]_vars

(* A call that has begun runs to its end, and a side whose flag is up      *)
(* reads: write_scanner tests PlcIsDirty of every record in every cycle,   *)
(* a push or the update scanner makes EPICS process the record.            *)
Finish(t) == Load(t) \/ Exchange(t) \/ StoreValid(t) \/ RaiseDirty(t)

AnswerFlag(s) == \E t \in Threads : Side(t) = s /\ dirty[s] /\ ClearDirty(t)

FairSpec ==
  /\ Spec
  /\ \A t \in Threads : WF_vars(Finish(t))
  /\ \A s \in Sides : SF_vars(AnswerFlag(s))

---------------------------------------------------------------------------
(* Somebody will still bring the present content to side s: its flag is    *)
(* up, one of its readers has yet to load, or a writer on the other side   *)
(* has yet to raise the flag.                                              *)
Announced(s) ==
  \/ dirty[s]
  \/ \E t \in Threads :
       \/ Side(t) = s /\ pc[t] = "load"
       \/ Side(t) # s /\ pc[t] = "dirty"
       \/ Side(t) # s /\ pc[t] = "valid" /\ MustNotify(t)

(* No update is missed: whenever a side's latest knowledge differs from    *)
(* the stored value, that value is still announced to it.  It rests on the *)
(* order "drop the flag, then load" in reset_and_read and "store, then     *)
(* raise the flag" in write_and_test.                                      *)
NoMissedUpdate == \A s \in Sides : known[s] # mydata => Announced(s)

(* A write that passed the test of its own flag destroys a value its side  *)
(* has not seen only when it overlaps the write of that value, or a read   *)
(* of it on its own side: calls that do not overlap never lose a value.    *)
OverwriteOnlyInRace ==
  \A t \in Threads :
    pc[t] = "exchange" /\ known[Side(t)] # mydata => raced[t]

(* A value marked valid has been written: write_and_test stores the value  *)
(* before it stores the valid flag, so no reader that checks IsValid first *)
(* can load the content the storage was created with.                      *)
ValidMeansWritten == myvalid => mydata # NoValue

(* Every value that stays long enough reaches the other side, and each     *)
(* side catches up with the stored value again and again.                  *)
EventuallyKnown == \A s \in Sides : known[s] # mydata ~> known[s] = mydata

(* What a data value promises, and that this protocol keeps it.            *)
Abstract == INSTANCE Handover WITH slot <- mydata
HandoverSpec == Abstract!FairSpec
=============================================================================
