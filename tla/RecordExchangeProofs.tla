------------------------ MODULE RecordExchangeProofs ------------------------
(***************************************************************************)
(* A record never diverges silently from its data value, and no wake-up of *)
(* EPICS is lost but in a callback ring that was full: for any values, any *)
(* ring and any number of puts, changes and failures.                      *)
(*                                                                         *)
(* NoLostWakeup carries itself: whoever raises the flag of the EPICS side  *)
(* is on its way to a push.  ShowsDataValue has to be said of a write too: *)
(* once EPICS has exchanged the value it wrote, VAL is the data value or   *)
(* the PLC side has stored another since and will announce it.             *)
(***************************************************************************)
EXTENDS RecordExchange, TLAPS

Types ==
  /\ at \in [Threads -> Places]
  /\ dirty \in [DV!Sides -> BOOLEAN]
  /\ pc \in [Threads -> DV!PCs]
  /\ DOMAIN arg = Threads
  /\ ring \in 0..RingSize

Announced == DV!Announced("user")

(* VAL is the data value when EPICS is idle or has stored what it writes.  *)
Shown ==
  at["epics"] = "idle" \/ (at["epics"] = "storing" /\ pc["epics"] # "exchange")
    => Announced \/ val = mydata

(* Until then it writes VAL.                                               *)
WritesVal == at["epics"] = "storing" /\ pc["epics"] = "exchange" => arg["epics"].v = val

(* What the read scanner stores it announces.                              *)
ScanNotifies == pc["scan"] = "exchange" => arg["scan"].how = "template"

ExchangeInv == Types /\ NoLostWakeup /\ Shown /\ WritesVal /\ ScanNotifies

---------------------------------------------------------------------------
(* The threads and their sides.                                            *)
LEMMA ThreadFacts ==
  /\ DV!Threads = Threads
  /\ DV!Side("epics") = "user" /\ DV!Side("scan") = "plc" /\ DV!Side("update") = "plc"
  /\ DV!Other("user") = "plc" /\ DV!Other("plc") = "user"
  /\ DV!Sides = {"user", "plc"}
  BY DEF DV!Threads, Threads, DV!Side, DV!Other, DV!Sides

(* Who announces the data value to EPICS.                                  *)
LEMMA AnnouncedBy ==
  Announced <=> \/ dirty["user"] \/ pc["epics"] = "load"
                \/ pc["scan"] = "dirty" \/ (pc["scan"] = "valid" /\ DV!MustNotify("scan"))
                \/ pc["update"] = "dirty" \/ (pc["update"] = "valid" /\ DV!MustNotify("update"))
  BY ThreadFacts DEF Announced, DV!Announced, Threads

LEMMA AnnouncedByNext ==
  Announced' <=> \/ dirty'["user"] \/ pc'["epics"] = "load"
                 \/ pc'["scan"] = "dirty" \/ (pc'["scan"] = "valid" /\ DV!MustNotify("scan")')
                 \/ pc'["update"] = "dirty" \/ (pc'["update"] = "valid" /\ DV!MustNotify("update")')
  BY ThreadFacts DEF Announced, DV!Announced, Threads

LEMMA InvInit == Init => ExchangeInv
<1>. SUFFICES ASSUME Init PROVE ExchangeInv
  OBVIOUS
<1>. USE DEF Init, DV!Init
<1>1. at = [t \in Threads |-> "idle"] /\ pc = [t \in Threads |-> "idle"]
      /\ dirty = [s \in DV!Sides |-> FALSE]
  BY ThreadFacts
<1>2. Types
  BY <1>1, BoundsAssumption, ThreadFacts DEF Types, Places, DV!PCs
<1>3. NoLostWakeup
  BY <1>1, ThreadFacts DEF NoLostWakeup
<1>4. Shown /\ WritesVal /\ ScanNotifies
  BY <1>1 DEF Shown, WritesVal, ScanNotifies, Threads
<1>. QED BY <1>2, <1>3, <1>4 DEF ExchangeInv

---------------------------------------------------------------------------
(* EPICS' steps that leave the data value alone.                           *)
LEMMA EpicsMoves ==
  ASSUME ExchangeInv,
         \/ \E v \in Values : Put(v)
         \/ RunCallback \/ Branch \/ CheckValid \/ UserWriteRefused
  PROVE  ExchangeInv'
<1>. USE DEF ExchangeInv
<1>1. PICK place \in Places : at' = [at EXCEPT !["epics"] = place]
  BY DEF Put, RunCallback, Branch, CheckValid, UserWriteRefused, Go, Places
<1>2. at'["epics"] = place /\ at'["scan"] = at["scan"] /\ at'["update"] = at["update"]
  BY <1>1 DEF Types, Threads
<1>3. UNCHANGED <<mydata, dirty, pc, arg>>
  BY DEF Put, RunCallback, Branch, CheckValid, UserWriteRefused, dvars
<1>4. Types'
  <2>1. ring' \in 0..RingSize
    <3>1. UNCHANGED ring \/ (ring > 0 /\ ring' = ring - 1)
      BY DEF Put, RunCallback, Branch, CheckValid, UserWriteRefused
    <3>. QED BY <3>1, BoundsAssumption DEF Types
  <2>. QED BY <1>1, <1>3, <2>1 DEF Types
<1>5. NoLostWakeup'
  <2>. SUFFICES ASSUME dirty["user"] PROVE NoLostWakeup'
    BY <1>3 DEF NoLostWakeup
  <2>1. ring > 0 \/ dropped \/ at["scan"] = "push" \/ at["update"] = "push"
        \/ at["epics"] \in {"branch", "validity", "read"}
    BY DEF NoLostWakeup
  <2>2. CASE RunCallback
    BY <1>2, <2>2 DEF RunCallback, Go, NoLostWakeup, Types, Threads
  <2>3. CASE Branch
    BY <2>3 DEF Branch, Go, NoLostWakeup, Types, Threads
  <2>4. CASE CheckValid
    BY <2>4 DEF CheckValid, Go, NoLostWakeup, Types, Threads
  <2>5. CASE UserWriteRefused
    BY <1>2, <2>1, <2>5 DEF UserWriteRefused, NoLostWakeup
  <2>6. CASE \E v \in Values : Put(v)
    BY <1>2, <2>1, <2>6 DEF Put, NoLostWakeup
  <2>. QED BY <2>2, <2>3, <2>4, <2>5, <2>6
<1>6. at'["epics"] # "storing" /\ (at'["epics"] = "idle" => dirty["user"])
  BY <1>1, <1>2 DEF Put, RunCallback, Branch, CheckValid, UserWriteRefused, Go, Types, Threads
<1>7. Shown' /\ WritesVal' /\ ScanNotifies'
  BY <1>3, <1>6, AnnouncedByNext DEF Shown, WritesVal, ScanNotifies
<1>. QED BY <1>4, <1>5, <1>7

(* EPICS reads: it lowers its flag, and VAL becomes the data value.        *)
LEMMA EpicsReads ==
  ASSUME ExchangeInv, UserReadClear \/ UserReadLoad
  PROVE  ExchangeInv'
<1>. USE ThreadFacts DEF ExchangeInv
<1>1. CASE UserReadClear
  <2>1. /\ at["epics"] = "read" /\ at' = [at EXCEPT !["epics"] = "load"]
        /\ dirty' = [dirty EXCEPT !["user"] = FALSE] /\ pc' = [pc EXCEPT !["epics"] = "load"]
        /\ UNCHANGED <<arg, ring>>
    BY <1>1 DEF UserReadClear, DV!ClearDirty, Go
  <2>2. Types'
    BY <2>1 DEF Types, Places, DV!PCs
  <2>3. /\ at'["epics"] = "load" /\ ~dirty'["user"] /\ pc'["scan"] = pc["scan"]
    BY <2>1 DEF Types, Threads
  <2>. QED BY <2>1, <2>2, <2>3 DEF NoLostWakeup, Shown, WritesVal, ScanNotifies
<1>2. CASE UserReadLoad
  <2>1. /\ at["epics"] = "load" /\ at' = [at EXCEPT !["epics"] = "idle"]
        /\ pc' = [pc EXCEPT !["epics"] = "idle"] /\ val' = mydata
        /\ UNCHANGED <<mydata, dirty, arg, ring, dropped>>
    BY <1>2 DEF UserReadLoad, DV!Load, Go
  <2>2. Types'
    BY <2>1 DEF Types, Places, DV!PCs
  <2>3. /\ at'["epics"] = "idle" /\ at'["scan"] = at["scan"] /\ at'["update"] = at["update"]
        /\ pc'["scan"] = pc["scan"]
    BY <2>1 DEF Types, Threads
  <2>4. NoLostWakeup'
    BY <2>1, <2>3 DEF NoLostWakeup
  <2>. QED BY <2>1, <2>2, <2>3, <2>4 DEF Shown, WritesVal, ScanNotifies
<1>. QED BY <1>1, <1>2

(* EPICS writes VAL; whatever the PLC side stores after it is announced.   *)
LEMMA EpicsWrites ==
  ASSUME ExchangeInv, UserWriteTest \/ UserWriteStore \/ UserWriteDone
  PROVE  ExchangeInv'
<1>. USE ThreadFacts DEF ExchangeInv
<1>1. CASE UserWriteTest
  <2>1. /\ at["epics"] = "write" /\ at' = [at EXCEPT !["epics"] = "storing"]
        /\ pc' = [pc EXCEPT !["epics"] = "exchange"]
        /\ arg' = [arg EXCEPT !["epics"] = [v |-> val, how |-> "template", changed |-> FALSE]]
        /\ UNCHANGED <<mydata, dirty, ring, dropped, val>>
    BY <1>1 DEF UserWriteTest, DV!TestPending, Go, epicsVars
  <2>2. Types'
    BY <2>1 DEF Types, Places, DV!PCs
  <2>3. /\ at'["epics"] = "storing" /\ at'["scan"] = at["scan"] /\ at'["update"] = at["update"]
        /\ pc'["epics"] = "exchange" /\ pc'["scan"] = pc["scan"]
        /\ arg'["epics"].v = val /\ arg'["scan"] = arg["scan"]
    BY <2>1 DEF Types, Threads
  <2>4. NoLostWakeup'
    BY <2>1, <2>3 DEF NoLostWakeup
  <2>. QED BY <2>1, <2>2, <2>3, <2>4 DEF Shown, WritesVal, ScanNotifies
<1>2. CASE UserWriteStore /\ DV!Exchange("epics")
  <2>1. /\ at["epics"] = "storing" /\ pc["epics"] = "exchange"
        /\ mydata' = arg["epics"].v /\ pc' = [pc EXCEPT !["epics"] = "valid"]
        /\ arg' = [arg EXCEPT !["epics"] = arg'["epics"]]
        /\ UNCHANGED <<at, dirty, ring, dropped, val>>
    BY <1>2 DEF UserWriteStore, DV!Exchange, epicsVars, Types, Threads
  <2>2. Types'
    BY <2>1 DEF Types, DV!PCs
  <2>3. pc'["epics"] = "valid" /\ pc'["scan"] = pc["scan"] /\ arg'["scan"] = arg["scan"]
    BY <2>1 DEF Types, Threads
  <2>4. val = mydata'
    BY <2>1 DEF WritesVal
  <2>. QED BY <2>1, <2>2, <2>3, <2>4 DEF NoLostWakeup, Shown, WritesVal, ScanNotifies
<1>3. CASE (UserWriteStore /\ DV!StoreValid("epics")) \/ UserWriteDone
  <2>1. PICK p \in {"dirty", "idle"}, place \in {"storing", "idle"} :
          /\ at["epics"] = "storing" /\ at' = [at EXCEPT !["epics"] = place]
          /\ pc["epics"] \in {"valid", "dirty", "validdirty"} /\ pc' = [pc EXCEPT !["epics"] = p]
    <3>1. CASE UserWriteStore /\ DV!StoreValid("epics")
      <4>1. at' = [at EXCEPT !["epics"] = "storing"]
        BY <3>1 DEF UserWriteStore, Types, Threads
      <4>. QED BY <3>1, <4>1 DEF UserWriteStore, DV!StoreValid
    <3>2. CASE UserWriteDone
      BY <3>2 DEF UserWriteDone, DV!RaiseDirty, Go
    <3>. QED BY <1>3, <3>1, <3>2
  <2>2. /\ UNCHANGED <<mydata, ring, dropped, val>>
        /\ arg' = arg \/ arg' = [arg EXCEPT !["epics"] = DV!NoArg]
        /\ dirty' = dirty \/ dirty' = [dirty EXCEPT !["plc"] = TRUE]
    BY <1>3 DEF UserWriteStore, UserWriteDone, DV!StoreValid, DV!RaiseDirty, epicsVars
  <2>3. Types'
    BY <2>1, <2>2 DEF Types, Places, DV!PCs
  <2>4. /\ at'["epics"] = place /\ at'["scan"] = at["scan"] /\ at'["update"] = at["update"]
        /\ pc'["epics"] = p /\ pc'["scan"] = pc["scan"] /\ pc'["update"] = pc["update"]
        /\ arg'["scan"] = arg["scan"] /\ arg'["update"] = arg["update"]
        /\ dirty'["user"] = dirty["user"]
    BY <2>1, <2>2 DEF Types, Threads
  <2>5. NoLostWakeup'
    BY <2>1, <2>2, <2>4 DEF NoLostWakeup
  <2>6. Announced \/ val = mydata
    BY <2>1 DEF Shown
  <2>7. Announced => Announced'
    BY <2>1, <2>4, AnnouncedBy, AnnouncedByNext DEF DV!MustNotify
  <2>. QED BY <2>2, <2>3, <2>4, <2>5, <2>6, <2>7 DEF Shown, WritesVal, ScanNotifies
<1>. QED BY <1>1, <1>2, <1>3 DEF UserWriteStore

---------------------------------------------------------------------------
(* The PLC side's steps that leave the data value and its flags alone.     *)
LEMMA PlcMoves ==
  ASSUME ExchangeInv,
         \/ Push("scan") \/ Push("update") \/ ReadPlc \/ ReadFails \/ PlcWriteRefused
         \/ PlcIsDirty \/ SendOk \/ SendFails
  PROVE  ExchangeInv'
<1>. USE DEF ExchangeInv
<1>1. PICK t \in {"scan", "update"}, place \in Places : at' = [at EXCEPT ![t] = place]
  BY DEF Push, ReadPlc, ReadFails, PlcWriteRefused, PlcIsDirty, SendOk, SendFails, Go, Places
<1>2. UNCHANGED <<mydata, dirty, pc, arg, val>>
  BY DEF Push, ReadPlc, ReadFails, PlcWriteRefused, PlcIsDirty, SendOk, SendFails, dvars,
         epicsVars
<1>3. Types'
  <2>1. ring' \in 0..RingSize
    <3>1. CASE Push("scan") \/ Push("update")
      <4>1. ring' = ring \/ ring' = IF ring < RingSize THEN ring + 1 ELSE ring
        BY <3>1 DEF Push
      <4>. QED BY <4>1, BoundsAssumption DEF Types
    <3>2. CASE ~(Push("scan") \/ Push("update"))
      BY <3>2 DEF Types, ReadPlc, ReadFails, PlcWriteRefused, PlcIsDirty, SendOk, SendFails
    <3>. QED BY <3>1, <3>2
  <2>. QED BY <1>1, <1>2, <2>1 DEF Types, Threads
<1>4. at'["epics"] = at["epics"] /\ \A u \in Threads \ {t} : at'[u] = at[u]
  BY <1>1 DEF Types, Threads
<1>5. NoLostWakeup'
  <2>1. CASE Push("scan") \/ Push("update")
    <3>1. dirty["user"] => ring' > 0 \/ dropped'
      BY <2>1, BoundsAssumption DEF Push, Types
    <3>. QED BY <1>2, <3>1 DEF NoLostWakeup
  <2>2. CASE ~(Push("scan") \/ Push("update"))
    <3>1. at["scan"] # "push" /\ at' = [at EXCEPT !["scan"] = at'["scan"]] /\ UNCHANGED <<ring, dropped>>
      BY <2>2 DEF ReadPlc, ReadFails, PlcWriteRefused, PlcIsDirty, SendOk, SendFails, Go,
                  Types, Threads
    <3>2. at'["update"] = at["update"]
      BY <3>1 DEF Types, Threads
    <3>. QED BY <1>2, <1>4, <3>1, <3>2 DEF NoLostWakeup
  <2>. QED BY <2>1, <2>2
<1>6. Announced' <=> Announced
  BY <1>2, AnnouncedBy, AnnouncedByNext DEF DV!MustNotify
<1>7. Shown' /\ WritesVal' /\ ScanNotifies'
  BY <1>2, <1>4, <1>6 DEF Shown, WritesVal, ScanNotifies
<1>. QED BY <1>3, <1>5, <1>7

(* Its steps on the data value.                                            *)
LEMMA PlcAccess ==
  ASSUME ExchangeInv,
         \/ PlcWriteTest \/ PlcWriteStore \/ PlcWriteDone \/ Invalidate
         \/ PlcReadClear \/ PlcReadLoad \/ Remind
  PROVE  ExchangeInv'
<1>. USE ThreadFacts DEF ExchangeInv
<1>1. PICK t \in {"scan", "update"}, p \in DV!PCs, place \in Places :
        pc' = [pc EXCEPT ![t] = p] /\ at' = [at EXCEPT ![t] = place]
  <2>1. CASE PlcWriteStore \/ PlcReadClear
    <3>1. at' = [at EXCEPT !["scan"] = at["scan"]] /\ at["scan"] \in Places
      BY <2>1 DEF PlcWriteStore, PlcReadClear, Types, Threads
    <3>2. \E p \in DV!PCs : pc' = [pc EXCEPT !["scan"] = p]
      BY <2>1 DEF PlcWriteStore, PlcReadClear, DV!Exchange, DV!StoreValid, DV!ClearDirty, DV!PCs
    <3>. QED BY <3>1, <3>2
  <2>2. CASE Remind
    <3>1. pc' = [pc EXCEPT !["update"] = pc["update"]] /\ pc["update"] \in DV!PCs
      BY <2>2 DEF Remind, DV!SetDirty, Types, Threads
    <3>. QED BY <2>2, <3>1 DEF Remind, Go, Places
  <2>3. CASE PlcWriteTest \/ PlcWriteDone \/ Invalidate \/ PlcReadLoad
    <3>1. \E place \in Places : at' = [at EXCEPT !["scan"] = place]
      BY <2>3 DEF PlcWriteTest, PlcWriteDone, Invalidate, PlcReadLoad, Go, Places
    <3>2. \E p \in DV!PCs : pc' = [pc EXCEPT !["scan"] = p]
      BY <2>3 DEF PlcWriteTest, PlcWriteDone, Invalidate, PlcReadLoad, DV!TestPending,
                  DV!RaiseDirty, DV!SetInvalid, DV!Load, DV!PCs
    <3>. QED BY <3>1, <3>2
  <2>. QED BY <2>1, <2>2, <2>3
<1>2. /\ pc'["epics"] = pc["epics"] /\ at'["epics"] = at["epics"]
  BY <1>1 DEF Types, Threads
<1>3. UNCHANGED <<val, ring, dropped>>
  BY DEF PlcWriteTest, PlcWriteStore, PlcWriteDone, Invalidate, PlcReadClear, PlcReadLoad,
         Remind, epicsVars
<1>4. DOMAIN arg' = Threads /\ arg'["epics"] = arg["epics"]
  BY DEF PlcWriteTest, PlcWriteStore, PlcWriteDone, Invalidate, PlcReadClear, PlcReadLoad,
         Remind, DV!TestPending, DV!Exchange, DV!StoreValid, DV!RaiseDirty, DV!SetInvalid,
         DV!ClearDirty, DV!Load, DV!SetDirty, Types, Threads
<1>5. \/ UNCHANGED dirty
      \/ dirty' = [dirty EXCEPT !["plc"] = FALSE]
      \/ dirty' = [dirty EXCEPT !["user"] = TRUE] /\ (PlcWriteDone \/ Remind)
  BY DEF PlcWriteTest, PlcWriteStore, PlcWriteDone, Invalidate, PlcReadClear, PlcReadLoad,
         Remind, DV!TestPending, DV!Exchange, DV!StoreValid, DV!RaiseDirty, DV!SetInvalid,
         DV!ClearDirty, DV!Load, DV!SetDirty
<1>6. Types'
  BY <1>1, <1>3, <1>4, <1>5 DEF Types, Threads
<1>7. dirty["user"] => dirty'["user"]
  BY <1>5 DEF Types
<1>8. NoLostWakeup'
  <2>1. CASE PlcWriteDone \/ Remind
    <3>1. at'["scan"] = "push" \/ at'["update"] = "push"
      BY <2>1 DEF PlcWriteDone, Remind, Go, Types, Threads
    <3>. QED BY <3>1 DEF NoLostWakeup
  <2>2. CASE ~(PlcWriteDone \/ Remind)
    <3>1. at["scan"] # "push" /\ at' = [at EXCEPT !["scan"] = at'["scan"]]
      BY <2>2 DEF PlcWriteTest, PlcWriteStore, Invalidate, PlcReadClear, PlcReadLoad, Go,
                  Types, Threads
    <3>2. at'["update"] = at["update"]
      BY <3>1 DEF Types, Threads
    <3>3. dirty'["user"] = dirty["user"]
      BY <1>5, <2>2 DEF Types
    <3>. QED BY <1>2, <1>3, <3>1, <3>2, <3>3 DEF NoLostWakeup
  <2>. QED BY <2>1, <2>2
<1>9. (Announced => Announced') /\ (UNCHANGED mydata \/ Announced') /\ ScanNotifies'
  <2>1. CASE Remind
    <3>1. dirty'["user"] /\ UNCHANGED <<mydata, pc, arg>>
      BY <2>1 DEF Remind, DV!SetDirty, Types
    <3>. QED BY <3>1, AnnouncedByNext DEF ScanNotifies
  <2>2. CASE PlcWriteDone
    <3>1. dirty'["user"] /\ UNCHANGED mydata /\ pc'["scan"] = "idle"
      BY <2>2 DEF PlcWriteDone, DV!RaiseDirty, Types, Threads
    <3>. QED BY <3>1, AnnouncedByNext DEF ScanNotifies
  <2>3. CASE PlcWriteTest \/ Invalidate \/ PlcReadClear \/ PlcReadLoad
    <3>1. pc["scan"] \in {"idle", "load"} /\ UNCHANGED mydata
      BY <2>3 DEF PlcWriteTest, Invalidate, PlcReadClear, PlcReadLoad, DV!TestPending,
                  DV!SetInvalid, DV!ClearDirty, DV!Load
    <3>2. pc'["update"] = pc["update"] /\ arg'["update"] = arg["update"]
      BY <2>3 DEF PlcWriteTest, Invalidate, PlcReadClear, PlcReadLoad, DV!TestPending,
                  DV!SetInvalid, DV!ClearDirty, DV!Load, Types, Threads
    <3>3. pc'["scan"] = "exchange" => arg'["scan"].how = "template"
      BY <2>3 DEF PlcWriteTest, Invalidate, PlcReadClear, PlcReadLoad, DV!TestPending,
                  DV!SetInvalid, DV!ClearDirty, DV!Load, Types, Threads
    <3>4. Announced => Announced'
      BY <1>2, <1>7, <3>1, <3>2, AnnouncedBy, AnnouncedByNext DEF DV!MustNotify
    <3>. QED BY <3>1, <3>3, <3>4 DEF ScanNotifies
  <2>4. CASE PlcWriteStore
    <3>1. pc'["update"] = pc["update"] /\ arg'["update"] = arg["update"]
      BY <2>4 DEF PlcWriteStore, DV!Exchange, DV!StoreValid, Types, Threads
    <3>2. CASE DV!Exchange("scan")
      <4>1. pc["scan"] = "exchange" /\ pc'["scan"] = "valid" /\ arg'["scan"].how = arg["scan"].how
        BY <3>2 DEF DV!Exchange, Types, Threads
      <4>2. Announced'
        BY <4>1, AnnouncedByNext DEF ScanNotifies, DV!MustNotify
      <4>. QED BY <4>1, <4>2 DEF ScanNotifies
    <3>3. CASE DV!StoreValid("scan")
      <4>1. /\ pc["scan"] = "valid" /\ pc'["scan"] \in {"dirty", "idle"} /\ UNCHANGED mydata
            /\ DV!MustNotify("scan") => pc'["scan"] = "dirty"
        BY <3>3 DEF DV!StoreValid, Types, Threads
      <4>2. Announced => Announced'
        BY <1>2, <1>7, <3>1, <4>1, AnnouncedBy, AnnouncedByNext DEF DV!MustNotify
      <4>. QED BY <4>1, <4>2 DEF ScanNotifies
    <3>. QED BY <2>4, <3>2, <3>3 DEF PlcWriteStore
  <2>. QED BY <2>1, <2>2, <2>3, <2>4
<1>10. Shown' /\ WritesVal'
  BY <1>2, <1>3, <1>4, <1>9 DEF Shown, WritesVal
<1>. QED BY <1>6, <1>8, <1>9, <1>10

(* The PLC program and the link touch neither.                             *)
LEMMA OthersMove ==
  ASSUME ExchangeInv,
         (\E v \in Values : PlcChange(v)) \/ LinkDown \/ LinkUp \/ UNCHANGED vars
  PROVE  ExchangeInv'
<1>1. UNCHANGED <<mydata, dirty, pc, arg, val, at, ring, dropped>>
  BY DEF PlcChange, LinkDown, LinkUp, vars, dvars, epicsVars
<1>2. Announced' <=> Announced
  BY <1>1, AnnouncedBy, AnnouncedByNext DEF DV!MustNotify
<1>. QED BY <1>1, <1>2 DEF ExchangeInv, Types, NoLostWakeup, Shown, WritesVal, ScanNotifies

LEMMA InvNext == ExchangeInv /\ [Next]_vars => ExchangeInv'
<1>. SUFFICES ASSUME ExchangeInv, [Next]_vars PROVE ExchangeInv'
  OBVIOUS
<1>1. CASE (\E v \in Values : Put(v)) \/ Epics
  BY <1>1, EpicsMoves, EpicsReads, EpicsWrites DEF Epics
<1>2. CASE ScanStep \/ ReadPlc \/ ReadFails \/ PlcIsDirty \/ Remind \/ Push("update")
  BY <1>2, PlcMoves, PlcAccess DEF ScanStep
<1>3. CASE (\E v \in Values : PlcChange(v)) \/ LinkDown \/ LinkUp \/ UNCHANGED vars
  BY <1>3, OthersMove
<1>. QED BY <1>1, <1>2, <1>3 DEF Next

---------------------------------------------------------------------------
(* The inductive invariant of a record and its data value.                 *)
THEOREM Invariance == Spec => []ExchangeInv
  BY InvInit, InvNext, PTL DEF Spec

(* While a record is dirty for EPICS somebody is about to wake EPICS, or   *)
(* the callback ring was full at the last push.                            *)
THEOREM WakeupsKept == Spec => []NoLostWakeup
<1>1. ExchangeInv => NoLostWakeup
  BY DEF ExchangeInv
<1>. QED BY Invariance, <1>1, PTL

(* Between two processings VAL is the data value, or the data value is     *)
(* still announced to EPICS.                                               *)
THEOREM NoSilentDivergence == Spec => []ShowsDataValue
<1>1. ExchangeInv => ShowsDataValue
  BY DEF ExchangeInv, Shown, ShowsDataValue, Announced
<1>. QED BY Invariance, <1>1, PTL

=============================================================================
