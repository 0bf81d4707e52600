--------------------------- MODULE ScannersProofs ---------------------------
(***************************************************************************)
(* For any number of records, requests and any two multiples: the          *)
(* countdown serves every record in time, and a read does not undo a       *)
(* write.                                                                  *)
(***************************************************************************)
EXTENDS Scanners, TLAPS

(* What Count counts with.                                                 *)
CountTypes ==
  /\ cyclesLeft \in Nat /\ waited \in [Records \cup {Infos} -> Nat]
  /\ cyclesLeft <= default_multiple \/ cyclesLeft < scanRateMultiple

(* A record that waits is served when the countdown is over: the passes it *)
(* has waited and those to come are one round.                             *)
OneRound ==
  \A r \in Records :
    \/ waited[r] + cyclesLeft <= default_multiple
    \/ waited[r] + cyclesLeft < scanRateMultiple

(* Info records were served in the pass that ended the countdown.          *)
InfosOneRound ==
  IF cyclesLeft = 0 THEN waited[Infos] = 0
  ELSE \/ waited[Infos] + cyclesLeft <= default_multiple
       \/ waited[Infos] + cyclesLeft <= scanRateMultiple

CountInv == CountTypes /\ OneRound /\ InfosOneRound

LEMMA CountStep == CountInv /\ [Next]_vars => CountInv'
<1> SUFFICES ASSUME CountInv, [Next]_vars PROVE CountInv'
  OBVIOUS
<1> USE NumbersAssumption DEF CountInv
<1>1. CASE Count
  <2>1. /\ Reset \in Nat \ {0} /\ cyclesLeft' = Reset - 1
        /\ Reset = IF cyclesLeft = 0 THEN scanRateMultiple ELSE cyclesLeft
    BY <1>1 DEF Count, CountTypes, Reset, readAll
  <2>2. ASSUME NEW x \in Records \cup {Infos}
        PROVE  /\ waited'[x] \in {0, waited[x] + 1}
               /\ x \in Records /\ cyclesLeft = 0 => waited'[x] = 0
               /\ x = Infos /\ Reset = 1 => waited'[x] = 0
    BY <1>1 DEF Count, readAll, CountTypes
  <2>3. CountTypes'
    <3>1. waited' \in [Records \cup {Infos} -> Nat]
      BY <1>1 DEF Count, CountTypes
    <3> QED
      BY <2>1, <3>1 DEF CountTypes
  <2>4. OneRound'
    BY <2>1, <2>2 DEF OneRound, CountTypes
  <2>5. InfosOneRound'
    <3>1. waited[Infos] \in Nat /\ waited'[Infos] \in {0, waited[Infos] + 1}
      BY <2>2 DEF CountTypes
    <3>2. CASE Reset = 1
      BY <2>1, <2>2, <3>2 DEF InfosOneRound
    <3>3. CASE Reset # 1
      BY <2>1, <3>1, <3>3 DEF InfosOneRound, CountTypes
    <3> QED
      BY <3>2, <3>3
  <2> QED
    BY <2>3, <2>4, <2>5
<1>2. CASE UNCHANGED <<cyclesLeft, waited>>
  BY <1>2 DEF CountTypes, OneRound, InfosOneRound
<1>3. [Next]_vars => Count \/ UNCHANGED <<cyclesLeft, waited>>
  BY DEF Next, UserWrite, PlcAssigns, LinkChanges, ReadBegins, ReadStep, Request,
         PlcWriteRefused, PlcWriteTest, PlcWriteStore, UserSetValid, ReadEnds, WriteBegins,
         WriteStep, WriteEnds, Send, SendFails, PassOver, Collect, vars, history, readVars
<1> QED
  BY <1>1, <1>2, <1>3

(* read_scanner: no record waits longer than a round for its update,       *)
(* whatever the multiples and however many records there are.              *)
THEOREM EverybodyServed == Spec => []ServedInTime
<1>1. Init => CountInv
  BY NumbersAssumption DEF Init, CountInv, CountTypes, OneRound, InfosOneRound
<1>2. CountInv => ServedInTime
  <2> SUFFICES ASSUME CountInv, NEW x \in Records \cup {Infos}
               PROVE  waited[x] <= default_multiple \/ waited[x] < scanRateMultiple
    BY DEF ServedInTime
  <2> USE NumbersAssumption DEF CountInv, CountTypes
  <2>1. CASE x \in Records
    BY <2>1 DEF OneRound
  <2>2. CASE x = Infos
    BY <2>2 DEF InfosOneRound
  <2> QED
    BY <2>1, <2>2
<1> QED
  BY <1>1, <1>2, CountStep, PTL DEF Spec

---------------------------------------------------------------------------
(* TcPLC::sync keeps the passes apart, and nothing is stored but in the    *)
(* last part of a read pass.                                               *)
Apart ==
  /\ reader # "idle" => sync = "read"
  /\ writer # "idle" => sync = "write"
  /\ storing # Nobody => reader = "update"

(* What EPICS wrote after it was read in this pass is still dirty: nobody  *)
(* collects it before the pass is over.                                    *)
StillDirty ==
  reader # "idle" => \A r \in written : requestNum[r] \in fresh => r \in dirty

(* What is being stored was not written since it was read, or it was       *)
(* written since it passed the test.                                       *)
StoresRecent ==
  \A r \in written \cap storing : requestNum[r] \in fresh => raced

OrderInv == Apart /\ StillDirty /\ StoresRecent

LEMMA ApartStep == Apart /\ [Next]_vars => Apart'
<1> SUFFICES ASSUME Apart, [Next]_vars PROVE Apart'
  OBVIOUS
<1> USE DEF Apart, Nobody
<1>1. CASE ReadBegins \/ Request \/ Count \/ ReadEnds
  BY <1>1 DEF ReadBegins, Request, Count, ReadEnds, UpdateNext, writeVars
<1>2. ASSUME NEW r \in Records,
             PlcWriteRefused(r) \/ PlcWriteTest(r) \/ PlcWriteStore(r) \/ UserSetValid(r)
      PROVE  Apart'
  BY <1>2 DEF PlcWriteRefused, PlcWriteTest, PlcWriteStore, UserSetValid, UpdateNext, writeVars
<1>3. CASE WriteBegins \/ Send \/ SendFails
  BY <1>3 DEF WriteBegins, Send, SendFails, WriteEnds, readVars
<1>4. ASSUME NEW r \in Records, PassOver(r) \/ Collect(r) PROVE Apart'
  BY <1>4 DEF PassOver, Collect, readVars
<1>5. CASE \/ LinkChanges \/ UNCHANGED vars
           \/ \E r \in Records, v \in Values : UserWrite(r, v) \/ PlcAssigns(r, v)
  BY <1>5 DEF LinkChanges, UserWrite, PlcAssigns, vars, readVars, writeVars
<1> QED
  BY <1>1, <1>2, <1>3, <1>4, <1>5 DEF Next, ReadStep, WriteStep

LEMMA OrderStep == OrderInv /\ [Next]_vars => OrderInv'
<1> SUFFICES ASSUME OrderInv, [Next]_vars PROVE StillDirty' /\ StoresRecent'
  BY ApartStep DEF OrderInv
<1> USE DEF OrderInv, Apart, StillDirty, StoresRecent, Nobody
<1>1. CASE ReadBegins
  BY <1>1 DEF ReadBegins, dataVars
<1>2. CASE Request
  BY <1>2 DEF Request, dataVars
<1>3. CASE Count \/ ReadEnds
  BY <1>3 DEF Count, ReadEnds, UpdateNext, dataVars, history
<1>4. ASSUME NEW r \in Records, PlcWriteTest(r) PROVE StillDirty' /\ StoresRecent'
  BY <1>4 DEF PlcWriteTest, UpdateNext, dataVars
<1>5. ASSUME NEW r \in Records, PlcWriteRefused(r) \/ PlcWriteStore(r) \/ UserSetValid(r)
      PROVE  StillDirty' /\ StoresRecent'
  BY <1>5 DEF PlcWriteRefused, PlcWriteStore, UserSetValid, UpdateNext, dataVars, history
<1>6. CASE WriteBegins \/ Send \/ SendFails
  BY <1>6 DEF WriteBegins, Send, SendFails, WriteEnds, dataVars, readVars, history
<1>7. ASSUME NEW r \in Records, PassOver(r) \/ Collect(r) PROVE StillDirty' /\ StoresRecent'
  BY <1>7 DEF PassOver, Collect, Visit, dataVars, readVars, history
<1>8. ASSUME NEW r \in Records, NEW v \in Values, UserWrite(r, v)
      PROVE  StillDirty' /\ StoresRecent'
  BY <1>8 DEF UserWrite, readVars
<1>9. CASE LinkChanges \/ UNCHANGED vars \/ \E r \in Records, v \in Values : PlcAssigns(r, v)
  BY <1>9 DEF LinkChanges, PlcAssigns, vars, dataVars, readVars, history
<1> QED
  BY <1>1, <1>2, <1>3, <1>4, <1>5, <1>6, <1>7, <1>8, <1>9 DEF Next, ReadStep, WriteStep

(* The read scanner's test of the dirty flag and the mutex: a value that   *)
(* EPICS wrote is not overwritten by an older one, unless EPICS wrote it   *)
(* between the test and the store or its own request failed.               *)
THEOREM WritesNotUndone == Spec => NeverUndone
<1>1. Init => OrderInv
  BY DEF Init, OrderInv, Apart, StillDirty, StoresRecent, Nobody
<1>2. OrderInv /\ [Next]_vars =>
        [\A r \in written : PlcWriteStore(r) => raced \/ requestNum[r] \notin fresh]_vars
  BY DEF OrderInv, StoresRecent, PlcWriteStore
<1> QED
  BY <1>1, <1>2, OrderStep, PTL DEF Spec, NeverUndone
=============================================================================
