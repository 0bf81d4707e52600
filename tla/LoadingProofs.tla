---------------------------- MODULE LoadingProofs ----------------------------
(***************************************************************************)
(* What holds before the scanners scan.                                    *)
(*                                                                         *)
(* The shell commands, for every set of files, options and rates and any   *)
(* number of loads: the options of a PLC are those said since the load     *)
(* before, every EPICS record is linked to the PLC it was generated for,   *)
(* and the program keeps its meaning - the last two as long as no two PLCs *)
(* have one address.  The strengthening says what the system of PLCs looks *)
(* like from the load on: a PLC the system refused has a namesake in it    *)
(* (PlcsRight), and each generated record knows a PLC of its address       *)
(* (DatabaseRight).                                                        *)
(*                                                                         *)
(* The records, for every declaration, all values of a variable and all    *)
(* sizes of a byte: a record with a limit has one severity for it, and a   *)
(* record that writes back what it shows does not change the PLC.          *)
(*                                                                         *)
(* The read requests, for every set of symbols and all limits: however     *)
(* optimizeRequests cuts a sorted list of symbols that share no memory,    *)
(* the buffer of a request holds every symbol that is read from it, and    *)
(* the requests keep their limits.                                         *)
(*                                                                         *)
(* The files of the database generation, for every list of calls that is   *)
(* in preorder, all substitutions and options: the records are split as    *)
(* they come, and the stack of structures puts each member into the macro  *)
(* file of its own structure (StackInv).                                   *)
(***************************************************************************)
EXTENDS IocLifecycle, ReadRequests, RecordValue, DbOutput, SequenceTheorems, FiniteSetTheorems,
        WellFoundedInduction, TLAPS

Addresses == {f.addr : f \in Files}
Variables == {InfoRecord} \cup (UNION {f.exports : f \in Files})
PlcOptions == [alias : Aliases \cup {None}, extras : SUBSET {"list", "macro"}, infoprefix : BOOLEAN]
Plc == [addr : Addresses, options : PlcOptions, said : PlcOptions, rate : Int, rateSaid : Int,
        recs : SUBSET Variables, threads : SUBSET Kinds,
        where : {"system", "destroyed", "leaked"}, scanners_active : BOOLEAN]

Types ==
  /\ options \in PlcOptions /\ scanrate \in Int /\ rateSaid \in Int
  /\ plcs \in Seq(Plc)

RateAsSaid(rate, rs) ==
  rs # 0 => /\ rate \in minimum_scanrate..maximum_scanrate
            /\ rs \in minimum_scanrate..maximum_scanrate => rate = rs

(* The options in effect are those said.                                   *)
OptionsAsSaid == options = said /\ RateAsSaid(scanrate, rateSaid)

PlcsRight ==
  \A id \in DOMAIN plcs :
    /\ plcs[id].where # "leaked" => optimizeRequests(plcs[id].recs)
    /\ plcs[id].where = "destroyed" => Named(plcs[id].addr) # {}

DatabaseRight ==
  \A e \in DOMAIN database :
    LET id == database[e].by IN
    id \in DOMAIN plcs /\ plcs[id].where # "leaked" /\ plcs[id].addr = database[e].addr

LinksKnown == phase \in {"run", "pause"} => \A e \in DOMAIN database : link[e] \in {0} \cup DOMAIN plcs

IocInv == /\ Types /\ OptionsAsSaid /\ LoadedAsSaid
          /\ PlcsRight /\ DatabaseRight /\ LinksKnown /\ LinksRight /\ MeaningKept

IocSpec == IocInit /\ [][IocNext]_iocVars

(* No step changes what a PLC is known by.                                 *)
Lasts ==
  \A id \in DOMAIN plcs :
    /\ id \in DOMAIN plcs'
    /\ plcs'[id].addr = plcs[id].addr /\ plcs'[id].where = plcs[id].where
    /\ plcs'[id].recs = plcs[id].recs

---------------------------------------------------------------------------
(* The steps by what they do to the system of PLCs.                        *)

LEMMA IocInvInit == IocInit => IocInv
<1>. SUFFICES ASSUME IocInit PROVE IocInv
  OBVIOUS
<1>1. plcs = <<>> /\ DOMAIN plcs = {} /\ DOMAIN database = {} /\ undefined = {}
  BY DEF IocInit
<1>2. options \in PlcOptions
  BY DEF IocInit, NoOptions, PlcOptions
<1>3. plcs \in Seq(Plc)
  <2>. HIDE DEF Plc
  <2>. QED BY <1>1
<1>4. Types
  BY <1>2, <1>3 DEF IocInit, Types, default_scanrate
<1>5. OptionsAsSaid
  BY DEF IocInit, OptionsAsSaid, RateAsSaid, default_scanrate, minimum_scanrate,
         maximum_scanrate
<1>. QED BY <1>1, <1>4, <1>5 DEF IocInv, LoadedAsSaid, PlcsRight, DatabaseRight, LinksKnown,
                                 LinksRight, MeaningKept

(* A command that only sets an option or the rate.                         *)
LEMMA OptionKeeps ==
  ASSUME IocInv, NEW field \in {"alias", "extras", "infoprefix"}, NEW value,
         [options EXCEPT ![field] = value] \in PlcOptions, SetOption(field, value)
  PROVE  Types' /\ OptionsAsSaid'
<1>1. /\ options' = IF Refused THEN options ELSE [options EXCEPT ![field] = value]
      /\ said' = IF Refused THEN said ELSE [said EXCEPT ![field] = value]
      /\ UNCHANGED <<scanrate, plcs, rateSaid>>
  BY DEF SetOption, sysVars
<1>2. options' \in PlcOptions /\ options' = said'
  BY <1>1 DEF IocInv, Types, OptionsAsSaid
<1>. QED BY <1>1, <1>2 DEF IocInv, Types, OptionsAsSaid

LEMMA LimitedIsSaid ==
  ASSUME NEW n \in Int
  PROVE  Limited(n) \in Int /\ RateAsSaid(Limited(n), n)
<1>1. CASE n < minimum_scanrate
  BY <1>1 DEF Limited, RateAsSaid, minimum_scanrate, maximum_scanrate
<1>2. CASE n > maximum_scanrate
  BY SMTT(30), <1>2 DEF Limited, RateAsSaid, minimum_scanrate, maximum_scanrate
<1>3. CASE n >= minimum_scanrate /\ n <= maximum_scanrate
  BY <1>3 DEF Limited, RateAsSaid, minimum_scanrate, maximum_scanrate
<1>. QED BY <1>1, <1>2, <1>3 DEF minimum_scanrate, maximum_scanrate

LEMMA RateKeeps ==
  ASSUME IocInv, NEW r \in Rates, tcSetScanRate(r)
  PROVE  Types' /\ OptionsAsSaid'
<1>1. /\ scanrate' = IF Refused THEN scanrate ELSE IF r.junk THEN r.value ELSE Limited(r.value)
      /\ rateSaid' = IF Refused THEN rateSaid ELSE IF r.junk THEN 0 ELSE r.value
      /\ UNCHANGED <<options, said, plcs>>
  BY DEF tcSetScanRate, sysVars
<1>2. r.value \in Int /\ r.junk \in BOOLEAN
  BY LifecycleAssumption
<1>3. Limited(r.value) \in Int /\ RateAsSaid(Limited(r.value), r.value)
  BY <1>2, LimitedIsSaid
<1>4. scanrate' \in Int /\ rateSaid' \in Int
  BY <1>1, <1>2, <1>3 DEF IocInv, Types
<1>5. RateAsSaid(scanrate', rateSaid')
  <2>1. CASE Refused
    BY <1>1, <2>1 DEF IocInv, OptionsAsSaid
  <2>2. CASE ~Refused /\ r.junk
    BY <1>1, <2>2 DEF RateAsSaid
  <2>3. CASE ~Refused /\ ~r.junk
    BY <1>1, <1>3, <2>3
  <2>. QED BY <1>2, <2>1, <2>2, <2>3
<1>. QED BY <1>1, <1>4, <1>5 DEF IocInv, Types, OptionsAsSaid

(* A step that leaves the PLCs and the database alone.                     *)
LEMMA SystemAlone ==
  ASSUME IocInv, Types', OptionsAsSaid',
         UNCHANGED <<plcs, database, link, undefined>>,
         phase' = phase \/ phase' = "exit"
  PROVE  IocInv'
<1>1. LoadedAsSaid' /\ PlcsRight'
  BY DEF IocInv, LoadedAsSaid, PlcsRight, Named
<1>2. DatabaseRight'
  BY DEF IocInv, DatabaseRight
<1>3. UniqueAddresses' <=> UniqueAddresses
  BY DEF UniqueAddresses
<1>4. LinksKnown' /\ LinksRight' /\ MeaningKept'
  BY <1>3 DEF IocInv, LinksKnown, LinksRight, MeaningKept
<1>. QED BY <1>1, <1>2, <1>4 DEF IocInv

(* As the PLCs last, so do the facts about them.                           *)
LEMMA LastingKeeps ==
  ASSUME Lasts, Types, Types'
  PROVE  /\ UniqueAddresses' => UniqueAddresses
         /\ \A a : Named(a) \subseteq Named(a)'
         /\ MeaningKept /\ UNCHANGED undefined => MeaningKept'
<1>1. UniqueAddresses' => UniqueAddresses
  BY DEF Lasts, UniqueAddresses
<1>2. \A a : Named(a) \subseteq Named(a)'
  BY DEF Lasts, Named
<1>3. (\E id \in DOMAIN plcs : plcs[id].recs = {}) => \E id \in DOMAIN plcs' : plcs'[id].recs = {}
  BY DEF Lasts
<1>. QED BY <1>1, <1>2, <1>3 DEF MeaningKept

LEMMA SwitchedIsPlc ==
  ASSUME NEW p \in Plc, NEW active \in BOOLEAN, NEW q,
         q = p \/ q = [p EXCEPT !.scanners_active = active]
  PROVE  /\ q \in Plc
         /\ q.addr = p.addr /\ q.where = p.where /\ q.recs = p.recs
         /\ q.options = p.options /\ q.said = p.said
         /\ q.rate = p.rate /\ q.rateSaid = p.rateSaid
<1>1. CASE q = p
  BY <1>1
<1>2. CASE q = [p EXCEPT !.scanners_active = active]
  <2>1. q \in Plc
    BY <1>2 DEF Plc
  <2>2. q.addr = p.addr /\ q.where = p.where /\ q.recs = p.recs
    BY <1>2 DEF Plc
  <2>3. q.options = p.options /\ q.said = p.said /\ q.rate = p.rate /\ q.rateSaid = p.rateSaid
    BY <1>2 DEF Plc
  <2>. QED BY <2>1, <2>2, <2>3
<1>. QED BY <1>1, <1>2

(* The hooks of the IOC's state only switch the scanners.                  *)
LEMMA ActiveKeeps ==
  ASSUME IocInv, NEW active \in BOOLEAN, SetActive(active),
         UNCHANGED <<options, scanrate, said, rateSaid>>
  PROVE  /\ Lasts /\ DOMAIN plcs' = DOMAIN plcs
         /\ Types' /\ OptionsAsSaid' /\ LoadedAsSaid' /\ PlcsRight'
<1>1. DOMAIN plcs' = DOMAIN plcs
  BY DEF SetActive
<1>2. \A id \in DOMAIN plcs : plcs[id] \in Plc
  BY DEF IocInv, Types
<1>3. \A id \in DOMAIN plcs :
        plcs'[id] = plcs[id] \/ plcs'[id] = [plcs[id] EXCEPT !.scanners_active = active]
  BY DEF SetActive
<1>4. \A id \in DOMAIN plcs :
        /\ plcs'[id] \in Plc
        /\ plcs'[id].addr = plcs[id].addr /\ plcs'[id].where = plcs[id].where
        /\ plcs'[id].recs = plcs[id].recs /\ plcs'[id].options = plcs[id].options
        /\ plcs'[id].said = plcs[id].said /\ plcs'[id].rate = plcs[id].rate
        /\ plcs'[id].rateSaid = plcs[id].rateSaid
  <2>. TAKE id \in DOMAIN plcs
  <2>1. plcs[id] \in Plc
    BY <1>2
  <2>2. plcs'[id] = plcs[id] \/ plcs'[id] = [plcs[id] EXCEPT !.scanners_active = active]
    BY <1>3
  <2>. HIDE DEF Plc
  <2>. QED BY <2>1, <2>2, SwitchedIsPlc
<1>5. plcs' \in Seq(Plc)
  <2>1. PICK n \in Nat : DOMAIN plcs = 1..n
    BY DEF IocInv, Types
  <2>2. plcs' = [id \in 1..n |-> plcs'[id]]
    BY <2>1 DEF SetActive
  <2>. QED BY <1>1, <1>4, <2>1, <2>2
<1>6. Lasts
  BY <1>1, <1>4 DEF Lasts
<1>7. Types' /\ OptionsAsSaid'
  BY <1>5 DEF IocInv, Types, OptionsAsSaid
<1>8. LoadedAsSaid'
  BY <1>1, <1>4 DEF IocInv, LoadedAsSaid
<1>9. PlcsRight'
  BY <1>1, <1>4, <1>6, <1>7, LastingKeeps DEF IocInv, PlcsRight
<1>. QED BY <1>1, <1>6, <1>7, <1>8, <1>9

(* A load appends a PLC with the options in effect.                        *)
LEMMA CreateKeeps ==
  ASSUME IocInv, NEW p \in Plc, Create(p),
         p.options = p.said, RateAsSaid(p.rate, p.rateSaid),
         p.where # "leaked" => optimizeRequests(p.recs),
         p.where = "destroyed" => Named(p.addr) # {},
         options' = NoOptions, said' = NoOptions, UNCHANGED <<scanrate, rateSaid>>
  PROVE  /\ Lasts /\ Len(plcs') \in DOMAIN plcs' /\ plcs'[Len(plcs')] = p
         /\ Types' /\ OptionsAsSaid' /\ LoadedAsSaid' /\ PlcsRight'
<1>. USE DEF IocInv
<1>. HIDE DEF Plc
<1>1. plcs \in Seq(Plc) /\ plcs' = Append(plcs, p)
  BY DEF Types, Create
<1>2. /\ plcs' \in Seq(Plc) /\ Len(plcs') = Len(plcs) + 1 /\ plcs'[Len(plcs')] = p
      /\ DOMAIN plcs' = DOMAIN plcs \cup {Len(plcs')} /\ Len(plcs') \in DOMAIN plcs'
      /\ \A id \in DOMAIN plcs : plcs'[id] = plcs[id]
  BY <1>1
<1>3. Lasts
  BY <1>2 DEF Lasts
<1>4. Types'
  BY <1>2 DEF Types, NoOptions, PlcOptions
<1>5. OptionsAsSaid'
  BY DEF OptionsAsSaid
<1>6. LoadedAsSaid'
  BY <1>2 DEF LoadedAsSaid, RateAsSaid
<1>7. PlcsRight'
  <2>1. \A a : Named(a) \subseteq Named(a)'
    BY <1>3, <1>4, LastingKeeps
  <2>. QED BY <1>2, <2>1 DEF PlcsRight
<1>. QED BY <1>2, <1>3, <1>4, <1>5, <1>6, <1>7

(* The facts about the records, after a step that adds to the PLCs only.   *)
LEMMA DatabaseAlone ==
  ASSUME IocInv, Lasts, Types', OptionsAsSaid', LoadedAsSaid', PlcsRight',
         UNCHANGED <<database, link, undefined>>,
         phase' = phase \/ phase' = "exit" \/ (phase = "run" /\ phase' = "pause")
           \/ (phase = "pause" /\ phase' = "run")
  PROVE  IocInv'
<1>. USE DEF IocInv
<1>1. (UniqueAddresses' => UniqueAddresses) /\ MeaningKept'
  BY LastingKeeps
<1>2. DatabaseRight'
  BY DEF DatabaseRight, Lasts
<1>3. LinksKnown'
  BY DEF LinksKnown, Lasts
<1>4. LinksRight'
  <2>. SUFFICES ASSUME phase' \in {"run", "pause"}, NEW e \in DOMAIN database
                PROVE  /\ link[e] # 0 => /\ plcs'[link[e]].where = "system"
                                         /\ database[e].v \in plcs'[link[e]].recs
                       /\ UniqueAddresses' =>
                            link[e] = IF /\ database[e].addr # None
                                         /\ database[e].v \in plcs'[database[e].by].recs
                                      THEN database[e].by ELSE 0
    BY DEF LinksRight
  <2>1. phase \in {"run", "pause"}
    OBVIOUS
  <2>2. link[e] # 0 => link[e] \in DOMAIN plcs
    BY <2>1 DEF LinksKnown
  <2>3. plcs'[database[e].by].recs = plcs[database[e].by].recs
    BY DEF DatabaseRight, Lasts
  <2>4. link[e] # 0 => /\ plcs'[link[e]].where = "system"
                       /\ database[e].v \in plcs'[link[e]].recs
    BY <2>1, <2>2 DEF LinksRight, Lasts
  <2>. QED BY <1>1, <2>1, <2>3, <2>4 DEF LinksRight
<1>. QED BY <1>1, <1>2, <1>3, <1>4

(* iocInit: with unique addresses the PLC found by name is the one whose   *)
(* load generated the record.                                              *)
LEMMA LinkFinds ==
  ASSUME IocInv, NEW e \in DOMAIN database
  PROVE  LET id == linkRecord(e) by == database[e].by IN
         /\ id # 0 => /\ id \in DOMAIN plcs /\ plcs[id].where = "system"
                      /\ database[e].v \in plcs[id].recs
         /\ UniqueAddresses => id = IF database[e].addr # None /\ database[e].v \in plcs[by].recs
                                    THEN by ELSE 0
<1>. DEFINE by == database[e].by
            found == {id \in Named(database[e].addr) :
                        database[e].addr # None /\ database[e].v \in plcs[id].recs}
<1>1. /\ found = {} => linkRecord(e) = 0
      /\ found # {} => linkRecord(e) \in found
  BY DEF linkRecord
<1>2. by \in DOMAIN plcs /\ plcs[by].where # "leaked" /\ plcs[by].addr = database[e].addr
  BY DEF IocInv, DatabaseRight
<1>3. linkRecord(e) # 0 => /\ linkRecord(e) \in DOMAIN plcs
                           /\ plcs[linkRecord(e)].where = "system"
                           /\ database[e].v \in plcs[linkRecord(e)].recs
  BY <1>1 DEF Named
<1>4. ASSUME UniqueAddresses
      PROVE  linkRecord(e) = IF database[e].addr # None /\ database[e].v \in plcs[by].recs
                             THEN by ELSE 0
  <2>1. Named(database[e].addr) \subseteq {by}
    BY <1>2, <1>4 DEF UniqueAddresses, Named
  <2>2. plcs[by].where = "system"
    <3>1. plcs[by].where \in {"system", "destroyed"}
      <4>1. plcs[by] \in Plc
        BY <1>2 DEF IocInv, Types
      <4>. QED BY <1>2, <4>1 DEF Plc
    <3>2. plcs[by].where = "destroyed" => Named(database[e].addr) # {}
      BY <1>2 DEF IocInv, PlcsRight
    <3>. QED BY <2>1, <3>1, <3>2 DEF Named
  <2>3. by \in Named(database[e].addr)
    BY <1>2, <2>2 DEF Named
  <2>. QED BY <1>1, <2>1, <2>3
<1>. QED BY <1>3, <1>4

LEMMA InitKeeps == ASSUME IocInv, iocInit PROVE IocInv'
<1>1. /\ link' = [e \in DOMAIN database |-> linkRecord(e)] /\ SetActive(TRUE)
      /\ UNCHANGED <<options, scanrate, database, undefined, said, rateSaid>>
  BY DEF iocInit, set_ioc_state, saidVars
<1>2. /\ Lasts /\ DOMAIN plcs' = DOMAIN plcs
      /\ Types' /\ OptionsAsSaid' /\ LoadedAsSaid' /\ PlcsRight'
  BY <1>1, ActiveKeeps
<1>3. (UniqueAddresses' => UniqueAddresses) /\ MeaningKept'
  BY <1>1, <1>2, LastingKeeps DEF IocInv
<1>4. DatabaseRight'
  BY <1>1, <1>2 DEF IocInv, DatabaseRight, Lasts
<1>5. ASSUME NEW e \in DOMAIN database
      PROVE  /\ link'[e] \in {0} \cup DOMAIN plcs'
             /\ link'[e] # 0 => /\ plcs'[link'[e]].where = "system"
                                /\ database[e].v \in plcs'[link'[e]].recs
             /\ UniqueAddresses' =>
                  link'[e] = IF /\ database[e].addr # None
                                /\ database[e].v \in plcs'[database[e].by].recs
                             THEN database[e].by ELSE 0
  <2>1. link'[e] = linkRecord(e)
    BY <1>1
  <2>2. plcs'[database[e].by].recs = plcs[database[e].by].recs
    BY <1>2 DEF IocInv, DatabaseRight, Lasts
  <2>. QED BY <1>2, <1>3, <2>1, <2>2, LinkFinds DEF Lasts
<1>6. LinksKnown' /\ LinksRight'
  BY <1>1, <1>5 DEF LinksKnown, LinksRight
<1>. QED BY <1>2, <1>3, <1>4, <1>6 DEF IocInv

LEMMA LoadKeeps == ASSUME IocInv, NEW f \in Files, tcLoadRecords(f) PROVE IocInv'
<1>. DEFINE Created(threads, where) == Create(NewPLC(f, threads, where))
<1>0. /\ options' = NoOptions /\ said' = NoOptions
      /\ UNCHANGED <<scanrate, phase, undefined, rateSaid>>
  BY DEF tcLoadRecords, ResetOptions
<1>1. ASSUME NEW threads \in SUBSET Kinds, NEW where \in {"system", "destroyed", "leaked"},
             NEW p, p = NewPLC(f, threads, where) \/ p = [NewPLC(f, threads, where) EXCEPT !.recs = {}]
      PROVE  /\ p \in Plc /\ p.addr = f.addr /\ p.where = where /\ p.options = p.said
             /\ p.rate = scanrate /\ p.rateSaid = rateSaid
             /\ p = NewPLC(f, threads, where) => p.recs = records(f, options)
  <2>1. f.addr \in Addresses /\ records(f, options) \in SUBSET Variables
    <3>1. f.addr \in Addresses /\ f.exports \in {g.exports : g \in Files}
      BY DEF Addresses
    <3>2. records(f, options) \subseteq f.exports \cup {InfoRecord}
      BY DEF records
    <3>3. f.exports \subseteq Variables /\ InfoRecord \in Variables
      BY <3>1 DEF Variables
    <3>. QED BY <3>1, <3>2, <3>3
  <2>2. options \in PlcOptions /\ options = said /\ scanrate \in Int /\ rateSaid \in Int
    BY DEF IocInv, Types, OptionsAsSaid
  <2>3. NewPLC(f, threads, where) \in Plc
    BY <2>1, <2>2 DEF NewPLC, Plc
  <2>4. p \in Plc
    BY <1>1, <2>3 DEF Plc
  <2>5. /\ p.addr = f.addr /\ p.where = where /\ p.options = p.said
        /\ p.rate = scanrate /\ p.rateSaid = rateSaid
    BY <1>1, <2>2 DEF NewPLC
  <2>. QED BY <2>4, <2>5 DEF NewPLC
<1>2. CASE UNCHANGED <<plcs, database, link>>
  <2>1. Types' /\ OptionsAsSaid'
    BY <1>0, <1>2 DEF IocInv, Types, OptionsAsSaid, NoOptions, PlcOptions
  <2>. QED BY <1>0, <1>2, <2>1, SystemAlone
<1>3. ASSUME optimizeRequests(records(f, options)), NEW threads \in ThreadsStarted,
             Created(threads, System_add(f.addr)), dbLoadRecords(f, Len(plcs'))
      PROVE  IocInv'
  <2>. DEFINE where == System_add(f.addr)
              p == NewPLC(f, threads, where)
  <2>1. threads \in SUBSET Kinds /\ where \in {"system", "destroyed"}
        /\ (where = "destroyed" => Named(f.addr) # {})
    BY DEF ThreadsStarted, Kinds, System_add
  <2>2. /\ p \in Plc /\ p.addr = f.addr /\ p.where = where /\ p.options = p.said
        /\ p.rate = scanrate /\ p.rateSaid = rateSaid /\ p.recs = records(f, options)
    BY <1>1, <2>1
  <2>3. RateAsSaid(p.rate, p.rateSaid)
    BY <2>2 DEF IocInv, OptionsAsSaid
  <2>4. /\ Lasts /\ Len(plcs') \in DOMAIN plcs' /\ plcs'[Len(plcs')] = p
        /\ Types' /\ OptionsAsSaid' /\ LoadedAsSaid' /\ PlcsRight'
    <3>. HIDE DEF p
    <3>1. Create(p)
      BY <1>3 DEF p
    <3>. QED BY <1>0, <1>3, <2>1, <2>2, <2>3, <3>1, CreateKeeps
  <2>. HIDE DEF p, where
  <2>5. CASE phase = "shell"
    <3>1. DatabaseRight'
      BY <1>3, <2>1, <2>2, <2>4, <2>5 DEF dbLoadRecords, IocInv, DatabaseRight, Lasts
    <3>2. MeaningKept'
      BY <1>0, <2>4, LastingKeeps DEF IocInv
    <3>3. LinksKnown' /\ LinksRight'
      BY <1>0, <2>5 DEF LinksKnown, LinksRight
    <3>. QED BY <2>4, <3>1, <3>2, <3>3 DEF IocInv
  <2>6. CASE phase # "shell"
    <3>1. UNCHANGED <<database, link>>
      BY <1>3, <2>6 DEF dbLoadRecords, epicsDb
    <3>. QED BY <1>0, <2>4, <3>1, DatabaseAlone
  <2>. QED BY <2>5, <2>6
<1>4. ASSUME NEW p, p = NewPLC(f, {}, "leaked") \/ p = [NewPLC(f, {}, "leaked") EXCEPT !.recs = {}],
             Create(p), UNCHANGED epicsDb
      PROVE  IocInv'
  <2>1. /\ p \in Plc /\ p.where = "leaked" /\ p.options = p.said
        /\ p.rate = scanrate /\ p.rateSaid = rateSaid
    BY <1>1, <1>4
  <2>2. RateAsSaid(p.rate, p.rateSaid)
    BY <2>1 DEF IocInv, OptionsAsSaid
  <2>3. Lasts /\ Types' /\ OptionsAsSaid' /\ LoadedAsSaid' /\ PlcsRight'
    BY <1>0, <1>4, <2>1, <2>2, CreateKeeps
  <2>. QED BY <1>0, <1>4, <2>3, DatabaseAlone DEF epicsDb
<1>. QED BY <1>2, <1>3, <1>4 DEF tcLoadRecords, sysVars, epicsDb

LEMMA HooksKeep == ASSUME IocInv, iocPause \/ iocRun \/ stopTc PROVE IocInv'
<1>1. PICK active \in BOOLEAN : SetActive(active)
  BY DEF iocPause, iocRun, stopTc, set_ioc_state
<1>2. /\ UNCHANGED <<options, scanrate, database, link, undefined, said, rateSaid>>
      /\ \/ phase' = "exit" \/ (phase = "run" /\ phase' = "pause")
         \/ (phase = "pause" /\ phase' = "run")
  BY DEF iocPause, iocRun, stopTc, epicsDb, saidVars
<1>. QED BY <1>1, <1>2, ActiveKeeps, DatabaseAlone

(* A thread that runs into a destroyed PLC, or one without requests.       *)
LEMMA ScannerKeeps ==
  ASSUME IocInv, NEW id \in DOMAIN plcs, NEW kind \in Kinds, ScannerProc(id, kind)
  PROVE  IocInv'
<1>. USE DEF IocInv
<1>1. UNCHANGED <<options, scanrate, plcs, database, link, phase, said, rateSaid>>
  BY DEF ScannerProc, epicsDb, saidVars
<1>2. Types' /\ OptionsAsSaid' /\ LoadedAsSaid' /\ PlcsRight' /\ DatabaseRight'
  BY <1>1 DEF Types, OptionsAsSaid, LoadedAsSaid, PlcsRight, DatabaseRight, Named
<1>3. UniqueAddresses' <=> UniqueAddresses
  BY <1>1 DEF UniqueAddresses
<1>4. LinksKnown' /\ LinksRight'
  BY <1>1, <1>3 DEF LinksKnown, LinksRight
<1>5. CASE undefined' = {"destroyed"} /\ plcs[id].where = "destroyed"
  <2>1. PICK j \in DOMAIN plcs : plcs[j].where = "system" /\ plcs[j].addr = plcs[id].addr
    BY <1>5 DEF PlcsRight, Named
  <2>2. ~UniqueAddresses
    BY <1>5, <2>1 DEF UniqueAddresses
  <2>. QED BY <1>2, <1>3, <1>4, <2>2 DEF MeaningKept
<1>6. CASE plcs[id].where = "system" /\ RequestsOf(plcs[id].recs) = {}
  <2>1. plcs[id].recs = {}
    BY <1>6 DEF PlcsRight, optimizeRequests
  <2>. QED BY <1>1, <1>2, <1>4, <2>1 DEF MeaningKept
<1>7. CASE UNCHANGED undefined
  BY <1>1, <1>2, <1>3, <1>4, <1>7 DEF MeaningKept
<1>. QED BY <1>5, <1>6, <1>7 DEF ScannerProc

LEMMA CommandKeeps ==
  ASSUME IocInv,
         \/ (\E a \in Aliases : tcAlias(a)) \/ tcInfoPrefix \/ tcList \/ tcMacro
         \/ (\E r \in Rates : tcSetScanRate(r))
  PROVE  IocInv'
<1>1. options \in PlcOptions
  BY DEF IocInv, Types
<1>2. Types' /\ OptionsAsSaid'
  <2>1. ASSUME NEW a \in Aliases, tcAlias(a) PROVE Types' /\ OptionsAsSaid'
    <3>1. [options EXCEPT !["alias"] = a] \in PlcOptions
      BY <1>1 DEF PlcOptions
    <3>. QED BY <2>1, <3>1, OptionKeeps DEF tcAlias
  <2>2. ASSUME tcInfoPrefix PROVE Types' /\ OptionsAsSaid'
    <3>1. [options EXCEPT !["infoprefix"] = TRUE] \in PlcOptions
      BY <1>1 DEF PlcOptions
    <3>. QED BY <2>2, <3>1, OptionKeeps DEF tcInfoPrefix
  <2>3. ASSUME NEW x \in {"list", "macro"}, SetOption("extras", options.extras \cup {x})
        PROVE  Types' /\ OptionsAsSaid'
    <3>1. [options EXCEPT !["extras"] = options.extras \cup {x}] \in PlcOptions
      BY <1>1 DEF PlcOptions
    <3>. QED BY <2>3, <3>1, OptionKeeps
  <2>. QED BY <2>1, <2>2, <2>3, RateKeeps DEF tcList, tcMacro
<1>3. UNCHANGED <<plcs, database, link, undefined, phase>>
  BY DEF tcAlias, tcInfoPrefix, tcList, tcMacro, tcSetScanRate, SetOption, sysVars, epicsDb
<1>. QED BY <1>2, <1>3, SystemAlone

LEMMA IocInvNext == IocInv /\ [IocNext]_iocVars => IocInv'
<1>. SUFFICES ASSUME IocInv, [IocNext]_iocVars PROVE IocInv'
  OBVIOUS
<1>1. CASE Later \/ UNCHANGED iocVars
  <2>1. UNCHANGED <<options, scanrate, plcs, database, link, undefined, phase, said, rateSaid>>
    BY <1>1 DEF Later, iocVars, sysVars, epicsDb, saidVars
  <2>2. Types' /\ OptionsAsSaid'
    BY <2>1 DEF IocInv, Types, OptionsAsSaid
  <2>. QED BY <2>1, <2>2, SystemAlone
<1>. QED BY <1>1, CommandKeeps, LoadKeeps, InitKeeps, HooksKeep, ScannerKeeps DEF IocNext

(* The inductive invariant of the shell commands.                          *)
THEOREM IocInvariance == IocSpec => []IocInv
  BY IocInvInit, IocInvNext, PTL DEF IocSpec

(* The options and the rate of every PLC are those said for it.            *)
THEOREM OptionsHold == IocSpec => []LoadedAsSaid
<1>1. IocInv => LoadedAsSaid
  BY DEF IocInv
<1>. QED BY IocInvariance, <1>1, PTL

(* Every EPICS record is linked to the PLC it was generated for, as long   *)
(* as the addresses of the PLCs differ.                                    *)
THEOREM RecordsLinked == IocSpec => []LinksRight
<1>1. IocInv => LinksRight
  BY DEF IocInv
<1>. QED BY IocInvariance, <1>1, PTL

(* The two steps without a meaning need two PLCs with one address, or a    *)
(* file that exports nothing.                                              *)
THEOREM NoThreadAstray == IocSpec => []MeaningKept
<1>1. IocInv => MeaningKept
  BY DEF IocInv
<1>. QED BY IocInvariance, <1>1, PTL

(***************************************************************************)
(* The limits of a record.                                                 *)
(***************************************************************************)
LimitNames == {"HIHI", "HIGH", "LOW", "LOLO"}
SeverityNames == {"HHSV", "HSV", "LSV", "LLSV"}
Severities == {"NO_ALARM", "MINOR", "MAJOR"}

(* The fields of the properties that are about neither limits nor their    *)
(* severities.                                                             *)
LEMMA PlainNames ==
  ASSUME NEW p \in DOMAIN PlainField
  PROVE  PlainField[p] \notin LimitNames \cup SeverityNames
BY DEF PlainField, LimitNames, SeverityNames

LEMMA SeverityFacts ==
  ASSUME NEW s \in DOMAIN SeverityField
  PROVE  /\ SeverityField[s].field \notin LimitNames
         /\ s \notin DOMAIN PlainField /\ s \notin DOMAIN LimitField
         /\ s # "ZRST" /\ s # "FIELD" /\ s # "ALMDB"
BY DEF SeverityField, Severity, LimitNames, PlainField, LimitField

LEMMA LimitFacts ==
  ASSUME NEW p \in DOMAIN LimitField
  PROVE  /\ LimitField[p].field \in LimitNames /\ LimitField[p].default \in Severities
         /\ LimitField[p].sev \in DOMAIN SeverityField
         /\ SeverityField[LimitField[p].sev].field \in SeverityNames
         /\ SeverityField[LimitField[p].sev].types = Analog
         /\ \A s \in DOMAIN SeverityField :
              SeverityField[s].field = SeverityField[LimitField[p].sev].field
              => s = LimitField[p].sev
         /\ \A q \in DOMAIN LimitField : LimitField[q].sev = LimitField[p].sev => q = p
         /\ p \notin DOMAIN PlainField /\ p # "ZRST" /\ p # "FIELD"
         /\ p \notin DOMAIN SeverityField /\ p # "ALMDB"
BY DEF LimitField, Limit, SeverityField, Severity, LimitNames, SeverityNames, Severities, PlainField

(* What every record has is neither a limit nor a severity.                *)
LEMMA HeaderNames ==
  ASSUME NEW f \in Header
  PROVE  f.field \notin LimitNames \cup SeverityNames
<1> DEFINE way == Direction("INP", "OUT")
<1>1. way \in {"INP", "OUT"}
  BY DEF Direction
<1> HIDE DEF way
<1>2. PICK p, a, n : /\ f = Field(p, n, a)
                     /\ n \in {"SIZV", "DESC", "SCAN", "DTYP", way, "TSE", "PINI"}
  BY Zenon DEF Header, way
<1>3. f.field = n
  BY <1>2 DEF Field
<1> QED BY <1>1, <1>2, <1>3 DEF LimitNames, SeverityNames

LEMMA AlarmField ==
  ASSUME NEW p, NEW field, NEW severity, NEW f \in process_field_alarm(p, field, severity)
  PROVE  f = Field(p, field, severity) /\ severity \in Severities
BY DEF process_field_alarm, Severities

(* Where a limit or a severity can come from, if it is not a field that    *)
(* the user has written.                                                   *)
LEMMA FromProperty ==
  ASSUME NEW p, NEW f \in FieldsOf(p), f.from # "FIELD", f.field \in LimitNames \cup SeverityNames
  PROVE  \/ /\ p \in DOMAIN SeverityField /\ tname \in SeverityField[p].types
            /\ f \in process_field_alarm(p, SeverityField[p].field, decl.props[p])
         \/ /\ p \in DOMAIN LimitField /\ tname \in Analog
            /\ f \in {Field(p, LimitField[p].field, decl.props[p])} \cup DefaultSeverity(p)
<1> DEFINE v == decl.props[p]
<1>1. CASE p \in DOMAIN PlainField
  <2>1. FieldsOf(p) = {Field(p, PlainField[p], v)}
    BY <1>1, SeverityFacts, LimitFacts DEF FieldsOf, PlainField
  <2> QED BY <1>1, <2>1, PlainNames DEF Field
<1>2. CASE p = "ZRST" /\ tname \in States
  <2>1. FieldsOf(p) = {Field(p, "ZRVL", "0"), Field(p, "ZRST", v)}
    BY <1>2, SeverityFacts, LimitFacts DEF FieldsOf, PlainField
  <2> QED BY <2>1 DEF Field, LimitNames, SeverityNames
<1>3. CASE p = "FIELD" /\ Len(v) = 2
  <2>1. FieldsOf(p) = {Field(p, v[1], v[2])}
    BY <1>3, SeverityFacts, LimitFacts DEF FieldsOf, PlainField
  <2> QED BY <1>3, <2>1 DEF Field
<1>4. CASE p = "ALMDB" /\ tname \in Analog
  <2>1. FieldsOf(p) = {Field(p, "HYST", v)}
    BY <1>4, SeverityFacts, LimitFacts DEF FieldsOf, PlainField, SeverityField
  <2> QED BY <2>1 DEF Field, LimitNames, SeverityNames
<1>5. CASE p \in DOMAIN SeverityField /\ tname \in SeverityField[p].types
  <2>1. FieldsOf(p) = process_field_alarm(p, SeverityField[p].field, v)
    BY <1>5, SeverityFacts DEF FieldsOf
  <2> QED BY <1>5, <2>1
<1>6. CASE p \in DOMAIN LimitField /\ tname \in Analog
  <2>1. FieldsOf(p) = {Field(p, LimitField[p].field, v)} \cup DefaultSeverity(p)
    BY <1>6, LimitFacts DEF FieldsOf
  <2> QED BY <1>6, <2>1
<1> QED BY <1>1, <1>2, <1>3, <1>4, <1>5, <1>6 DEF FieldsOf

(* A limit shows that the record is an analog one.  Then the severity      *)
(* comes from its own property, if it was given, or else from the limit.   *)
LEMMA LimitsAlarmAlways == LimitsAlarm
<1> SUFFICES ASSUME NEW p \in DOMAIN decl.props \cap DOMAIN LimitField,
                    NEW g \in Fields, g.field = LimitField[p].field, g.from # "FIELD"
             PROVE  LET sev == LimitField[p].sev
                        of(field) == {f \in Fields : f.field = field /\ f.from # "FIELD"}
                        known == Given(sev) => decl.props[sev] \in {"NO_ALARM", "MINOR", "MAJOR"}
                    IN Cardinality(of(SeverityField[sev].field)) = IF known THEN 1 ELSE 0
  BY DEF LimitsAlarm
<1> DEFINE sev == LimitField[p].sev
           field == SeverityField[sev].field
           v == decl.props[sev]
           these == {f \in Fields : f.field = field /\ f.from # "FIELD"}
<1>1. field \in SeverityNames /\ sev \in DOMAIN SeverityField /\ SeverityField[sev].types = Analog
      /\ LimitField[p].field \in LimitNames /\ LimitField[p].default \in Severities
  BY LimitFacts
<1>2. tname \in Analog
  <2>1. g \notin Header
    BY <1>1, HeaderNames
  <2>2. PICK q \in DOMAIN decl.props : g \in FieldsOf(q)
    BY <2>1 DEF Fields
  <2>3. CASE q \in DOMAIN SeverityField
              /\ g \in process_field_alarm(q, SeverityField[q].field, decl.props[q])
    BY <1>1, <2>3, AlarmField, SeverityFacts DEF Field
  <2> QED BY <1>1, <2>2, <2>3, FromProperty
<1>3. ASSUME NEW f \in these
      PROVE  \/ Given(sev) /\ f \in process_field_alarm(sev, field, v)
             \/ f \in DefaultSeverity(p)
  <2>1. f \notin Header
    BY <1>1, HeaderNames
  <2>2. PICK q \in DOMAIN decl.props : f \in FieldsOf(q)
    BY <2>1 DEF Fields
  <2>3. CASE q \in DOMAIN SeverityField
              /\ f \in process_field_alarm(q, SeverityField[q].field, decl.props[q])
    <3>1. f.field = SeverityField[q].field
      BY <2>3, AlarmField DEF Field
    <3>2. q = sev
      BY <2>3, <3>1, LimitFacts
    <3> QED BY <2>2, <2>3, <3>2 DEF Given
  <2>4. CASE q \in DOMAIN LimitField
              /\ f \in {Field(q, LimitField[q].field, decl.props[q])} \cup DefaultSeverity(q)
    <3>1. f \in DefaultSeverity(q)
      <4>1. LimitField[q].field \in LimitNames
        BY <2>4, LimitFacts
      <4> QED BY <1>1, <2>4, <4>1 DEF Field, LimitNames, SeverityNames
    <3>2. f.field = SeverityField[LimitField[q].sev].field
      BY <3>1, AlarmField DEF DefaultSeverity, Field
    <3>3. q = p
      BY <2>4, <3>2, LimitFacts
    <3> QED BY <3>1, <3>3
  <2> QED BY <1>1, <2>2, <2>3, <2>4, FromProperty
<1>4. DefaultSeverity(p) \subseteq Fields
  <2>1. DefaultSeverity(p) \subseteq FieldsOf(p)
    BY <1>2, LimitFacts DEF FieldsOf
  <2> QED BY <2>1 DEF Fields
<1>5. ASSUME Given(sev) PROVE process_field_alarm(sev, field, v) \subseteq Fields
  <2>1. FieldsOf(sev) = process_field_alarm(sev, field, v)
    BY <1>1, <1>2, SeverityFacts DEF FieldsOf
  <2> QED BY <1>5, <2>1 DEF Fields, Given
<1>6. CASE Given(sev) /\ v \in Severities
  <2>1. process_field_alarm(sev, field, v) = {Field(sev, field, v)} /\ DefaultSeverity(p) = {}
    BY <1>6 DEF process_field_alarm, Severities, DefaultSeverity
  <2>2. Field(sev, field, v).field = field /\ Field(sev, field, v).from # "FIELD"
    BY <1>1, SeverityFacts DEF Field
  <2>3. these = {Field(sev, field, v)}
    BY <1>3, <1>5, <1>6, <2>1, <2>2
  <2> HIDE DEF these
  <2>4. Cardinality(these) = 1
    BY <2>3, FS_Singleton
  <2> QED BY <1>6, <2>4 DEF these, Severities
<1>7. CASE Given(sev) /\ v \notin Severities
  <2>1. process_field_alarm(sev, field, v) = {} /\ DefaultSeverity(p) = {}
    BY <1>7 DEF process_field_alarm, Severities, DefaultSeverity
  <2>2. these = {}
    BY <1>3, <2>1
  <2> HIDE DEF these
  <2>3. Cardinality(these) = 0
    BY <2>2, FS_EmptySet
  <2> QED BY <1>7, <2>3 DEF these, Severities
<1>8. CASE ~Given(sev)
  <2> DEFINE d == Field(p, field, LimitField[p].default)
  <2>1. DefaultSeverity(p) = {d}
    BY <1>1, <1>8 DEF process_field_alarm, Severities, DefaultSeverity
  <2>2. d.field = field /\ d.from # "FIELD"
    BY LimitFacts DEF Field
  <2>3. these = {d}
    BY <1>3, <1>4, <1>8, <2>1, <2>2
  <2> HIDE DEF these
  <2>4. Cardinality(these) = 1
    BY <2>3, FS_Singleton
  <2> QED BY <1>8, <2>4 DEF these
<1> QED BY <1>6, <1>7, <1>8
ValueSpec == ValueInit /\ [][ValueNext]_valueVars

(* A record with a limit has one severity for it, from one property        *)
(* (TpyToEpics.cpp:1559-1634), whatever the properties and types are.      *)
THEOREM LimitsHaveSeverity == ValueSpec => []LimitsAlarm
<1> QED BY LimitsAlarmAlways, PTL

(***************************************************************************)
(* Conversions there and back.                                             *)
(***************************************************************************)
Widths == {1, 2, 4, 8}

(* Division with a remainder is unique.                                    *)
LEMMA DivisionIs ==
  ASSUME NEW c \in Nat \ {0}, NEW q \in Int, NEW r \in 0..c - 1
  PROVE  (q * c + r) % c = r /\ (q * c + r) \div c = q
<1> DEFINE x == q * c + r
           d == x \div c
           m == x % c
<1>1. x \in Int /\ d \in Int /\ m \in 0..c - 1 /\ x = c * d + m
  OBVIOUS
<1>2. (q - d) * c = m - r
  BY <1>1
<1> HIDE DEF x, d, m
<1>3. CASE q = d
  BY <1>1, <1>2, <1>3 DEF x, m, d
<1>4. CASE q - d >= 1
  <2>1. (q - d) * c >= c
    BY <1>1, <1>4
  <2> QED BY <1>1, <1>2, <2>1
<1>5. CASE q - d <= -1
  <2>1. (q - d) * c <= -c
    BY <1>1, <1>5
  <2> QED BY <1>1, <1>2, <2>1
<1> QED BY <1>1, <1>3, <1>4, <1>5 DEF x, m, d

LEMMA SquareFacts ==
  ASSUME NEW n \in Nat \ {0}, n % 2 = 0
  PROVE  Square(n) \in Nat \ {0} /\ Square(n) % 2 = 0 /\ Square(n) = n * n
<1>1. PICK h \in Nat : n = 2 * h
  OBVIOUS
<1>2. n * n = (h * n) * 2 + 0 /\ h * n \in Int
  BY <1>1
<1>3. ((h * n) * 2 + 0) % 2 = 0
  BY <1>2, DivisionIs
<1>4. n * n \in Nat \ {0}
  OBVIOUS
<1> QED BY <1>2, <1>3, <1>4 DEF Square

(* A wider number has a multiple of the codes of a narrower one.           *)
LEMMA CodesFacts ==
  ASSUME NEW a \in Widths, NEW b \in Widths, a <= b
  PROVE  /\ Codes(a) \in Nat \ {0} /\ Codes(a) % 2 = 0
         /\ \E k \in Nat : Codes(b) = k * Codes(a)
<1> DEFINE B == Byte
           C == Square(B)
           D == Square(C)
           E == Square(D)
<1>1. B \in Nat \ {0} /\ B % 2 = 0
  BY SizesAssumption
<1> HIDE DEF B
<1>2. C \in Nat \ {0} /\ C % 2 = 0 /\ C = B * B
  BY <1>1, SquareFacts
<1> HIDE DEF C
<1>3. D \in Nat \ {0} /\ D % 2 = 0 /\ D = C * C
  BY <1>2, SquareFacts
<1> HIDE DEF D
<1>4. E \in Nat \ {0} /\ E % 2 = 0 /\ E = D * D
  BY <1>3, SquareFacts
<1> HIDE DEF E
<1>5. Codes(1) = B /\ Codes(2) = C /\ Codes(4) = D /\ Codes(8) = E
  BY DEF Codes, B, C, D, E
<1>6. \A n \in Nat : n = 1 * n
  OBVIOUS
<1>7. D = (C * B) * B /\ E = (D * C) * C /\ E = ((D * C) * B) * B
  BY <1>1, <1>2, <1>3, <1>4
<1>8. /\ C * B \in Nat /\ D * C \in Nat /\ (D * C) * B \in Nat
  BY <1>1, <1>2, <1>3
<1> QED BY <1>1, <1>2, <1>3, <1>4, <1>5, <1>6, <1>7, <1>8, SMTT(30) DEF Widths

LEMMA CodesEven ==
  ASSUME NEW a \in Widths
  PROVE  Codes(a) \in Nat \ {0} /\ Codes(a) % 2 = 0
<1>1. a <= a
  BY DEF Widths
<1> QED BY <1>1, CodesFacts

(* Converting to a width adds a multiple of its codes.                     *)
LEMMA WidthShift ==
  ASSUME NEW v \in Int, NEW kind \in {"signed", "unsigned"}, NEW b \in Widths
  PROVE  \E m \in Int : ToWidth(v, kind, b) = m * Codes(b) + v
<1> DEFINE c == Codes(b)
           q == v \div c
           r == v % c
<1>1. c \in Nat \ {0}
  BY CodesEven
<1>2. q \in Int /\ r \in Int /\ v = c * q + r
  BY <1>1
<1>3. ToWidth(v, kind, b) = r \/ ToWidth(v, kind, b) = r - c
  BY DEF ToWidth
<1> HIDE DEF c, q, r
<1>4. r = (-q) * c + v /\ r - c = (-q - 1) * c + v
  BY <1>1, <1>2
<1> QED BY <1>2, <1>3, <1>4 DEF c

(* A value that so many bytes can have.                                    *)
Holds(kind, size, v) ==
  CASE kind = "unsigned" -> v \in 0..Codes(size) - 1
    [] kind = "signed" -> v \in -(Codes(size) \div 2)..(Codes(size) \div 2) - 1
    [] kind = "bool" -> v \in {0, 1}
    [] kind = "float" -> v \in Int /\ (size = 8 \/ v % 2 = 0)

(* ... and what differs from a value by such a multiple is converted to it. *)
LEMMA WidthUnshift ==
  ASSUME NEW kind \in {"signed", "unsigned"}, NEW a \in Widths, NEW h, Holds(kind, a, h),
         NEW n \in Int
  PROVE  h \in Int /\ ToWidth(n * Codes(a) + h, kind, a) = h
<1> DEFINE c == Codes(a)
           x == n * c + h
<1>1. c \in Nat \ {0} /\ c % 2 = 0
  BY CodesEven
<1>2. c \div 2 \in Nat /\ c = 2 * (c \div 2)
  BY <1>1
<1>3. kind = "unsigned" => h \in 0..c - 1
  BY DEF Holds
<1>4. kind = "signed" => h \in -(c \div 2)..(c \div 2) - 1
  BY DEF Holds
<1>5. kind = "unsigned" => ToWidth(x, kind, a) = x % c
  BY DEF ToWidth
<1>6. kind = "signed" => ToWidth(x, kind, a) = IF x % c < c \div 2 THEN x % c ELSE (x % c) - c
  BY DEF ToWidth
<1> HIDE DEF c
<1>7. h \in Int
  BY <1>1, <1>2, <1>3, <1>4
<1>8. ASSUME h >= 0 PROVE x % c = h
  <2>1. h \in 0..c - 1
    BY <1>1, <1>2, <1>3, <1>4, <1>7, <1>8
  <2> QED BY <1>1, <2>1, DivisionIs
<1>9. ASSUME h < 0 PROVE x % c = h + c
  <2>1. h + c \in 0..c - 1
    BY <1>1, <1>2, <1>3, <1>4, <1>7, <1>9
  <2>2. ((n - 1) * c + (h + c)) % c = h + c
    <3>1. n - 1 \in Int
      OBVIOUS
    <3> QED BY <1>1, <2>1, <3>1, DivisionIs
  <2>3. (n - 1) * c + (h + c) = x
    BY <1>1, <1>7
  <2> QED BY <2>2, <2>3
<1> HIDE DEF x
<1>10. ToWidth(x, kind, a) = h
  <2>1. CASE h >= 0
    BY <1>1, <1>2, <1>3, <1>4, <1>5, <1>6, <1>8, <2>1
  <2>2. CASE h < 0
    BY <1>1, <1>2, <1>3, <1>4, <1>5, <1>6, <1>7, <1>9, <2>2
  <2> QED BY <1>7, <2>1, <2>2
<1> QED BY <1>7, <1>10 DEF x, c

(* What is converted is a value of its new type.                           *)
LEMMA WidthHolds ==
  ASSUME NEW v \in Int, NEW kind \in {"signed", "unsigned", "bool", "float"}, NEW a \in Widths
  PROVE  Holds(kind, a, ToWidth(v, kind, a))
<1> DEFINE c == Codes(a)
<1>1. c \in Nat \ {0} /\ c % 2 = 0
  BY CodesEven
<1>2. c \div 2 \in Nat /\ c = 2 * (c \div 2) /\ v % c \in 0..c - 1
  BY <1>1
<1>3. CASE kind = "unsigned"
  BY <1>2, <1>3 DEF Holds, ToWidth
<1>4. CASE kind = "signed"
  <2> DEFINE r == v % c
             w == IF r < c \div 2 THEN r ELSE r - c
  <2>1. ToWidth(v, kind, a) = w
    BY <1>4 DEF ToWidth
  <2> HIDE DEF c, r
  <2>2. w \in -(c \div 2)..(c \div 2) - 1
    BY <1>1, <1>2 DEF r
  <2> QED BY <1>4, <2>1, <2>2 DEF Holds, c
<1>5. CASE kind = "bool"
  BY <1>5 DEF Holds, ToWidth
<1>6. CASE kind = "float"
  <2>1. (2 * (v \div 2)) % 2 = 0
    OBVIOUS
  <2> QED BY <1>6, <2>1 DEF Holds, ToWidth
<1> QED BY <1>3, <1>4, <1>5, <1>6

(* What the data value and the record have for a variable, when the record *)
(* is the one generated: the record is the wider one, except that a BOOL   *)
(* and an enumeration become indices.                                      *)
TextPair ==
  /\ DataType = Number("string", decl.bytes) /\ ValueType.kind = "string"
  /\ ValueType.size \in Nat /\ decl.bytes <= ValueType.size
WholePair ==
  /\ DataType = Number(DataType.kind, DataType.size)
  /\ DataType.kind \in {"signed", "unsigned"} /\ DataType.size \in Widths
  /\ ValueType.kind \in {"signed", "unsigned"} /\ ValueType.size \in Widths
  /\ DataType.size <= ValueType.size
BoolPair == DataType = Number("bool", 1) /\ ValueType = Number("unsigned", 2)
RealPair ==
  /\ DataType = Number(DataType.kind, DataType.size)
  /\ DataType.kind = "float" /\ DataType.size \in {4, 8} /\ ValueType = Number("float", 8)

LEMMA IntegerTypes ==
  ASSUME decl \in Declarations, support \in Supports, AsGenerated, decl.ptype = "int"
  PROVE  WholePair
<1>1. decl.type \in OneByte \cup TwoBytes \cup FourBytes \cup EightBytes
  BY DeclarationsAssumption
<1>2. \/ decl.type \in OneByte /\ deduce_size = 1
      \/ decl.type \in TwoBytes /\ deduce_size = 2
      \/ decl.type \in FourBytes /\ deduce_size = 4
      \/ decl.type \in EightBytes /\ deduce_size = 8
  BY <1>1 DEF deduce_size, OneByte, TwoBytes, FourBytes, EightBytes
<1>3. DataType = Number("signed", deduce_size) \/ DataType = Number("unsigned", deduce_size)
  BY <1>2 DEF DataType, Number, OneByte, TwoBytes, FourBytes, EightBytes
<1>4. tname = DefaultType /\ ~Raw
  BY DEF AsGenerated, tname
<1>5. CASE LongInt
  <2>1. tname \in {"int64in", "int64out"}
    BY <1>4, <1>5 DEF DefaultType, Direction
  <2>2. ValueType = Number("signed", 8)
    BY <2>1 DEF ValueType, IntegerValue, Binary, States
  <2> QED BY <1>2, <1>3, <2>2 DEF WholePair, Number, Widths
<1>6. CASE ~LongInt
  <2>1. tname \in {"longin", "longout"}
    BY <1>4, <1>6 DEF DefaultType, Direction
  <2>2. ValueType = Number("signed", 4)
    BY <2>1 DEF ValueType, IntegerValue, Binary, States
  <2>3. deduce_size # 8
    BY <1>6, SupportsAssumption DEF LongInt, AsGenerated
  <2> QED BY <1>2, <1>3, <2>2, <2>3 DEF WholePair, Number, Widths
<1> QED BY <1>5, <1>6

LEMMA TextTypes ==
  ASSUME decl \in Declarations, support \in Supports, AsGenerated, decl.ptype = "string"
  PROVE  TextPair
<1>1. decl.type = "STRING" /\ decl.length \in Nat /\ deduce_size = decl.length
  BY DeclarationsAssumption DEF deduce_size
<1>2. DataType = Number("string", decl.bytes)
  BY <1>1 DEF DataType, OneByte, TwoBytes, FourBytes, EightBytes
<1>3. tname = DefaultType /\ decl.bytes <= deduce_size + 1 /\ deduce_size < MaxLongString
      /\ decl.bytes \in Nat /\ MaxString \in Nat /\ MaxLongString \in Nat
  BY DeclarationsAssumption, SizesAssumption DEF AsGenerated, tname
<1>4. CASE LongString
  <2>1. tname \in {"lsi", "lso"}
    BY <1>3, <1>4 DEF DefaultType, Direction
  <2>2. ValueType = Number("string", SIZV)
    BY <2>1 DEF ValueType, TextValue, Binary, States
  <2>3. SIZV = deduce_size + 1
    BY <1>1, <1>3 DEF SIZV, Smaller
  <2> QED BY <1>1, <1>2, <1>3, <2>2, <2>3 DEF TextPair, Number
<1>5. CASE ~LongString
  <2>1. tname \in {"stringin", "stringout"}
    BY <1>3, <1>5 DEF DefaultType, Direction
  <2>2. ValueType = Number("string", MaxString)
    BY <2>1 DEF ValueType, TextValue, Binary, States
  <2>3. deduce_size < MaxString
    BY <1>1, <1>3, <1>5, SupportsAssumption DEF LongString, AsGenerated
  <2> QED BY <1>1, <1>2, <1>3, <2>2, <2>3 DEF TextPair, Number
<1> QED BY <1>4, <1>5

LEMMA OtherTypes ==
  ASSUME decl \in Declarations, support \in Supports, AsGenerated,
         decl.ptype \in {"real", "bool", "enum"}
  PROVE  RealPair \/ BoolPair \/ WholePair
<1>1. tname = DefaultType /\ ~Raw
  BY DEF AsGenerated, tname
<1>2. CASE decl.ptype = "real"
  <2>1. tname \in {"ai", "ao"}
    BY <1>1, <1>2 DEF DefaultType, Direction
  <2>2. ValueType = Number("float", 8)
    BY <1>1, <2>1 DEF ValueType, AnalogValue, Binary, States
  <2>3. DataType = Number("float", 4) \/ DataType = Number("float", 8)
    BY <1>2, DeclarationsAssumption DEF DataType, OneByte, FourBytes, EightBytes
  <2> QED BY <2>2, <2>3 DEF RealPair, Number
<1>3. CASE decl.ptype = "bool"
  <2>1. tname \in Binary
    BY <1>1, <1>3 DEF DefaultType, Direction, Binary
  <2>2. ValueType = Number("unsigned", 2)
    BY <1>1, <2>1 DEF ValueType, BinaryValue, Binary, States
  <2>3. DataType = Number("bool", 1)
    BY <1>3, DeclarationsAssumption DEF DataType, OneByte, FourBytes, EightBytes
  <2> QED BY <2>2, <2>3 DEF BoolPair
<1>4. CASE decl.ptype = "enum"
  <2>1. tname \in States
    BY <1>1, <1>4 DEF DefaultType, Direction, States
  <2>2. ValueType = Number("unsigned", 2)
    BY <1>1, <2>1 DEF ValueType, StatesValue, Binary, States
  <2>3. DataType \in {Number("bool", 1), Number("signed", 1), Number("unsigned", 1),
                      Number("signed", 2)}
    BY <1>4 DEF DataType, OneByte, FourBytes, EightBytes
  <2> QED BY <2>2, <2>3 DEF BoolPair, WholePair, Number, Widths
<1> QED BY <1>2, <1>3, <1>4

LEMMA GeneratedTypes ==
  ASSUME decl \in Declarations, support \in Supports, AsGenerated
  PROVE  TextPair \/ WholePair \/ BoolPair \/ RealPair
BY DeclarationsAssumption, IntegerTypes, TextTypes, OtherTypes

(* A value that a variable can have.                                       *)
Holding(v) ==
  IF DataType.kind = "string" THEN v \in 0..decl.bytes - 1
  ELSE Holds(DataType.kind, DataType.size, v)

(* A record that shows a value of the variable writes that value.          *)
LEMMA RoundTrip ==
  ASSUME decl \in Declarations, support \in Supports, AsGenerated, NEW v, Holding(v)
  PROVE  /\ WriteValue(ReadValue(v, ValueType), ValueType) = v
         /\ DataType.kind = "string" => Smaller(v, decl.bytes) = v /\ Smaller(v, decl.bytes - 1) = v
         /\ DataType.kind # "string" => InDataValue(v) = v
<1>0. decl.bytes \in Nat \ {0}
  BY DeclarationsAssumption
<1>1. CASE TextPair
  <2>1. DataType.kind = "string" /\ v \in 0..decl.bytes - 1
    BY <1>1 DEF TextPair, Number, Holding
  <2> QED BY <1>0, <1>1, <2>1 DEF TextPair, ReadValue, WriteValue, Smaller
<1>2. CASE WholePair
  <2> DEFINE dk == DataType.kind
             ds == DataType.size
             vk == ValueType.kind
             vs == ValueType.size
             w == ToWidth(v, vk, vs)
  <2>1. /\ dk \in {"signed", "unsigned"} /\ ds \in Widths /\ vk \in {"signed", "unsigned"}
        /\ vs \in Widths /\ ds <= vs
    BY <1>2 DEF WholePair
  <2>2. Holds(dk, ds, v)
    BY <2>1 DEF Holding
  <2>3. ReadValue(v, ValueType) = w /\ WriteValue(w, ValueType) = ToWidth(w, dk, ds)
        /\ InDataValue(v) = ToWidth(v, dk, ds)
    BY <2>1 DEF ReadValue, WriteValue, InDataValue
  <2> HIDE DEF dk, ds, vk, vs
  <2>4. 0 \in Int /\ Codes(ds) \in Nat
    BY <2>1, CodesEven
  <2>5. v \in Int /\ ToWidth(0 * Codes(ds) + v, dk, ds) = v
    BY <2>1, <2>2, <2>4, WidthUnshift
  <2>6. ToWidth(v, dk, ds) = v
    BY <2>4, <2>5
  <2>7. PICK m \in Int : w = m * Codes(vs) + v
    BY <2>1, <2>5, WidthShift
  <2>8. PICK k \in Nat : Codes(vs) = k * Codes(ds)
    BY <2>1, CodesFacts
  <2>9. w = (m * k) * Codes(ds) + v /\ m * k \in Int
    BY <2>4, <2>7, <2>8
  <2>10. ToWidth(w, dk, ds) = v
    BY <2>1, <2>2, <2>9, WidthUnshift
  <2> QED BY <2>1, <2>3, <2>6, <2>10 DEF dk
<1>3. CASE BoolPair
  <2>1. v \in {0, 1}
    BY <1>3 DEF BoolPair, Number, Holding, Holds
  <2>2. Codes(2) \in Nat /\ Codes(2) > 1
    BY CodesEven DEF Widths
  <2>3. v % Codes(2) = v
    BY <2>1, <2>2
  <2>4. ReadValue(v, ValueType) = v
    BY <1>3, <2>3 DEF BoolPair, Number, ReadValue, ToWidth
  <2>5. WriteValue(v, ValueType) = v /\ InDataValue(v) = v
    BY <1>3, <2>1 DEF BoolPair, Number, WriteValue, InDataValue, ToWidth
  <2>6. DataType.kind # "string"
    BY <1>3 DEF BoolPair, Number
  <2> QED BY <2>4, <2>5, <2>6
<1>4. CASE RealPair
  <2>1. v \in Int /\ (DataType.size = 8 \/ v % 2 = 0)
    BY <1>4 DEF RealPair, Holding, Holds
  <2>2. InDataValue(v) = v
    BY <1>4, <2>1 DEF RealPair, InDataValue, ToWidth
  <2>3. ReadValue(v, ValueType) = v
    BY <1>4 DEF RealPair, Number, ReadValue, ToWidth
  <2>4. WriteValue(v, ValueType) = InDataValue(v)
    BY <1>4 DEF RealPair, Number, WriteValue
  <2> QED BY <1>4, <2>2, <2>3, <2>4 DEF RealPair
<1> QED BY <1>1, <1>2, <1>3, <1>4, GeneratedTypes

(* What an operator puts arrives as a value of the variable.               *)
LEMMA PutHolds ==
  ASSUME decl \in Declarations, support \in Supports, AsGenerated,
         NEW v \in ValuesOf(ValueType)
  PROVE  IF DataType.kind = "string" THEN WriteValue(v, ValueType) \in Nat
         ELSE Holding(WriteValue(v, ValueType))
<1>1. CASE TextPair
  BY <1>1 DEF TextPair, Number, ValuesOf, WriteValue, Smaller
<1>2. CASE WholePair \/ BoolPair \/ RealPair
  <2>1. /\ DataType.kind \in {"signed", "unsigned", "bool", "float"} /\ DataType.size \in Widths
        /\ ValueType.kind # "string"
    BY <1>2 DEF WholePair, BoolPair, RealPair, Number, Widths
  <2>2. v \in Int
    <3>1. CASE ValueType.kind = "float"
      BY <3>1, SizesAssumption DEF ValuesOf
    <3>2. CASE ValueType.kind \in {"signed", "unsigned"}
      BY <3>2 DEF ValuesOf
    <3> QED BY <1>2, <3>1, <3>2 DEF WholePair, BoolPair, RealPair, Number
  <2>3. WriteValue(v, ValueType) = ToWidth(v, DataType.kind, DataType.size)
    BY <2>1 DEF WriteValue, InDataValue
  <2> QED BY <2>1, <2>2, <2>3, WidthHolds DEF Holding
<1> QED BY <1>1, <1>2, GeneratedTypes

(* Where the value is on its way, until an operator puts another one.      *)
EchoInv ==
  /\ decl \in Declarations /\ support \in Supports
  /\ AsGenerated =>
       /\ Holding(held)
       /\ stage = "read" => dv = held
       /\ stage = "shown" => origin = {held} /\ val = ReadValue(held, ValueType)
       /\ stage = "put" => origin = {} /\ val \in ValuesOf(ValueType)
       /\ stage = "written" =>
            /\ origin = {} \/ (origin = {held} /\ dv = held)
            /\ IF DataType.kind = "string" THEN dv \in Nat ELSE Holding(dv)
       /\ stage = "sent" => origin \subseteq {held}

LEMMA TypesStay ==
  ASSUME decl' = decl, support' = support
  PROVE  AsGenerated' = AsGenerated /\ DataType' = DataType /\ ValueType' = ValueType
<1>1. DataType' = DataType /\ deduce_size' = deduce_size /\ tname' = tname /\ Raw' = Raw
  BY DEF DataType, tname, Raw, Given, DefaultType, deduce_size, LongInt, LongString, Direction
<1>2. AsGenerated' = AsGenerated
  BY <1>1 DEF AsGenerated, SizeFits, Given
<1>3. ValueType' = ValueType
  BY <1>1 DEF ValueType, AnalogValue, BinaryValue, IntegerValue, StatesValue, TextValue, SIZV
<1> QED BY <1>1, <1>2, <1>3

LEMMA EchoInit == ValueInit => EchoInv
<1> SUFFICES ASSUME ValueInit, AsGenerated PROVE Holding(held)
  BY DEF ValueInit, EchoInv
<1>1. decl \in Declarations /\ support \in Supports /\ held \in ValuesOf(HeldType)
      /\ decl.bytes \in Nat \ {0}
  BY DeclarationsAssumption DEF ValueInit
<1>2. DataType.size = decl.bytes
  BY DEF AsGenerated, SizeFits
<1>3. DataType.kind \in {"string", "signed", "unsigned", "bool", "float"}
      /\ DataType = Number(DataType.kind, DataType.size)
  BY <1>1, GeneratedTypes DEF TextPair, WholePair, BoolPair, RealPair, Number
<1>4. HeldType.kind = DataType.kind /\ HeldType.size = DataType.size
  BY <1>2, <1>3 DEF HeldType, Number
<1> QED BY <1>1, <1>2, <1>3, <1>4, SizesAssumption DEF ValuesOf, Holding, Holds

LEMMA EchoStep == EchoInv /\ ValueNext => EchoInv'
<1> SUFFICES ASSUME EchoInv, ValueNext PROVE EchoInv'
  OBVIOUS
<1>1. decl \in Declarations /\ support \in Supports /\ decl' = decl /\ support' = support
  BY DEF EchoInv, ValueNext, PlcWriteBinary, RecordRead, OperatorPut, RecordWrite, PlcReadBinary
<1> SUFFICES ASSUME AsGenerated' PROVE EchoInv'
  BY <1>1 DEF EchoInv
<1>2. AsGenerated
  BY <1>1, TypesStay
<1>3. DataType' = DataType /\ ValueType' = ValueType
  BY <1>1, TypesStay
<1>4. SizeFits /\ (Holding(held') => Holding(held)') /\ (Holding(dv') => Holding(dv)')
  BY <1>1, <1>2, <1>3 DEF AsGenerated, Holding
<1>5. /\ decl.bytes \in Nat \ {0} /\ Holding(held)
      /\ stage = "read" => dv = held
      /\ stage = "shown" => origin = {held} /\ val = ReadValue(held, ValueType)
      /\ stage = "put" => origin = {} /\ val \in ValuesOf(ValueType)
      /\ stage = "written" =>
           /\ origin = {} \/ (origin = {held} /\ dv = held)
           /\ IF DataType.kind = "string" THEN dv \in Nat ELSE Holding(dv)
  BY <1>1, <1>2, DeclarationsAssumption DEF EchoInv
<1> DEFINE string == DataType.kind = "string"
<1>6. CASE PlcWriteBinary
  <2>1. stage' = "read" /\ held' = held
        /\ dv' = IF string THEN Smaller(held, decl.bytes) ELSE InDataValue(held)
    BY <1>6 DEF PlcWriteBinary
  <2>2. dv' = held
    BY <1>1, <1>2, <1>5, <2>1, RoundTrip
  <2> QED BY <1>1, <1>4, <1>5, <2>1, <2>2 DEF EchoInv
<1>7. CASE RecordRead
  <2>1. stage = "read" /\ stage' = "shown" /\ held' = held /\ origin' = {held}
        /\ val' = ReadValue(dv, ValueType)
    BY <1>7 DEF RecordRead
  <2> QED BY <1>1, <1>3, <1>4, <1>5, <2>1 DEF EchoInv
<1>8. CASE OperatorPut
  <2>1. stage' = "put" /\ held' = held /\ origin' = {} /\ val' \in ValuesOf(ValueType)
    BY <1>8 DEF OperatorPut
  <2> QED BY <1>1, <1>3, <1>4, <1>5, <2>1 DEF EchoInv
<1>9. CASE RecordWrite
  <2>1. stage \in {"shown", "put"} /\ stage' = "written" /\ held' = held /\ origin' = origin
        /\ dv' = WriteValue(val, ValueType)
    BY <1>9 DEF RecordWrite
  <2>2. CASE stage = "shown"
    <3>1. dv' = held
      BY <1>1, <1>2, <1>5, <2>1, <2>2, RoundTrip
    <3>2. IF string THEN dv' \in Nat ELSE Holding(dv)'
      BY <1>4, <1>5, <3>1 DEF Holding
    <3> QED BY <1>1, <1>3, <1>4, <1>5, <2>1, <2>2, <3>1, <3>2 DEF EchoInv
  <2>3. CASE stage = "put"
    <3>1. IF string THEN dv' \in Nat ELSE Holding(dv)'
      BY <1>1, <1>2, <1>4, <1>5, <2>1, <2>3, PutHolds
    <3> QED BY <1>1, <1>3, <1>4, <1>5, <2>1, <2>3, <3>1 DEF EchoInv
  <2> QED BY <2>1, <2>2, <2>3
<1>10. CASE PlcReadBinary
  <2>1. stage = "written" /\ stage' = "sent" /\ origin' = origin
        /\ held' = IF string THEN Smaller(dv, decl.bytes - 1) ELSE dv
    BY <1>4, <1>10 DEF PlcReadBinary
  <2>2. Holding(held')
    BY <1>5, <2>1 DEF Holding, Smaller
  <2>3. origin \subseteq {held'}
    BY <1>1, <1>2, <1>5, <2>1, RoundTrip
  <2> QED BY <1>1, <1>3, <1>4, <2>1, <2>2, <2>3 DEF EchoInv
<1> QED BY <1>6, <1>7, <1>8, <1>9, <1>10 DEF ValueNext

(* A record that writes back what it shows (devTcTemplate.h:829-853)       *)
(* leaves the variable as it is, for every type the generator makes a      *)
(* record for, whatever has been written before.                           *)
THEOREM EchoKeepsValue == ValueSpec => []EchoIsHarmless
<1>1. ASSUME EchoInv, UNCHANGED valueVars PROVE EchoInv'
  <2>1. UNCHANGED <<decl, support, stage, held, dv, val, origin>>
    BY <1>1 DEF valueVars
  <2>2. AsGenerated' = AsGenerated /\ DataType' = DataType /\ ValueType' = ValueType
    BY <2>1, TypesStay
  <2> QED BY <1>1, <2>1, <2>2 DEF EchoInv, Holding
<1>2. EchoInv => EchoIsHarmless
  BY DEF EchoInv, EchoIsHarmless
<1> QED BY EchoInit, EchoStep, <1>1, <1>2, PTL DEF ValueSpec

(***************************************************************************)
(* The read requests; Spec, Init and Next are those of ReadRequests.       *)
(***************************************************************************)

(* The open request ends where the last symbol ends; before the first      *)
(* symbol it is the empty window at that symbol.                           *)
OpenEndsAtLast ==
  LET open == requests[nRequest] IN
  /\ open.group = last.group
  /\ placed = {} => open.length = 0 /\ open.offset = last.offset
  /\ placed # {} => /\ End(open) = SymbolEnd(last)
                    /\ [symbol |-> last, num |-> nRequest] \in placed

RequestInv == TypeOK /\ OpenEndsAtLast /\ Covered

LEMMA SymbolFacts ==
  ASSUME NEW s \in Symbols
  PROVE  s.group \in Nat /\ s.offset \in Nat /\ s.size \in Nat /\ s.size > 0
BY SymbolsAssumption

LEMMA RequestInvInit == Init => RequestInv
<1> SUFFICES ASSUME Init PROVE RequestInv
  OBVIOUS
<1>1. last \in Symbols /\ last.group \in Nat /\ last.offset \in Nat
  BY SymbolFacts DEF Init
<1>2. requests \in [0..nRequest -> Requests]
  BY <1>1 DEF Init, Requests
<1> QED
  BY <1>1, <1>2 DEF Init, RequestInv, TypeOK, OpenEndsAtLast, Covered

(* A list that is sorted and whose symbols share no memory goes forward    *)
(* within a group.                                                         *)
LEMMA Forward ==
  ASSUME RequestInv, ~Overlaps, NEW s \in Symbols, CanPlace(s),
         s.group = requests[nRequest].group
  PROVE  NextGap(s) >= 0
<1>1. requests[nRequest] \in Requests /\ last \in Symbols
  BY DEF RequestInv, TypeOK
<1>2. CASE placed = {}
  BY <1>1, <1>2, SymbolFacts DEF RequestInv, OpenEndsAtLast, CanPlace, NextGap, End, Requests
<1>3. CASE placed # {}
  <2>1. s.group = last.group /\ End(requests[nRequest]) = SymbolEnd(last)
    BY <1>3 DEF RequestInv, OpenEndsAtLast
  <2>2. ~(s.group <= last.group /\ s.offset < last.offset)
    BY <1>3 DEF CanPlace, MayFollow, compByOffset
  <2>3. Disjoint(s, last)
    BY <1>3 DEF CanPlace, MayFollow, RequestInv, OpenEndsAtLast
  <2> QED
    BY <1>1, <2>1, <2>2, <2>3, SymbolFacts DEF NextGap, Disjoint, SymbolEnd
<1> QED
  BY <1>2, <1>3

LEMMA NewRequestStep ==
  ASSUME RequestInv, NEW s \in Symbols, NewRequest(s)
  PROVE  RequestInv'
<1> DEFINE w == [group |-> s.group, offset |-> s.offset, length |-> s.size]
<1>1. s.group \in Nat /\ s.offset \in Nat /\ s.size \in Nat /\ s.size > 0
  BY SymbolFacts
<1>2. nRequest \in Nat /\ requests \in [0..nRequest -> Requests]
      /\ placed \subseteq [symbol : Symbols, num : 0..nRequest]
  BY DEF RequestInv, TypeOK
<1>3. /\ nRequest' = nRequest + 1 /\ last' = s /\ totalGap' = 0
      /\ placed' = placed \cup {[symbol |-> s, num |-> nRequest + 1]}
      /\ requests'[nRequest + 1] = w
      /\ \A n \in 0..nRequest : requests'[n] = requests[n]
  BY <1>2 DEF NewRequest
<1>4. w \in Requests
  BY <1>1 DEF Requests
<1>5. requests' \in [0..nRequest' -> Requests]
  BY <1>2, <1>3, <1>4 DEF NewRequest
<1>6. TypeOK'
  BY <1>2, <1>3, <1>5 DEF TypeOK
<1>7. OpenEndsAtLast'
  <2>1. requests'[nRequest'] = w /\ placed' # {}
    BY <1>3
  <2>2. w.group = s.group /\ w.offset + w.length = s.offset + s.size
    OBVIOUS
  <2>3. [symbol |-> last', num |-> nRequest'] \in placed'
    BY <1>3
  <2> QED
    BY <1>3, <2>1, <2>2, <2>3 DEF OpenEndsAtLast, End, SymbolEnd
<1>8. Covered'
  <2> SUFFICES ASSUME ~Overlaps, NEW p \in placed' PROVE InWindow(p)'
    BY DEF Covered
  <2>1. CASE p \in placed
    <3>1. InWindow(p) /\ requests'[p.num] = requests[p.num]
      BY <1>2, <1>3, <2>1 DEF RequestInv, Covered
    <3> QED
      BY <3>1 DEF InWindow
  <2>2. CASE p = [symbol |-> s, num |-> nRequest + 1]
    BY <1>1, <1>3, <2>2 DEF InWindow, End, SymbolEnd
  <2> QED
    BY <1>3, <2>1, <2>2
<1> QED
  BY <1>6, <1>7, <1>8 DEF RequestInv

LEMMA ExtendRequestStep ==
  ASSUME RequestInv, NEW s \in Symbols, ExtendRequest(s)
  PROVE  RequestInv'
<1> DEFINE open == requests[nRequest]
<1>1. s.group \in Nat /\ s.offset \in Nat /\ s.size \in Nat /\ s.size > 0
  BY SymbolFacts
<1>2. nRequest \in Nat /\ requests \in [0..nRequest -> Requests]
      /\ placed \subseteq [symbol : Symbols, num : 0..nRequest]
      /\ totalGap \in Int
  BY DEF RequestInv, TypeOK
<1>3. open \in Requests /\ open.offset \in Nat /\ open.length \in Int
  BY <1>2 DEF Requests
<1>4. open.group = s.group
  BY DEF ExtendRequest, NeedsRequest
<1>5. NextGap(s) = s.offset - (open.offset + open.length) /\ NextGap(s) \in Int
  BY <1>1, <1>3 DEF NextGap, End
<1>6. NextLength(s) = open.length + s.size + NextGap(s) /\ NextLength(s) \in Int
  BY <1>1, <1>3, <1>5 DEF NextLength
<1>7. /\ nRequest' = nRequest /\ last' = s
      /\ placed' = placed \cup {[symbol |-> s, num |-> nRequest]}
      /\ requests'[nRequest] = [open EXCEPT !.length = NextLength(s)]
      /\ \A n \in 0..nRequest : n # nRequest => requests'[n] = requests[n]
  BY <1>2 DEF ExtendRequest
<1>8. /\ requests'[nRequest].group = open.group
      /\ requests'[nRequest].offset = open.offset
      /\ requests'[nRequest].length = NextLength(s)
      /\ requests'[nRequest] \in Requests
  BY <1>3, <1>6, <1>7 DEF Requests
<1>9. TypeOK'
  <2>1. requests' \in [0..nRequest' -> Requests]
    BY <1>2, <1>7, <1>8 DEF ExtendRequest
  <2>2. totalGap' \in Int
    BY <1>2, <1>5 DEF ExtendRequest
  <2> QED
    BY <1>2, <1>7, <2>1, <2>2 DEF TypeOK
<1>10. End(requests'[nRequest]) = SymbolEnd(s)
  BY <1>1, <1>3, <1>5, <1>6, <1>8 DEF End, SymbolEnd
<1>11. OpenEndsAtLast'
  BY <1>4, <1>7, <1>8, <1>10 DEF OpenEndsAtLast, End, SymbolEnd
<1>12. Covered'
  <2> SUFFICES ASSUME ~Overlaps, NEW p \in placed' PROVE InWindow(p)'
    BY DEF Covered
  <2>1. NextGap(s) >= 0
    BY <1>4, Forward DEF ExtendRequest
  <2>2. CASE p \in placed /\ p.num # nRequest
    <3>1. InWindow(p) /\ requests'[p.num] = requests[p.num]
      BY <1>2, <1>7, <2>2 DEF RequestInv, Covered
    <3> QED
      BY <3>1 DEF InWindow
  <2>3. CASE p \in placed /\ p.num = nRequest
    <3>1. /\ open.group = p.symbol.group /\ open.offset <= p.symbol.offset
          /\ SymbolEnd(p.symbol) <= open.offset + open.length
      BY <2>3 DEF RequestInv, Covered, InWindow, End
    <3>2. p.symbol \in Symbols
      BY <1>2, <2>3
    <3>3. SymbolEnd(p.symbol) \in Nat
      BY <3>2, SymbolFacts DEF SymbolEnd
    <3>4. SymbolEnd(p.symbol) <= open.offset + NextLength(s)
      BY <1>1, <1>3, <1>5, <1>6, <2>1, <3>1, <3>3
    <3> QED
      BY <1>8, <2>3, <3>1, <3>4 DEF InWindow, End, SymbolEnd
  <2>4. CASE p = [symbol |-> s, num |-> nRequest]
    <3>1. p.symbol = s /\ p.num = nRequest
      BY <2>4
    <3>2. open.offset <= s.offset
      <4>1. CASE placed = {}
        BY <1>1, <4>1 DEF ExtendRequest, CanPlace, RequestInv, OpenEndsAtLast
      <4>2. CASE placed # {}
        <5>1. [symbol |-> last, num |-> nRequest] \in placed
          BY <4>2 DEF RequestInv, OpenEndsAtLast
        <5>2. InWindow([symbol |-> last, num |-> nRequest])
          BY <5>1 DEF RequestInv, Covered
        <5>3. open.offset <= last.offset /\ SymbolEnd(last) <= open.offset + open.length
          BY <5>2 DEF InWindow, End
        <5>4. last.offset \in Nat /\ last.size \in Nat
          BY SymbolFacts DEF RequestInv, TypeOK
        <5> QED
          BY <1>1, <1>3, <1>5, <2>1, <5>3, <5>4 DEF SymbolEnd
      <4> QED
        BY <4>1, <4>2
    <3> QED
      BY <1>1, <1>4, <1>8, <1>10, <3>1, <3>2 DEF InWindow, SymbolEnd
  <2> QED
    BY <1>7, <2>2, <2>3, <2>4
<1> QED
  BY <1>9, <1>11, <1>12 DEF RequestInv

LEMMA RequestInvNext == RequestInv /\ [Next]_vars => RequestInv'
<1> SUFFICES ASSUME RequestInv, [Next]_vars PROVE RequestInv'
  OBVIOUS
<1>1. ASSUME NEW s \in Symbols, NewRequest(s) PROVE RequestInv'
  BY <1>1, NewRequestStep
<1>2. ASSUME NEW s \in Symbols, ExtendRequest(s) PROVE RequestInv'
  BY <1>2, ExtendRequestStep
<1>3. CASE UNCHANGED vars
  BY <1>3 DEF vars, RequestInv, TypeOK, OpenEndsAtLast, Covered, InWindow, End, SymbolEnd
<1> QED
  BY <1>1, <1>2, <1>3 DEF Next

(* The invariant holds after every prefix of every sorted list.            *)
THEOREM RequestsInvariance == Spec => []RequestInv
BY RequestInvInit, RequestInvNext, PTL DEF Spec

(* No symbol reaches out of the response buffer of its request, for any    *)
(* limits and any number of symbols that share no memory.                  *)
THEOREM BuffersHoldSymbols == Spec => []Covered
BY RequestsInvariance, PTL DEF RequestInv

(* The variables keep their types; the index of a symbol's request exists. *)
THEOREM RequestsTyped == Spec => []TypeOK
BY RequestsInvariance, PTL DEF RequestInv

(* A request is cut before the symbol that would make it too long; only a  *)
(* gap of the size allowed, or one symbol alone, takes it further.         *)
LEMMA SizeStep == RequestInv /\ SizeBounded /\ [Next]_vars => SizeBounded'
<1> SUFFICES ASSUME RequestInv, SizeBounded, [Next]_vars PROVE SizeBounded'
  OBVIOUS
<1>1. /\ nRequest \in Nat /\ requests \in [0..nRequest -> Requests]
      /\ MaxReqSize \in Nat /\ MaxSingleGap \in Nat
  BY LimitsAssumption DEF RequestInv, TypeOK
<1>2. ASSUME NEW s \in Symbols, NewRequest(s) PROVE SizeBounded'
  <2>1. /\ nRequest' = nRequest + 1 /\ requests'[nRequest + 1].length = s.size
        /\ \A n \in 0..nRequest : requests'[n] = requests[n]
        /\ placed' = placed \cup {[symbol |-> s, num |-> nRequest + 1]}
    BY <1>1, <1>2 DEF NewRequest
  <2>2. \A n \in 0..nRequest' : n \in 0..nRequest \/ n = nRequest + 1
    BY <1>1, <2>1
  <2>3. \E p \in placed' : p.num = nRequest + 1 /\ p.symbol.size = s.size
    <3>1. [symbol |-> s, num |-> nRequest + 1] \in placed'
      BY <2>1
    <3> QED
      BY <3>1
  <2>4. ASSUME ~Overlaps, NEW n \in 0..nRequest
        PROVE  \/ requests'[n].length <= MaxReqSize + MaxSingleGap
               \/ \E p \in placed' : p.num = n /\ requests'[n].length = p.symbol.size
    BY <2>1, <2>4 DEF SizeBounded
  <2> QED
    BY <2>1, <2>2, <2>3, <2>4 DEF SizeBounded
<1>3. ASSUME NEW s \in Symbols, ExtendRequest(s) PROVE SizeBounded'
  <2>1. s.offset \in Nat /\ s.size \in Nat
    BY SymbolFacts
  <2>2. requests[nRequest] \in Requests
    BY <1>1
  <2>3. NextGap(s) \in Int /\ NextGap(s) <= MaxSingleGap
    BY <1>1, <1>3, <2>1, <2>2 DEF ExtendRequest, NeedsRequest, NextGap, End, Requests
  <2>4. NextLength(s) <= MaxReqSize + MaxSingleGap
    <3>1. requests[nRequest].length \in Int /\ requests[nRequest].length + s.size <= MaxReqSize
      BY <1>1, <1>3, <2>1, <2>2 DEF ExtendRequest, NeedsRequest, Requests
    <3> QED
      BY <1>1, <2>1, <2>3, <3>1 DEF NextLength
  <2>5. /\ nRequest' = nRequest /\ requests'[nRequest].length = NextLength(s)
        /\ \A n \in 0..nRequest : n # nRequest => requests'[n] = requests[n]
        /\ placed \subseteq placed'
    BY <1>1, <1>3 DEF ExtendRequest
  <2> QED
    BY <2>4, <2>5 DEF SizeBounded
<1>4. CASE UNCHANGED vars
  BY <1>4 DEF vars, SizeBounded
<1> QED
  BY <1>2, <1>3, <1>4 DEF Next

(* No request is longer than the limit and one gap, but for the request of *)
(* a single large symbol.                                                  *)
THEOREM RequestSizes == Spec => []SizeBounded
<1> DEFINE SizeInv == RequestInv /\ SizeBounded
<1>1. Init => SizeInv
  BY RequestInvInit, LimitsAssumption DEF Init, SizeBounded
<1>2. SizeInv /\ [Next]_vars => SizeInv'
  BY RequestInvNext, SizeStep
<1>3. SizeInv => SizeBounded
  OBVIOUS
<1> QED
  BY <1>1, <1>2, <1>3, PTL DEF Spec

(* The gap that is counted is no less than what the open request reads for *)
(* nothing, and is as small as the limits want it.                         *)
OpenWaste ==
  /\ totalGap \in Nat /\ Cardinality(Waste(nRequest)) <= totalGap
  /\ totalGap <= MinRelGap \/ RelGap * totalGap <= requests[nRequest].length

WasteInv == RequestInv /\ (~Overlaps => OpenWaste) /\ WasteBounded

(* Fewer bytes than k are within the limits that k bytes are within.       *)
LEMMA FewerBytes ==
  ASSUME NEW k \in Nat, NEW c \in Nat, c <= k, NEW len \in Int,
         k <= MinRelGap \/ RelGap * k <= len
  PROVE  c <= MinRelGap \/ RelGap * c <= len
<1>1. k - c \in Nat /\ RelGap \in Nat /\ k = c + (k - c) /\ MinRelGap \in Nat
  BY LimitsAssumption
<1>2. RelGap * (c + (k - c)) = RelGap * c + RelGap * (k - c)
  BY <1>1
<1>3. RelGap * (k - c) \in Nat /\ RelGap * c \in Nat /\ RelGap * k \in Nat
  BY <1>1
<1>4. RelGap * c <= RelGap * k
  BY <1>1, <1>2, <1>3
<1> QED BY <1>1, <1>3, <1>4

(* A window is finite, and so is what it reads for nothing.                *)
LEMMA WasteFinite ==
  ASSUME NEW n \in 0..nRequest, RequestInv
  PROVE  IsFiniteSet(Waste(n)) /\ Cardinality(Waste(n)) \in Nat
<1>1. requests[n] \in Requests
  BY DEF RequestInv, TypeOK
<1>2. requests[n].offset \in Int /\ End(requests[n]) - 1 \in Int
  BY <1>1 DEF Requests, End
<1>3. IsFiniteSet(requests[n].offset..End(requests[n]) - 1)
  BY <1>2, FS_Interval
<1>4. Waste(n) \in SUBSET (requests[n].offset..End(requests[n]) - 1)
  BY DEF Waste
<1>5. IsFiniteSet(Waste(n))
  BY <1>3, <1>4, FS_Subset
<1> QED BY <1>5, FS_CardinalityType

(* The first request begins without waste.                                 *)
LEMMA WasteInit == Init => WasteInv
<1> SUFFICES ASSUME Init PROVE WasteInv
  OBVIOUS
<1>1. /\ RequestInv /\ nRequest = 0 /\ totalGap = 0 /\ requests[0].length = 0
      /\ requests[0].offset = last.offset /\ last.offset \in Nat /\ MinRelGap \in Nat
  BY RequestInvInit, SymbolFacts, LimitsAssumption DEF Init
<1>2. Waste(0) = {}
  BY <1>1 DEF Waste, End
<1>3. OpenWaste
  <2>1. Cardinality(Waste(nRequest)) = 0
    BY <1>1, <1>2, FS_EmptySet
  <2> QED BY <1>1, <2>1 DEF OpenWaste
<1>4. WasteBounded
  <2>1. Cardinality(Waste(nRequest)) = 0 /\ Cardinality(Waste(0)) = 0
    BY <1>1, <1>2, FS_EmptySet
  <2> QED BY <1>1, <2>1 DEF WasteBounded
<1> QED BY <1>1, <1>3, <1>4 DEF WasteInv

(* Only the gap before a symbol adds to it, and one that is too large      *)
(* opens a request.                                                        *)
LEMMA WasteStep == WasteInv /\ [Next]_vars => WasteInv'
<1> SUFFICES ASSUME WasteInv, [Next]_vars PROVE WasteInv'
  OBVIOUS
<1>1. /\ RequestInv /\ RequestInv' /\ nRequest \in Nat /\ requests \in [0..nRequest -> Requests]
      /\ placed \subseteq [symbol : Symbols, num : 0..nRequest]
      /\ MinRelGap \in Nat /\ RelGap \in Nat /\ MaxSingleGap \in Nat
  BY RequestInvNext, LimitsAssumption DEF WasteInv, RequestInv, TypeOK
<1>2. CASE Overlaps
  BY <1>1, <1>2 DEF WasteInv, WasteBounded
<1>3. ASSUME ~Overlaps, NEW s \in Symbols, NewRequest(s) PROVE WasteInv'
  <2>1. s.offset \in Nat /\ s.size \in Nat
    BY SymbolFacts
  <2>2. /\ nRequest' = nRequest + 1 /\ totalGap' = 0
        /\ placed' = placed \cup {[symbol |-> s, num |-> nRequest + 1]}
        /\ requests'[nRequest + 1] = [group |-> s.group, offset |-> s.offset, length |-> s.size]
        /\ \A n \in 0..nRequest : requests'[n] = requests[n]
    BY <1>1, <1>3 DEF NewRequest
  <2>3. ASSUME NEW n \in 0..nRequest PROVE Waste(n)' = Waste(n)
    <3>1. requests'[n] = requests[n] /\ n # nRequest + 1
      BY <1>1, <2>2
    <3>2. \A p \in placed' : p.num = n => p \in placed
      BY <2>2, <3>1
    <3> QED BY <2>2, <3>1, <3>2 DEF Waste
  <2> PICK m : m = nRequest + 1
    OBVIOUS
  <2>4. Waste(m)' = {}
    <3> DEFINE p == [symbol |-> s, num |-> m]
    <3>1. p \in placed' /\ p.num = m /\ p.symbol = s
      BY <2>2
    <3>2. Memory(s) = requests'[m].offset..End(requests'[m]) - 1
      BY <2>2 DEF Memory, End, SymbolEnd
    <3> QED BY <3>1, <3>2 DEF Waste
  <2>5. OpenWaste'
    <3>1. Waste(nRequest)' = Waste(m)'
      BY <2>2 DEF Waste
    <3>2. Cardinality(Waste(nRequest))' = 0 /\ 0 <= 0
      BY <2>4, <3>1, FS_EmptySet
    <3> QED BY <1>1, <2>2, <3>2 DEF OpenWaste
  <2>6. WasteBounded'
    <3> SUFFICES ASSUME NEW n \in 0..nRequest + 1
                 PROVE  (\/ Cardinality(Waste(n)) <= MinRelGap
                         \/ RelGap * Cardinality(Waste(n)) <= requests[n].length)'
      BY <2>2 DEF WasteBounded
    <3>1. CASE n \in 0..nRequest
      BY <1>3, <2>2, <2>3, <3>1 DEF WasteInv, WasteBounded
    <3>2. CASE n = m
      <4>1. Waste(n)' = {}
        BY <2>4, <3>2
      <4> QED BY <1>1, <4>1, FS_EmptySet
    <3> QED BY <1>1, <3>1, <3>2
  <2> QED BY <1>1, <2>5, <2>6 DEF WasteInv
<1>4. ASSUME ~Overlaps, NEW s \in Symbols, ExtendRequest(s) PROVE WasteInv'
  <2> PICK m, open, end, gap :
        m = nRequest /\ open = requests[m] /\ end = End(open) /\ gap = NextGap(s)
    OBVIOUS
  <2>1. /\ s.offset \in Nat /\ s.size \in Nat /\ open.offset \in Nat /\ open.length \in Int
        /\ m \in 0..nRequest /\ open \in Requests
    BY <1>1, SymbolFacts DEF Requests
  <2>2. /\ nRequest' = m /\ totalGap' = totalGap + gap
        /\ placed' = placed \cup {[symbol |-> s, num |-> m]}
        /\ requests'[m] = [open EXCEPT !.length = NextLength(s)]
        /\ \A n \in 0..nRequest : n # m => requests'[n] = requests[n]
    BY <1>1, <1>4 DEF ExtendRequest
  <2>3. gap \in Nat /\ gap = s.offset - end /\ end = open.offset + open.length /\ end \in Int
    <3>1. NextGap(s) >= 0
      BY <1>1, <1>4, Forward DEF ExtendRequest, NeedsRequest
    <3> QED BY <2>1, <3>1 DEF NextGap, End
  <2>4. /\ NextLength(s) = open.length + s.size + gap /\ NextLength(s) \in Int
        /\ requests'[m].offset = open.offset /\ requests'[m].length = NextLength(s)
        /\ End(requests'[m]) = SymbolEnd(s)
    <3>1. NextLength(s) = open.length + s.size + gap
      BY DEF NextLength
    <3>2. NextLength(s) \in Int
      <4>1. open.length \in Int /\ s.size \in Int /\ gap \in Int
        BY <2>1, <2>3
      <4> QED BY <3>1, <4>1
    <3>3. requests'[m].offset = open.offset /\ requests'[m].length = NextLength(s)
      BY <2>1, <2>2 DEF Requests
    <3> QED BY <2>1, <2>3, <3>1, <3>2, <3>3 DEF End, SymbolEnd
  <2>5. ASSUME NEW n \in 0..nRequest, n # m PROVE Waste(n)' = Waste(n)
    <3>1. \A p \in placed' : p.num = n => p \in placed
      BY <2>2, <2>5
    <3> QED BY <2>2, <2>5, <3>1 DEF Waste
  <2>6. Waste(m)' \subseteq Waste(m) \cup (end..s.offset - 1)
    <3> SUFFICES ASSUME NEW byte \in Waste(m)', byte \notin end..s.offset - 1
                 PROVE  byte \in Waste(m)
      OBVIOUS
    <3>1. /\ byte \in open.offset..SymbolEnd(s) - 1
          /\ \A p \in placed' : p.num = m => byte \notin Memory(p.symbol)
      BY <2>4 DEF Waste, Memory, SymbolEnd
    <3>2. byte \notin Memory(s)
      <4> DEFINE p == [symbol |-> s, num |-> m]
      <4>1. p \in placed' /\ p.num = m /\ p.symbol = s
        BY <2>2
      <4> QED BY <3>1, <4>1
    <3>3. byte < end /\ byte \in Int
      BY <2>1, <2>3, <3>1, <3>2 DEF Memory, SymbolEnd
    <3>4. byte \in open.offset..end - 1
      BY <2>1, <2>3, <3>1, <3>3
    <3> QED BY <2>2, <3>1, <3>4 DEF Waste
  <2> PICK before, after : before = Waste(m) /\ after = Waste(m)'
    OBVIOUS
  <2>7. Cardinality(after) \in Nat /\ Cardinality(after) <= totalGap + gap /\ totalGap \in Nat
    <3> DEFINE bytes == end..s.offset - 1
    <3>1. IsFiniteSet(bytes) /\ Cardinality(bytes) = gap
      <4>1. s.offset - 1 \in Int
        BY <2>1
      <4>2. IsFiniteSet(bytes)
            /\ Cardinality(bytes) = IF end > s.offset - 1 THEN 0 ELSE (s.offset - 1) - end + 1
        BY <2>3, <4>1, FS_Interval
      <4> QED BY <2>1, <2>3, <4>2
    <3> HIDE DEF bytes
    <3>2. IsFiniteSet(before) /\ Cardinality(before) \in Nat
      BY <1>1, <2>1, WasteFinite
    <3>3. /\ IsFiniteSet(before \cup bytes)
          /\ Cardinality(before \cup bytes) <= Cardinality(before) + gap
      <4>1. /\ IsFiniteSet(before \cup bytes) /\ IsFiniteSet(before \cap bytes)
            /\ Cardinality(before \cup bytes)
                 = Cardinality(before) + Cardinality(bytes) - Cardinality(before \cap bytes)
        BY <3>1, <3>2, FS_Union, FS_Intersection
      <4>2. Cardinality(before \cap bytes) \in Nat
        BY <4>1, FS_CardinalityType
      <4>3. \A a, b \in Nat : a + gap - b <= a + gap
        BY <2>3
      <4> QED BY <3>1, <3>2, <4>1, <4>2, <4>3
    <3>4. IsFiniteSet(after) /\ Cardinality(after) <= Cardinality(before \cup bytes)
      <4>1. after \in SUBSET (before \cup bytes)
        BY <2>6 DEF bytes
      <4> QED BY <3>3, <4>1, FS_Subset
    <3>5. Cardinality(before) <= totalGap /\ totalGap \in Nat
      BY <1>4 DEF WasteInv, OpenWaste
    <3>6. Cardinality(after) \in Nat /\ Cardinality(before \cup bytes) \in Nat
      BY <3>3, <3>4, FS_CardinalityType
    <3> QED BY <2>3, <3>2, <3>3, <3>4, <3>5, <3>6
  <2>8. NextLength(s) >= 0
    <3>1. open.length >= 0
      <4>1. CASE placed = {}
        BY <1>1, <4>1 DEF RequestInv, OpenEndsAtLast
      <4>2. CASE placed # {}
        <5>1. InWindow([symbol |-> last, num |-> nRequest])
          BY <1>1, <1>4, <4>2 DEF RequestInv, OpenEndsAtLast, Covered
        <5>2. last.offset \in Nat /\ last.size \in Nat
          BY <1>1, SymbolFacts DEF RequestInv, TypeOK
        <5>3. open.offset <= last.offset /\ last.offset + last.size <= open.offset + open.length
          BY <5>1 DEF InWindow, End, SymbolEnd
        <5> QED BY <2>1, <5>2, <5>3
      <4> QED BY <4>1, <4>2
    <3>2. s.size >= 0 /\ gap >= 0 /\ open.length \in Int /\ s.size \in Int /\ gap \in Int
      BY <2>1, <2>3
    <3>3. NextLength(s) = open.length + s.size + gap
      BY <2>4
    <3> QED BY <3>1, <3>2, <3>3
  <2>9. \/ totalGap + gap <= MinRelGap
        \/ RelGap * (totalGap + gap) <= NextLength(s)
    <3> DEFINE a == totalGap + gap
               b == RelGap * a
               c == NextLength(s)
    <3>1. a \in Nat /\ b \in Nat /\ c \in Int /\ c >= 0
      <4>1. a \in Nat
        BY <2>3, <2>7
      <4> QED BY <1>1, <2>4, <2>8, <4>1
    <3>2. ~(a > MinRelGap /\ c >= 0 /\ b > c)
      BY <1>4 DEF ExtendRequest, NeedsRequest, GapsTooLarge
    <3> HIDE DEF a, b, c
    <3>3. a <= MinRelGap \/ b <= c
      BY <1>1, <3>1, <3>2
    <3> QED BY <3>3 DEF a, b, c
  <2>10. OpenWaste'
    <3>1. Waste(nRequest)' = after
      BY <2>2 DEF Waste
    <3>2. totalGap' \in Nat
      BY <2>2, <2>3, <2>7
    <3> QED BY <2>2, <2>4, <2>7, <2>9, <3>1, <3>2 DEF OpenWaste
  <2>11. WasteBounded'
    <3> SUFFICES ASSUME NEW n \in 0..nRequest
                 PROVE  (\/ Cardinality(Waste(n)) <= MinRelGap
                         \/ RelGap * Cardinality(Waste(n)) <= requests[n].length)'
      BY <2>2 DEF WasteBounded
    <3>1. CASE n = m
      <4>1. Waste(n)' = after
        BY <3>1
      <4>2. totalGap + gap \in Nat
        BY <2>3, <2>7
      <4>3. Cardinality(after) <= MinRelGap \/ RelGap * Cardinality(after) <= NextLength(s)
        BY <2>4, <2>7, <2>9, <4>2, FewerBytes
      <4> QED BY <2>4, <3>1, <4>1, <4>3
    <3>2. CASE n # m
      BY <1>4, <2>2, <2>5, <3>2 DEF WasteInv, WasteBounded
    <3> QED BY <3>1, <3>2
  <2> QED BY <1>1, <2>10, <2>11 DEF WasteInv
<1>5. CASE UNCHANGED vars
  BY <1>1, <1>5 DEF vars, WasteInv, OpenWaste, WasteBounded, Waste
<1> QED BY <1>2, <1>3, <1>4, <1>5 DEF Next

(* Both limits of tcComms.h hold of every request, for any list of symbols *)
(* that share no memory and whatever the limits are.                       *)
THEOREM RequestLimits == Spec => []RequestsBounded
<1>1. WasteInv => WasteBounded
  BY DEF WasteInv
<1>2. Spec => []WasteBounded
  BY <1>1, WasteInit, WasteStep, PTL DEF Spec
<1>3. SizeBounded /\ WasteBounded => RequestsBounded
  BY DEF RequestsBounded
<1> QED BY <1>2, <1>3, RequestSizes, PTL

---------------------------------------------------------------------------
(* Records and macro files.                                                *)
OutSpec == OutInit /\ [][OutNext]_outVars

(* Places of numbers in a finite set.                                      *)
LEMMA RankIs ==
  ASSUME NEW I, IsFiniteSet(I), NEW i \in I, i \in Int
  PROVE  Rank(i, I) \in 1..Cardinality(I) /\ Cardinality(I) \in Nat
<1> DEFINE J == {j \in I : j <= i}
<1>1. J \in SUBSET I /\ i \in J
  OBVIOUS
<1>2. IsFiniteSet(J) /\ Cardinality(J) <= Cardinality(I) /\ Cardinality(I) \in Nat
  BY <1>1, FS_Subset, FS_CardinalityType
<1>3. Cardinality(J) \in Nat /\ Cardinality(J) # 0
  BY <1>1, <1>2, FS_CardinalityType, FS_EmptySet
<1> QED BY <1>2, <1>3 DEF Rank

LEMMA RankAppended ==
  ASSUME NEW I \in SUBSET Int, IsFiniteSet(I), NEW m \in Int, \A i \in I : i < m
  PROVE  /\ IsFiniteSet(I \cup {m}) /\ Cardinality(I \cup {m}) = Cardinality(I) + 1
         /\ Rank(m, I \cup {m}) = Cardinality(I) + 1
         /\ \A i \in I : Rank(i, I \cup {m}) = Rank(i, I)
<1>1. m \notin I
  OBVIOUS
<1>2. IsFiniteSet(I \cup {m}) /\ Cardinality(I \cup {m}) = Cardinality(I) + 1
  BY <1>1, FS_AddElement
<1>3. {j \in I \cup {m} : j <= m} = I \cup {m}
  <2>1. \A j \in I \cup {m} : j <= m
    OBVIOUS
  <2> QED BY <2>1
<1>4. ASSUME NEW i \in I PROVE {j \in I \cup {m} : j <= i} = {j \in I : j <= i}
  OBVIOUS
<1> QED BY <1>2, <1>3, <1>4 DEF Rank

---------------------------------------------------------------------------
(* The calls that are left are the end of all calls.                       *)
CallsLeft ==
  /\ project \in Projects /\ option \in Options
  /\ calls \in Seq(ToSet(Calls)) /\ Len(calls) <= Len(Calls)
  /\ \A i \in 1..Len(calls) : calls[i] = Calls[Processed + i]

LEMMA CallsAre ==
  ASSUME project \in Projects, option \in Options
  PROVE  /\ Calls \in Seq(ToSet(Calls)) /\ DOMAIN Calls = 1..Len(Calls) /\ Len(Calls) \in Nat
         /\ \A i \in 1..Len(Calls) :
              /\ Calls[i].name \in Seq(ToSet(Calls[i].name)) /\ Calls[i].atomic \in BOOLEAN
              /\ IsError(Calls[i]) => ~Calls[i].atomic
         /\ IsPreorder(Calls)
<1>1. option.mode \in {"db", "macro"} /\ Calls = project.calls[option.mode]
  BY OptionsAssumption DEF Calls, AllCalls
<1>2. /\ Calls \in Seq(ToSet(Calls)) /\ IsPreorder(Calls)
      /\ \A c \in ToSet(Calls) : c.name \in Seq(ToSet(c.name)) /\ c.atomic \in BOOLEAN
      /\ \A c \in ToSet(Calls) : IsError(c) => ~c.atomic
  BY <1>1, CallsAssumption
<1>3. DOMAIN Calls = 1..Len(Calls) /\ Len(Calls) \in Nat
  BY <1>2
<1>4. \A i \in 1..Len(Calls) : Calls[i] \in ToSet(Calls)
  BY <1>3 DEF ToSet
<1> QED BY <1>2, <1>3, <1>4

LEMMA SettingsStay ==
  ASSUME project' = project, option' = option
  PROVE  /\ Calls' = Calls
         /\ \A c : /\ HasRecord(c)' = HasRecord(c) /\ to_epics(c)' = to_epics(c)
                   /\ OpcOf(c)' = OpcOf(c) /\ query_substitution(c)' = query_substitution(c)
         /\ \A ro : dir(ro)' = dir(ro)
  BY DEF Calls, AllCalls, HasRecord, to_epics, OpcOf, query_substitution, Substituted, Listed, dir

(* A call is the next one, and it is processed now.                        *)
LEMMA NextCall ==
  ASSUME CallsLeft, calls # <<>>, calls' = Tail(calls), UNCHANGED <<project, option>>
  PROVE  /\ CallsLeft' /\ Processed \in Nat /\ Processed' = Processed + 1
         /\ Processed + 1 \in 1..Len(Calls) /\ Head(calls) = Calls[Processed + 1]
<1>1. Calls' = Calls /\ Len(Calls) \in Nat
  BY CallsAre, SettingsStay DEF CallsLeft
<1>2. /\ calls \in Seq(ToSet(Calls)) /\ Len(calls) \in Nat /\ Len(calls) # 0
      /\ Head(calls) = calls[1]
  BY DEF CallsLeft
<1>3. /\ Tail(calls) \in Seq(ToSet(Calls)) /\ Len(Tail(calls)) = Len(calls) - 1
      /\ \A i \in 1..Len(calls) - 1 : Tail(calls)[i] = calls[i + 1]
  BY <1>2
<1>4. Len(calls) <= Len(Calls) /\ \A i \in 1..Len(calls) : calls[i] = Calls[Processed + i]
  BY DEF CallsLeft
<1>5. Processed = Len(Calls) - Len(calls) /\ Processed' = Len(Calls) - (Len(calls) - 1)
  BY <1>1, <1>3 DEF Processed
<1>6. \A i \in 1..Len(calls) - 1 : calls'[i] = Calls[Processed' + i]
  <2> TAKE i \in 1..Len(calls) - 1
  <2>1. i + 1 \in 1..Len(calls) /\ Processed + (i + 1) = Processed' + i
    BY <1>1, <1>2, <1>5
  <2>2. calls'[i] = calls[i + 1] /\ calls[i + 1] = Calls[Processed + (i + 1)]
    BY <1>3, <1>4, <2>1
  <2> QED BY <2>1, <2>2
<1>7. CallsLeft'
  BY <1>1, <1>2, <1>3, <1>4, <1>6 DEF CallsLeft
<1>8. /\ Processed \in Nat /\ Processed' = Processed + 1 /\ Processed + 1 \in 1..Len(Calls)
      /\ 1 \in 1..Len(calls)
  BY <1>1, <1>2, <1>4, <1>5
<1> QED BY <1>2, <1>4, <1>7, <1>8

---------------------------------------------------------------------------
(* Splitting into files.                                                   *)
ReadOnly(i) == is_readonly(OpcOf(Calls[i]))
DueOf(ro) == {i \in Due : ReadOnly(i) = ro}

\* The file that the num-th record of its direction is in.
FileOf(num) == IF option.split_n = 0 \/ num = 0 THEN 1 ELSE (num - 1) \div option.split_n + 1

Counted(ro) == IF ~option.split_io THEN rec_num ELSE IF ro THEN rec_num_in ELSE rec_num_io

(* Until a file can not be opened the counters and the open files are what *)
(* the records up to now say.                                              *)
Counters ==
  ~error =>
    /\ rec_num = Cardinality(Due)
    /\ rec_num_in = Cardinality(DueOf(TRUE)) /\ rec_num_io = Cardinality(DueOf(FALSE))
    /\ open_io = file_num_io /\ file_num_io = FileOf(Counted(FALSE))
    /\ option.split_io => open_in = file_num_in /\ file_num_in = FileOf(Counted(TRUE))

SplitInv ==
  /\ CallsLeft /\ \E S : written \in Seq(S)
  /\ option.mode = "db" => Counters
  /\ SplitInOrder

(* The file of the next record.                                            *)
LEMMA FileStep ==
  ASSUME option \in Options, NEW num \in Nat
  PROVE  /\ FileOf(num) \in Nat \ {0}
         /\ FileOf(num + 1) = IF option.split_n = 0 THEN 1 ELSE num \div option.split_n + 1
         /\ FileOf(num + 1) = IF option.split_n > 0 /\ num > 0 /\ num % option.split_n = 0
                              THEN FileOf(num) + 1 ELSE FileOf(num)
<1>1. PICK n \in Nat : n = option.split_n
  BY OptionsAssumption
<1>2. (num + 1) - 1 = num /\ num + 1 # 0
  OBVIOUS
<1> DEFINE Claim == /\ FileOf(num) \in Nat \ {0}
                    /\ FileOf(num + 1) = IF n = 0 THEN 1 ELSE num \div n + 1
                    /\ FileOf(num + 1) = IF n > 0 /\ num > 0 /\ num % n = 0
                                         THEN FileOf(num) + 1 ELSE FileOf(num)
<1>3. ASSUME n = 0 PROVE Claim
  BY <1>1, <1>2, <1>3 DEF FileOf
<1>4. ASSUME n # 0 PROVE Claim
  <2>1. PICK q \in Int, r \in 0..n - 1 : q = num \div n /\ num = q * n + r
    <3>1. /\ num \div n \in Int /\ num % n \in 0..n - 1
          /\ num = n * (num \div n) + (num % n)
      BY <1>1, <1>4
    <3> DEFINE d == num \div n
               m == num % n
    <3> HIDE DEF d, m
    <3>2. d \in Int /\ m \in 0..n - 1 /\ num = d * n + m /\ d = num \div n
      <4>1. d \in Int /\ m \in 0..n - 1 /\ num = n * d + m /\ d = num \div n
        BY <3>1 DEF d, m
      <4> QED BY <1>1, <4>1
    <3> QED BY <3>2
  <2> n \in Nat \ {0}
    BY <1>1, <1>4
  <2>2. q >= 0 /\ (num = 0 => q = 0 /\ r = 0) /\ (num # 0 /\ r = 0 => q >= 1)
    <3>1. PICK p \in Int : p = q * n
      BY <1>1
    <3>2. q <= -1 => p <= -n
      BY <3>1
    <3>3. q >= 1 => p >= n
      BY <3>1
    <3>4. q = 0 => p = 0
      BY <3>1
    <3>5. num = p + r
      BY <2>1, <3>1
    <3> QED BY <3>1, <3>2, <3>3, <3>4, <3>5
  <2>0. FileOf(num + 1) = q + 1
    BY <1>1, <1>2, <1>4, <2>1 DEF FileOf
  <2>3. num % n = r
    BY <2>1, DivisionIs
  <2>4. CASE r = 0
    <3>1. num - 1 = (q - 1) * n + (n - 1) /\ n - 1 \in 0..n - 1 /\ q - 1 \in Int
      BY <1>1, <1>4, <2>1, <2>4
    <3>2. (num - 1) \div n = q - 1
      BY <3>1, DivisionIs
    <3>3. FileOf(num) = IF num = 0 THEN 1 ELSE q
      BY <1>1, <1>4, <3>2 DEF FileOf
    <3> QED BY <2>0, <2>1, <2>2, <2>3, <2>4, <3>3
  <2>5. CASE r # 0
    <3>1. num - 1 = q * n + (r - 1) /\ r - 1 \in 0..n - 1
      BY <1>1, <1>4, <2>1, <2>5
    <3>2. (num - 1) \div n = q
      BY <2>1, <3>1, DivisionIs
    <3>3. FileOf(num) = q + 1
      BY <1>1, <1>4, <2>2, <2>5, <3>2 DEF FileOf
    <3> QED BY <2>0, <2>1, <2>2, <2>3, <2>5, <3>3
  <2> QED BY <2>4, <2>5
<1> QED BY <1>1, <1>3, <1>4

(* The records due are finitely many calls.                                *)
LEMMA DueIs ==
  ASSUME CallsLeft
  PROVE  /\ Due \in SUBSET (1..Processed) /\ Processed \in Int
         /\ \A ro \in BOOLEAN : DueOf(ro) \in SUBSET Due
         /\ \A D \in SUBSET Due : IsFiniteSet(D) /\ Cardinality(D) \in Nat
<1>1. Processed \in Int
  BY CallsAre DEF CallsLeft, Processed
<1>2. Due \in SUBSET (1..Processed) /\ \A ro \in BOOLEAN : DueOf(ro) \in SUBSET Due
  BY DEF Due, DueOf
<1>3. IsFiniteSet(1..Processed)
  BY <1>1, FS_Interval
<1>4. ASSUME NEW D \in SUBSET Due PROVE IsFiniteSet(D) /\ Cardinality(D) \in Nat
  <2>1. D \in SUBSET (1..Processed)
    BY <1>2
  <2> QED BY <1>3, <2>1, FS_Subset, FS_CardinalityType
<1> QED BY <1>1, <1>2, <1>4

LEMMA SplitInit == OutInit => SplitInv
<1> SUFFICES ASSUME OutInit PROVE SplitInv
  OBVIOUS
<1>1. project \in Projects /\ option \in Options /\ calls = Calls
  BY DEF OutInit, Calls
<1>2. Calls \in Seq(ToSet(Calls)) /\ Len(Calls) \in Nat
  BY <1>1, CallsAre
<1>3. Processed = 0
  BY <1>1, <1>2 DEF Processed
<1>4. CallsLeft
  BY <1>1, <1>2, <1>3 DEF CallsLeft
<1>5. Due = {} /\ DueOf(TRUE) = {} /\ DueOf(FALSE) = {} /\ Cardinality({}) = 0
  BY <1>3, FS_EmptySet DEF Due, DueOf
<1>6. FileOf(0) = 1
  BY DEF FileOf
<1>7. written = <<>> /\ Len(written) = 0 /\ written \in Seq({})
  BY DEF OutInit
<1>8. Counters
  <2> SUFFICES ASSUME ~error PROVE Counters
    BY DEF Counters
  <2>1. open_io = 1 /\ (option.split_io => open_in = 1)
    BY DEF OutInit
  <2> QED BY <1>5, <1>6, <2>1 DEF Counters, Counted, OutInit
<1>9. SplitInOrder
  BY <1>5, <1>7 DEF SplitInOrder
<1> QED BY <1>4, <1>7, <1>8, <1>9 DEF SplitInv

(* A record goes to the file that its number in its direction says.        *)
LEMMA RecordWritten ==
  ASSUME SplitInv, option.mode = "db", NEW ro \in BOOLEAN, NEW c, increment(ro, c),
         UNCHANGED <<project, option>>
  PROVE  /\ \E w : /\ written' = Append(written, w)
                   /\ w.record = to_epics(c) /\ w.dir \in {dir(ro), "stdout"}
                   /\ ~error' => w.dir = dir(ro) /\ w.number = FileOf(Counted(ro) + 1)
         /\ ~error' =>
              /\ ~error /\ rec_num' = rec_num + 1
              /\ rec_num_in' = rec_num_in + (IF ro THEN 1 ELSE 0)
              /\ rec_num_io' = rec_num_io + (IF ro THEN 0 ELSE 1)
              /\ open_io' = file_num_io' /\ file_num_io' = FileOf(Counted(FALSE)')
              /\ option.split_io => open_in' = file_num_in' /\ file_num_in' = FileOf(Counted(TRUE)')
<1>1. option \in Options /\ option.split_io \in BOOLEAN /\ option.split_n \in Nat
  BY OptionsAssumption DEF SplitInv, CallsLeft
<1>2. PICK outf : outf = IF option.split_io /\ ro THEN open_in' ELSE open_io'
  OBVIOUS
<1>3. /\ error' = (error \/ outf = 0)
      /\ written' = Append(written, Entry(IF outf = 0 THEN "stdout" ELSE dir(ro), outf, c))
      /\ ~error' => /\ rec_num' = rec_num + 1
                    /\ rec_num_in' = rec_num_in + (IF ro THEN 1 ELSE 0)
                    /\ rec_num_io' = rec_num_io + (IF ro THEN 0 ELSE 1)
  BY <1>2 DEF increment
<1>4. ASSUME ~error'
      PROVE  /\ ~error /\ outf = FileOf(Counted(ro) + 1)
             /\ open_io' = file_num_io' /\ file_num_io' = FileOf(Counted(FALSE)')
             /\ option.split_io => open_in' = file_num_in' /\ file_num_in' = FileOf(Counted(TRUE)')
  <2>1. /\ ~error /\ outf # 0 /\ rec_num' = rec_num + 1
        /\ rec_num_in' = rec_num_in + (IF ro THEN 1 ELSE 0)
        /\ rec_num_io' = rec_num_io + (IF ro THEN 0 ELSE 1)
    BY <1>3, <1>4
  <2>2. /\ rec_num \in Nat /\ rec_num_in \in Nat /\ rec_num_io \in Nat
        /\ open_io = file_num_io /\ file_num_io = FileOf(Counted(FALSE))
        /\ option.split_io => open_in = file_num_in /\ file_num_in = FileOf(Counted(TRUE))
    <3>1. Counters /\ CallsLeft
      BY DEF SplitInv
    <3> QED BY <2>1, <3>1, DueIs DEF Counters
  <2>3. \A b \in BOOLEAN : Counted(b) \in Nat
    BY <1>1, <2>2 DEF Counted
  <2>4. PICK num \in Nat : num = Counted(ro)
    BY <2>3
  <2>5. /\ FileOf(num) \in Nat \ {0}
        /\ FileOf(num + 1) = IF Full(ro) THEN FileOf(num) + 1 ELSE FileOf(num)
    BY <1>1, <2>4, FileStep DEF Full, Counted
  <2>6. /\ \A n : FileOf(n)' = FileOf(n)
        /\ option' = option
    BY DEF FileOf
  <2>7. /\ Counted(ro)' = num + 1
        /\ option.split_io => Counted(~ro)' = Counted(~ro)
        /\ ~option.split_io => Counted(~ro)' = num + 1 /\ Counted(~ro) = num
    BY <1>1, <2>1, <2>2, <2>4, <2>6 DEF Counted
  <2>8. CASE Full(ro)
    <3>1. isOpen(ro)
      BY <1>1, <2>2, <2>3, FileStep DEF isOpen
    <3>2. PICK opens \in BOOLEAN : NextFile(ro, opens)
      BY <2>1, <2>8, <3>1 DEF increment
    <3>3. opens
      BY <1>2, <2>1, <3>2 DEF NextFile
    <3>4. CASE option.split_io /\ ro
      <4>1. /\ open_in' = file_num_in + 1 /\ file_num_in' = file_num_in + 1
            /\ file_num_io' = file_num_io /\ open_io' = open_io
        BY <3>2, <3>3, <3>4 DEF NextFile
      <4> QED BY <1>2, <2>1, <2>2, <2>4, <2>5, <2>6, <2>7, <2>8, <3>4, <4>1
    <3>5. CASE ~(option.split_io /\ ro)
      <4>1. /\ open_io' = file_num_io + 1 /\ file_num_io' = file_num_io + 1
            /\ file_num_in' = file_num_in /\ open_in' = open_in
        BY <3>2, <3>3, <3>5 DEF NextFile
      <4> QED BY <1>2, <2>1, <2>2, <2>4, <2>5, <2>6, <2>7, <2>8, <3>5, <4>1
    <3> QED BY <3>4, <3>5
  <2>9. CASE ~Full(ro)
    <3>1. SameFiles
      BY <2>9 DEF increment
    <3> QED BY <1>1, <1>2, <2>1, <2>2, <2>4, <2>5, <2>6, <2>7, <2>9, <3>1 DEF SameFiles
  <2> QED BY <2>8, <2>9
<1>5. PICK w : w = Entry(IF outf = 0 THEN "stdout" ELSE dir(ro), outf, c)
  OBVIOUS
<1>6. /\ w.record = to_epics(c) /\ w.number = outf
      /\ w.dir = IF outf = 0 THEN "stdout" ELSE dir(ro)
  BY <1>5 DEF Entry
<1> QED BY <1>3, <1>4, <1>5, <1>6

LEMMA AppendIs ==
  ASSUME NEW s, NEW S, s \in Seq(S), NEW w
  PROVE  /\ Len(s) \in Nat /\ Len(Append(s, w)) = Len(s) + 1 /\ Append(s, w)[Len(s) + 1] = w
         /\ \A n \in 1..Len(s) : Append(s, w)[n] = s[n]
         /\ Append(s, w) \in Seq(S \cup {w})
<1>1. s \in Seq(S \cup {w}) /\ w \in S \cup {w} /\ Len(s) \in Nat
  OBVIOUS
<1> QED BY <1>1

(* The numbers of the records before a record in its direction.            *)
LEMMA CountedIs ==
  ASSUME SplitInv, option.mode = "db", ~error, NEW i, i \in Nat, \A j \in Due : j < i
  PROVE  Cardinality(Before(i, Due)) = Counted(ReadOnly(i)) /\ Counted(ReadOnly(i)) \in Nat
<1>1. ReadOnly(i) \in BOOLEAN /\ option.split_io \in BOOLEAN
  BY OptionsAssumption DEF SplitInv, CallsLeft, ReadOnly, is_readonly
<1>2. ~option.split_io => Before(i, Due) = Due
  BY DEF Before, direction, dir
<1>3. option.split_io => Before(i, Due) = DueOf(ReadOnly(i))
  <2>1. SUFFICES ASSUME option.split_io
                 PROVE  \A j \in Due : direction(j) = direction(i) <=> (ReadOnly(j) = ReadOnly(i))
    BY DEF Before, DueOf
  <2>2. \A j : direction(j) = IF ReadOnly(j) THEN "in" ELSE "io"
    BY <2>1 DEF direction, dir, ReadOnly
  <2>3. \A j : ReadOnly(j) \in BOOLEAN
    BY DEF ReadOnly, is_readonly
  <2> QED BY <2>2, <2>3
<1> QED BY <1>1, <1>2, <1>3, DueIs DEF SplitInv, Counters, Counted

LEMMA SplitNext == SplitInv /\ [OutNext]_outVars => SplitInv'
<1> SUFFICES ASSUME SplitInv, [OutNext]_outVars PROVE SplitInv'
  OBVIOUS
<1>1. project' = project /\ option' = option
  BY DEF OutNext, DbProcess, MacroProcess, Flush, outVars
<1>2. ASSUME UNCHANGED <<written, fileVars>>, CallsLeft', Due' = Due PROVE SplitInv'
  <2>1. \A ro \in BOOLEAN : DueOf(ro)' = DueOf(ro)
    BY <1>1, <1>2, SettingsStay DEF DueOf, ReadOnly
  <2>2. \A ro \in BOOLEAN : Counted(ro)' = Counted(ro)
    BY <1>1, <1>2 DEF Counted, fileVars
  <2>3. \A n : FileOf(n)' = FileOf(n)
    BY <1>1 DEF FileOf
  <2>4. Counters => Counters'
    BY <1>1, <1>2, <2>1, <2>2, <2>3 DEF Counters, fileVars
  <2>5. \A i : direction(i)' = direction(i)
    BY <1>1, SettingsStay DEF direction
  <2>6. \A w, i : Filed(w, i, Due)' <=> Filed(w, i, Due)
    BY <1>1, <1>2, <2>5, SettingsStay DEF Filed, Before, fileVars
  <2>7. SplitInOrder => SplitInOrder'
    BY <1>1, <1>2, <2>6 DEF SplitInOrder, Rank
  <2> QED BY <1>1, <1>2, <2>4, <2>7 DEF SplitInv
<1>3. CASE option.mode = "macro" /\ OutNext
  <2>1. written' = written
    BY <1>3, Zenon DEF OutNext, DbProcess, MacroProcess, Flush
  <2>2. ASSUME MacroProcess PROVE CallsLeft'
    BY <2>2, NextCall DEF MacroProcess, SplitInv
  <2>3. ASSUME Flush PROVE CallsLeft'
    BY <1>1, <2>3, SettingsStay DEF Flush, SplitInv, CallsLeft, Processed
  <2>4. CallsLeft'
    BY <1>3, <2>2, <2>3 DEF OutNext, DbProcess
  <2>5. option'.mode = "macro"
    BY <1>1, <1>3
  <2> QED BY <2>1, <2>4, <2>5 DEF SplitInv, SplitInOrder
<1>4. CASE DbProcess /\ ~HasRecord(Head(calls))
  <2>1. /\ CallsLeft' /\ Processed \in Nat /\ Processed' = Processed + 1
        /\ Processed + 1 \in 1..Len(Calls) /\ Head(calls) = Calls[Processed + 1]
    BY <1>4, NextCall DEF DbProcess, SplitInv
  <2>2. \A i : HasRecord(Calls[i])' = HasRecord(Calls[i])
    BY <1>1, SettingsStay
  <2>3. \A i : i \in 1..Processed + 1 <=> i \in 1..Processed \/ i = Processed + 1
    BY <2>1
  <2>4. Due' = Due
    BY <1>4, <2>1, <2>2, <2>3 DEF Due
  <2> QED BY <1>2, <1>4, <2>1, <2>4 DEF DbProcess
<1>5. CASE DbProcess /\ HasRecord(Head(calls))
  <2> option.mode = "db"
    BY <1>5 DEF DbProcess
  <2>1. /\ CallsLeft' /\ Processed \in Nat /\ Processed' = Processed + 1
        /\ Processed + 1 \in 1..Len(Calls) /\ Head(calls) = Calls[Processed + 1]
    BY <1>5, NextCall DEF DbProcess, SplitInv
  <2>2. PICK m : m = Processed + 1
    OBVIOUS
  <2>3. Due' = Due \cup {m} /\ m \in Nat /\ \A i \in Due : i \in Nat /\ i < m
    <3>1. \A i : HasRecord(Calls[i])' = HasRecord(Calls[i])
      BY <1>1, SettingsStay
    <3>2. \A i : i \in 1..Processed + 1 <=> i \in 1..Processed \/ i = m
      BY <2>1, <2>2
    <3>3. HasRecord(Calls[m])
      BY <1>5, <2>1, <2>2
    <3> QED BY <2>1, <2>2, <3>1, <3>2, <3>3 DEF Due
  <2>4. IsFiniteSet(Due) /\ Cardinality(Due) \in Nat
    BY DueIs DEF SplitInv
  <2>5. /\ Cardinality(Due') = Cardinality(Due) + 1 /\ Rank(m, Due') = Cardinality(Due) + 1
        /\ \A i \in Due : Rank(i, Due') = Rank(i, Due)
    <3>1. Due \in SUBSET Int /\ m \in Int
      BY <2>3
    <3> QED BY <2>3, <2>4, <3>1, RankAppended
  <2>6. PICK ro \in BOOLEAN : ro = ReadOnly(m) /\ increment(ro, Calls[m])
    BY <1>5, <2>1, <2>2 DEF DbProcess, ReadOnly, is_readonly
  <2>7. PICK w : /\ written' = Append(written, w)
                 /\ w.record = to_epics(Calls[m]) /\ w.dir \in {dir(ro), "stdout"}
                 /\ ~error' => w.dir = dir(ro) /\ w.number = FileOf(Counted(ro) + 1)
    BY <1>1, <1>5, <2>6, RecordWritten DEF DbProcess
  <2>8. ~error' =>
              /\ ~error /\ rec_num' = rec_num + 1
              /\ rec_num_in' = rec_num_in + (IF ro THEN 1 ELSE 0)
              /\ rec_num_io' = rec_num_io + (IF ro THEN 0 ELSE 1)
              /\ open_io' = file_num_io' /\ file_num_io' = FileOf(Counted(FALSE)')
              /\ option.split_io => open_in' = file_num_in' /\ file_num_in' = FileOf(Counted(TRUE)')
    BY <1>1, <1>5, <2>6, RecordWritten DEF DbProcess
  <2>9. Counters'
    <3>1. SUFFICES ASSUME ~error' PROVE Counters'
      BY DEF Counters
    <3>2. /\ ~error /\ rec_num' = rec_num + 1
          /\ rec_num_in' = rec_num_in + (IF ro THEN 1 ELSE 0)
          /\ rec_num_io' = rec_num_io + (IF ro THEN 0 ELSE 1)
          /\ open_io' = file_num_io' /\ file_num_io' = FileOf(Counted(FALSE)')
          /\ option.split_io => open_in' = file_num_in' /\ file_num_in' = FileOf(Counted(TRUE)')
      BY <2>8, <3>1
    <3>3. \A n : FileOf(n)' = FileOf(n)
      BY <1>1 DEF FileOf
    <3>4. ASSUME NEW b \in BOOLEAN
          PROVE  Cardinality(DueOf(b)') = Cardinality(DueOf(b)) + (IF b = ro THEN 1 ELSE 0)
      <4>1. DueOf(b)' = DueOf(b) \cup (IF b = ro THEN {m} ELSE {})
        BY <1>1, <2>3, <2>6, SettingsStay DEF DueOf, ReadOnly
      <4>2. IsFiniteSet(DueOf(b)) /\ Cardinality(DueOf(b)) \in Nat /\ m \notin DueOf(b)
        BY <2>3, DueIs DEF SplitInv, DueOf
      <4>3. Cardinality(DueOf(b) \cup {m}) = Cardinality(DueOf(b)) + 1
        BY <4>2, FS_AddElement
      <4> QED BY <4>1, <4>2, <4>3
    <3>5. /\ Cardinality(DueOf(TRUE)') = Cardinality(DueOf(TRUE)) + (IF ro THEN 1 ELSE 0)
          /\ Cardinality(DueOf(FALSE)') = Cardinality(DueOf(FALSE)) + (IF ro THEN 0 ELSE 1)
      BY <3>4
    <3>6. /\ rec_num = Cardinality(Due)
          /\ rec_num_in = Cardinality(DueOf(TRUE)) /\ rec_num_io = Cardinality(DueOf(FALSE))
      BY <3>2 DEF SplitInv, Counters
    <3>7. file_num_io' = FileOf(Counted(FALSE))' /\ (option.split_io => file_num_in' = FileOf(Counted(TRUE))')
      BY <1>1, <3>2 DEF FileOf
    <3> QED BY <1>1, <2>5, <3>2, <3>5, <3>6, <3>7 DEF Counters
  <2>10. SplitInOrder'
    <3>1. PICK S : written \in Seq(S)
      BY DEF SplitInv
    <3>2. /\ Len(written) = Cardinality(Due) /\ Len(written') = Cardinality(Due) + 1
          /\ written'[Cardinality(Due) + 1] = w
          /\ \A n \in 1..Cardinality(Due) : written'[n] = written[n]
      BY <2>7, <3>1, AppendIs DEF SplitInv, SplitInOrder
    <3>3. \A i : direction(i)' = direction(i)
      BY <1>1, SettingsStay DEF direction
    <3> PICK D : D = Due'
      OBVIOUS
    <3>4. ASSUME NEW i \in Due, NEW x, x = written[Rank(i, Due)] PROVE Filed(x, i, D)'
      <4>1. Filed(x, i, Due)
        BY <3>4 DEF SplitInv, SplitInOrder
      <4>2. Before(i, D) = Before(i, Due) /\ Before(i, D)' = Before(i, D)
        BY <2>3, <3>3 DEF Before
      <4>3. error => error'
        BY <2>8
      <4> QED BY <1>1, <3>3, <4>1, <4>2, <4>3, SettingsStay DEF Filed
    <3>5. Filed(w, m, D)'
      <4>1. Before(m, D)' = Before(m, Due)
        BY <2>3, <3>3 DEF Before
      <4>2. ~error => Cardinality(Before(m, Due)) = Counted(ro) /\ Counted(ro) \in Nat
        BY <2>3, <2>6, CountedIs
      <4>3. \A n \in Nat : FileOf(n + 1) = IF option.split_n = 0 THEN 1 ELSE n \div option.split_n + 1
        BY FileStep DEF SplitInv, CallsLeft
      <4>4. direction(m) = dir(ro)
        BY <2>6 DEF direction, ReadOnly
      <4>5. ~error' => w.number = IF option.split_n = 0 THEN 1
                                  ELSE Cardinality(Before(m, Due)) \div option.split_n + 1
        BY <2>7, <2>8, <4>2, <4>3
      <4> QED BY <1>1, <2>7, <3>3, <4>1, <4>4, <4>5, SettingsStay DEF Filed
    <3>6. ASSUME NEW i \in D PROVE \E x : x = written'[Rank(i, D)] /\ Filed(x, i, D)'
      <4>1. CASE i \in Due
        <5>1. Rank(i, Due) \in 1..Cardinality(Due)
          BY <2>3, <2>4, <4>1, RankIs
        <5>2. written'[Rank(i, D)] = written[Rank(i, Due)]
          BY <2>5, <3>2, <4>1, <5>1
        <5> QED BY <3>4, <4>1, <5>2
      <4>2. CASE i = m
        BY <2>5, <3>2, <3>5, <4>2
      <4> QED BY <2>3, <4>1, <4>2
    <3>7. \A i \in D : Filed(written[Rank(i, D)], i, D)'
      <4> SUFFICES ASSUME NEW i \in D PROVE Filed(written[Rank(i, D)], i, D)'
        OBVIOUS
      <4>1. PICK x : x = written'[Rank(i, D)] /\ Filed(x, i, D)'
        BY <3>6
      <4> QED BY <4>1 DEF Filed, Rank
    <3> QED BY <2>5, <3>2, <3>7 DEF SplitInOrder, Filed, Rank
  <2>11. \E S : written' \in Seq(S)
    BY <2>7, AppendIs DEF SplitInv
  <2> QED BY <1>1, <2>1, <2>9, <2>10, <2>11 DEF SplitInv
<1>6. CASE UNCHANGED outVars
  <2>1. Due' = Due
    BY <1>1, <1>6, SettingsStay DEF Due, Processed, outVars
  <2>2. CallsLeft'
    BY <1>1, <1>6, SettingsStay DEF SplitInv, CallsLeft, Processed, outVars
  <2> QED BY <1>2, <1>6, <2>1, <2>2 DEF outVars
<1> QED BY <1>3, <1>4, <1>5, <1>6, OptionsAssumption, Zenon DEF OutNext, MacroProcess, Flush, SplitInv, CallsLeft

(* "Splits the database into files": whatever the variables of the PLC.    *)
THEOREM RecordsSplitInOrder == OutSpec => []SplitInOrder
<1>1. SplitInv => SplitInOrder
  BY DEF SplitInv
<1> QED BY <1>1, SplitInit, SplitNext, PTL DEF OutSpec

---------------------------------------------------------------------------
(* Macro files.                                                            *)
Parts == UNION {ToSet(Calls[i].name) : i \in DOMAIN Calls}
Names == {<<>>} \cup {Calls[i].name : i \in DOMAIN Calls}
Structs == [name : Names, fields : Seq(Names), back : Names, iserror : BOOLEAN, erroridx : Nat]
ErrorNames == {Calls[i].name : i \in {j \in Chosen : IsError(Calls[j])}}

(* The calls up to now, of those that count.                               *)
Seen == {i \in Chosen : i <= Processed}
StructsSeen == {Calls[i].name : i \in {j \in Seen : ~Calls[j].atomic}}
MembersSeen(s) == {i \in Members(s) : i <= Processed}

\* What is known of a structure, on the stack or in its file.
Filled(m) ==
  /\ m \in Structs /\ m.name \in StructsSeen
  /\ m.back = Parent(m.name) /\ m.iserror = (m.name \in ErrorNames)
  /\ Lists(m.fields, MembersSeen(m.name)) /\ LastError(m.erroridx, MembersSeen(m.name))

\* No call to come is for it.
Over(name) == \A i \in Chosen : i > Processed => ~IsPrefix(name, Calls[i].name)

\* The bottom of the stack is there from the first call on.
Stack == IF procstack = <<>> THEN <<Top>> ELSE procstack

(* The stack has the structures around the last call, from outside to      *)
(* inside; all others are finished, no call to come is for them, and they  *)
(* have a file if they are no error structures.                            *)
StackInv ==
  /\ Stack \in Seq(Structs) /\ Len(Stack) >= 1 /\ Stack[1].name = <<>>
  /\ \A j \in 2..Len(Stack) : Filled(Stack[j])
  /\ \A j, k \in 1..Len(Stack) : j < k => IsStrictPrefix(Stack[j].name, Stack[k].name)
  /\ \A m \in macros : Filled(m) /\ ~m.iserror /\ Over(m.name)
  /\ \A s \in StructsSeen : \/ \E j \in 2..Len(Stack) : Stack[j].name = s
                            \/ Over(s) /\ (s \in ErrorNames \/ \E m \in macros : m.name = s)
  /\ \A i \in Seen : Parent(Calls[i].name) \in Around(Calls[i].name)

MacroInv == CallsLeft /\ (option.mode = "macro" /\ ~Renamed => StackInv)

---------------------------------------------------------------------------
(* Names, and how one begins another.                                      *)
LEMMA PrefixIs ==
  ASSUME NEW S, NEW s \in Seq(S), NEW t \in Seq(S)
  PROVE  IsPrefix(s, t) <=> Len(s) <= Len(t) /\ \A i \in 1..Len(s) : s[i] = t[i]
<1>1. ASSUME Len(s) <= Len(t)
      PROVE  SubSeq(s, 1, Len(s)) = SubSeq(t, 1, Len(s)) <=> \A i \in 1..Len(s) : s[i] = t[i]
  <2>1. /\ SubSeq(s, 1, Len(s)) = [i \in 1..Len(s) |-> s[i]]
        /\ SubSeq(t, 1, Len(s)) = [i \in 1..Len(s) |-> t[i]]
    BY <1>1
  <2> QED BY <2>1
<1> QED BY <1>1 DEF IsPrefix

LEMMA PrefixOrder ==
  ASSUME NEW S, NEW s \in Seq(S), NEW t \in Seq(S), NEW u \in Seq(S)
  PROVE  /\ IsPrefix(s, s) /\ IsPrefix(<<>>, s)
         /\ IsPrefix(s, t) => Len(s) <= Len(t)
         /\ IsPrefix(s, t) /\ IsPrefix(t, u) => IsPrefix(s, u)
         /\ IsPrefix(s, t) /\ IsPrefix(t, s) => s = t
         /\ IsPrefix(s, u) /\ IsPrefix(t, u) /\ Len(s) <= Len(t) => IsPrefix(s, t)
<1>1. <<>> \in Seq(S) /\ Len(<<>>) = 0
  OBVIOUS
<1>2. \A a, b \in Seq(S) : IsPrefix(a, b) <=> Len(a) <= Len(b) /\ \A i \in 1..Len(a) : a[i] = b[i]
  BY PrefixIs
<1>3. Len(s) \in Nat /\ Len(t) \in Nat /\ Len(u) \in Nat
  OBVIOUS
<1>4. (Len(s) = Len(t) /\ \A i \in 1..Len(s) : s[i] = t[i]) => s = t
  OBVIOUS
<1>5. IsPrefix(s, s) /\ IsPrefix(<<>>, s)
  <2> PICK e \in Seq(S) : e = <<>> /\ Len(e) = 0
    BY <1>1
  <2>1. IsPrefix(e, s) <=> Len(e) <= Len(s) /\ \A i \in 1..Len(e) : e[i] = s[i]
    BY <1>2
  <2>2. IsPrefix(e, s)
    BY <1>3, <2>1
  <2>3. IsPrefix(s, s)
    BY <1>2, <1>3
  <2> QED BY <2>2, <2>3
<1>6. IsPrefix(s, t) => Len(s) <= Len(t)
  BY <1>2
<1>7. IsPrefix(s, t) /\ IsPrefix(t, s) => s = t
  BY <1>2, <1>3, <1>4
<1>8. ASSUME IsPrefix(s, t), IsPrefix(t, u) PROVE IsPrefix(s, u)
  <2>1. /\ Len(s) <= Len(t) /\ Len(t) <= Len(u)
        /\ \A i \in 1..Len(s) : s[i] = t[i]
        /\ \A i \in 1..Len(t) : t[i] = u[i]
    BY <1>2, <1>8
  <2>2. Len(s) <= Len(u) /\ \A i \in 1..Len(s) : i \in 1..Len(t)
    BY <1>3, <2>1
  <2>3. \A i \in 1..Len(s) : s[i] = u[i]
    BY <2>1, <2>2
  <2> QED BY <1>2, <2>2, <2>3
<1>9. ASSUME IsPrefix(s, u), IsPrefix(t, u), Len(s) <= Len(t) PROVE IsPrefix(s, t)
  <2>1. /\ \A i \in 1..Len(s) : s[i] = u[i]
        /\ \A i \in 1..Len(t) : t[i] = u[i]
    BY <1>2, <1>9
  <2>2. \A i \in 1..Len(s) : i \in 1..Len(t)
    BY <1>3, <1>9
  <2>3. \A i \in 1..Len(s) : s[i] = t[i]
    BY <2>1, <2>2
  <2> QED BY <1>2, <1>9, <2>3
<1> QED BY <1>5, <1>6, <1>7, <1>8, <1>9

LEMMA NamesAre ==
  ASSUME project \in Projects, option \in Options
  PROVE  /\ \A n \in Names : n \in Seq(Parts) /\ Len(n) \in Nat
         /\ <<>> \in Names /\ \A i \in 1..Len(Calls) : Calls[i].name \in Names /\ Calls[i].name # <<>>
<1>1. DOMAIN Calls = 1..Len(Calls) /\ IsPreorder(Calls)
  BY CallsAre
<1>2. ASSUME NEW i \in DOMAIN Calls PROVE Calls[i].name \in Seq(Parts)
  <2>1. Calls[i].name \in Seq(ToSet(Calls[i].name)) /\ ToSet(Calls[i].name) \subseteq Parts
    BY <1>1, <1>2, CallsAre DEF Parts
  <2> QED BY <2>1
<1>3. <<>> \in Seq(Parts)
  OBVIOUS
<1>4. \A i \in 1..Len(Calls) : Calls[i].name # <<>>
  BY <1>1 DEF IsPreorder
<1>5. \A n \in Names : n \in Seq(Parts)
  BY <1>2, <1>3 DEF Names
<1> QED BY <1>1, <1>4, <1>5 DEF Names

(* What the order of the calls says, in the form it is used.               *)
LEMMA OrderIs ==
  ASSUME project \in Projects, option \in Options
  PROVE  /\ \A i, j \in 1..Len(Calls) : i < j => ~IsPrefix(Calls[j].name, Calls[i].name)
         /\ \A i, j, k \in 1..Len(Calls) :
              /\ i <= j /\ j <= k /\ ~Calls[i].atomic
              /\ IsPrefix(Calls[i].name, Calls[k].name)
              => IsPrefix(Calls[i].name, Calls[j].name)
<1>1. DOMAIN Calls = 1..Len(Calls) /\ IsPreorder(Calls) /\ Len(Calls) \in Nat
  BY CallsAre
<1>2. ASSUME NEW i \in 1..Len(Calls), NEW j \in 1..Len(Calls), i < j
      PROVE  ~IsPrefix(Calls[j].name, Calls[i].name)
  <2>1. i \in 1..j - 1
    BY <1>1, <1>2
  <2> QED BY <1>1, <2>1 DEF IsPreorder
<1>3. ASSUME NEW i \in 1..Len(Calls), NEW j \in 1..Len(Calls), NEW k \in 1..Len(Calls),
             i <= j, j <= k, ~Calls[i].atomic, IsPrefix(Calls[i].name, Calls[k].name)
      PROVE  IsPrefix(Calls[i].name, Calls[j].name)
  <2>1. CASE i = k
    BY <1>1, <1>3, <2>1
  <2>2. CASE i # k
    <3>1. i \in 1..k - 1 /\ j \in i..k
      BY <1>1, <1>3, <2>2
    <3> QED BY <1>1, <1>3, <3>1 DEF IsPreorder
  <2> QED BY <2>1, <2>2
<1> QED BY <1>2, <1>3

---------------------------------------------------------------------------
(* Every set of numbers up to N has a greatest one.                        *)
LEMMA GreatestNumber ==
  ASSUME NEW N \in Nat, NEW T \in SUBSET (1..N), T # {}
  PROVE  Max(T) \in T /\ \A x \in T : x <= Max(T)
<1> DEFINE R == OpToRel(<, Nat)
           D == {N - x : x \in T}
<1>1. IsWellFoundedOn(R, Nat)
  BY NatLessThanWellFounded DEF OpToRel
<1>2. \A a, b \in Nat : a < b => <<a, b>> \in R
  BY DEF OpToRel
<1>3. D \in SUBSET Nat /\ D # {}
  <2>1. \A x \in T : N - x \in Nat
    OBVIOUS
  <2> QED BY <2>1
<1> HIDE DEF R
<1>4. PICK d \in D : \A e \in D : ~(<<e, d>> \in R)
  BY <1>1, <1>3, WFMin
<1>5. \A e \in D : d <= e
  <2> TAKE e \in D
  <2>1. e \in Nat /\ d \in Nat /\ ~(<<e, d>> \in R)
    BY <1>3, <1>4
  <2>2. ~(e < d)
    BY <1>2, <2>1
  <2> QED BY <2>1, <2>2
<1>6. PICK y \in T : d = N - y
  BY <1>4
<1>7. \A x \in T : x <= y
  <2> TAKE x \in T
  <2>1. N - x \in D /\ x \in Int /\ y \in Int
    OBVIOUS
  <2>2. N - y <= N - x
    BY <1>5, <1>6, <2>1
  <2> QED BY <2>1, <2>2
<1>8. \E x \in T : \A z \in T : x >= z
  BY <1>7
<1> QED BY <1>8 DEF Max

LEMMA KeptIs ==
  ASSUME NEW stack, DOMAIN stack = 1..Len(stack), Len(stack) \in Nat \ {0}, NEW name,
         IsPrefix(stack[1].name, name)
  PROVE  /\ Kept(stack, name) \in 1..Len(stack)
         /\ IsPrefix(stack[Kept(stack, name)].name, name)
         /\ \A j \in 1..Len(stack) : j > Kept(stack, name) => ~IsPrefix(stack[j].name, name)
<1> DEFINE T == {1} \cup {k \in DOMAIN stack : IsPrefix(stack[k].name, name)}
<1>1. T \in SUBSET (1..Len(stack)) /\ 1 \in T
  OBVIOUS
<1>2. Kept(stack, name) = Max(T)
  BY DEF Kept
<1> HIDE DEF T
<1>3. Max(T) \in T /\ \A x \in T : x <= Max(T)
  BY <1>1, GreatestNumber
<1>4. \A x \in 1..Len(stack) : x \in T <=> IsPrefix(stack[x].name, name)
  BY DEF T
<1>5. Max(T) \in 1..Len(stack) /\ \A x \in 1..Len(stack) : x > Max(T) => x \notin T
  <2>1. Max(T) \in 1..Len(stack)
    BY <1>1, <1>3
  <2> QED BY <1>3, <2>1
<1> QED BY <1>2, <1>3, <1>4, <1>5

(* The structure around a name is the innermost one kept on the stack.     *)
LEMMA ParentIs ==
  ASSUME project \in Projects, option \in Options,
         NEW name \in Names, NEW s \in Around(name), \A t \in Around(name) : Len(t) <= Len(s)
  PROVE  Parent(name) = s
<1>1. Around(name) \subseteq Names
  <2>1. \A i \in Chosen : Calls[i].name \in Names
    BY DEF Chosen, Names
  <2> QED BY <2>1 DEF Around, Structures, Names
<1>2. \A n \in Names : n \in Seq(Parts) /\ Len(n) \in Nat
  BY NamesAre
<1>3. PICK t : t = Parent(name)
  OBVIOUS
<1>4. t \in Around(name) /\ \A u \in Around(name) : Len(u) <= Len(t)
  BY <1>3 DEF Parent
<1>5. Len(s) <= Len(t) /\ Len(t) <= Len(s) /\ IsPrefix(s, name) /\ IsPrefix(t, name)
  BY <1>4 DEF Around, IsStrictPrefix
<1>6. s \in Seq(Parts) /\ t \in Seq(Parts) /\ name \in Seq(Parts)
  BY <1>1, <1>2, <1>4
<1>7. IsPrefix(s, t) /\ IsPrefix(t, s)
  BY <1>5, <1>6, PrefixOrder
<1>8. s = t
  BY <1>6, <1>7, PrefixOrder
<1> QED BY <1>3, <1>8

(* The structure on the stack that is kept is the one around the call.     *)
LEMMA ParentOnStack ==
  ASSUME CallsLeft, StackInv, NEW n, n = Processed + 1, n \in Chosen, Processed \in Nat,
         NEW name, name = Calls[n].name, NEW k, k = Kept(Stack, name)
  PROVE  /\ k \in 1..Len(Stack) /\ Parent(name) = Stack[k].name
         /\ IsStrictPrefix(Stack[k].name, name) /\ Parent(name) \in Around(name)
         /\ \A j \in 1..Len(Stack) : j > k => ~IsPrefix(Stack[j].name, name)
         /\ \A s : Over(s) => ~IsPrefix(s, name)
<1>1. /\ DOMAIN Calls = 1..Len(Calls) /\ Len(Calls) \in Nat /\ n \in 1..Len(Calls)
      /\ Chosen \in SUBSET (1..Len(Calls))
  BY CallsAre DEF CallsLeft, Chosen
<1>2. /\ DOMAIN Stack = 1..Len(Stack) /\ Len(Stack) \in Nat \ {0}
      /\ Stack[1].name = <<>>
  BY DEF StackInv
<1>3. name \in Names /\ name # <<>> /\ \A i \in Names : i \in Seq(Parts) /\ Len(i) \in Nat
  BY <1>1, NamesAre DEF CallsLeft
<1>4. IsPrefix(<<>>, name)
  BY <1>3, PrefixOrder
<1>5. /\ k \in 1..Len(Stack) /\ IsPrefix(Stack[k].name, name)
      /\ \A j \in 1..Len(Stack) : j > k => ~IsPrefix(Stack[j].name, name)
  BY <1>2, <1>4, KeptIs
<1>6. \A s : Over(s) => ~IsPrefix(s, name)
  BY DEF Over
<1>7. ASSUME NEW s \in StructsSeen
      PROVE  s \in Names /\ s \in Structures /\ ~IsPrefix(name, s)
  <2>1. PICK i \in Seen : s = Calls[i].name /\ ~Calls[i].atomic
    BY DEF StructsSeen
  <2>2. i \in Chosen /\ i \in 1..Len(Calls) /\ i < n
    BY <1>1, <2>1 DEF Seen
  <2> QED BY <1>1, <2>1, <2>2, NamesAre, OrderIs DEF CallsLeft, Structures
<1>8. \A j \in 1..Len(Stack) : Stack[j] \in Structs /\ Stack[j].name \in Names
  <2>1. Stack \in Seq(Structs)
    BY DEF StackInv
  <2>2. \A j \in 1..Len(Stack) : Stack[j] \in Structs
    BY <1>2, <2>1
  <2>3. \A m \in Structs : m.name \in Names
    BY DEF Structs
  <2> QED BY <2>2, <2>3
<1>9. Stack[k].name \in Around(name) /\ IsStrictPrefix(Stack[k].name, name)
  <2>1. CASE k = 1
    BY <1>2, <1>3, <1>4, <2>1 DEF Around, IsStrictPrefix
  <2>2. CASE k # 1
    <3>1. k \in 2..Len(Stack)
      BY <1>2, <1>5, <2>2
    <3>2. Stack[k].name \in StructsSeen
      BY <3>1 DEF StackInv, Filled
    <3>3. Stack[k].name # name
      BY <1>3, <1>7, <3>2, PrefixOrder
    <3> QED BY <1>5, <1>7, <3>2, <3>3 DEF Around, IsStrictPrefix
  <2> QED BY <2>1, <2>2
<1>10. ASSUME NEW t \in Around(name) PROVE Len(t) <= Len(Stack[k].name)
  <2>1. IsPrefix(t, name) /\ t # name
    BY DEF Around, IsStrictPrefix
  <2>2. Len(Stack[k].name) \in Nat
    BY <1>3, <1>5, <1>8
  <2>3. CASE t = <<>>
    BY <2>2, <2>3
  <2>4. CASE t # <<>>
    <3>1. PICK i \in Chosen : t = Calls[i].name /\ ~Calls[i].atomic
      BY <2>4 DEF Around, Structures
    <3>2. i \in 1..Len(Calls) /\ i # n
      BY <1>1, <2>1, <3>1
    <3>3. ~(n < i)
      BY <1>1, <2>1, <3>1, <3>2, OrderIs DEF CallsLeft
    <3>4. i <= Processed
      BY <3>2, <3>3
    <3>5. t \in StructsSeen
      BY <3>1, <3>4 DEF StructsSeen, Seen
    <3>6. ~Over(t)
      BY <1>6, <2>1
    <3>7. PICK j \in 2..Len(Stack) : Stack[j].name = t
      BY <3>5, <3>6 DEF StackInv
    <3>8. j <= k /\ j \in 1..Len(Stack)
      BY <1>2, <1>5, <2>1, <3>7
    <3>9. CASE j = k
      BY <2>2, <3>7, <3>9
    <3>10. CASE j # k
      <4>1. IsPrefix(Stack[j].name, Stack[k].name)
        BY <1>5, <3>8, <3>10 DEF StackInv, IsStrictPrefix
      <4> QED BY <1>3, <1>5, <1>8, <3>7, <3>8, <4>1, PrefixOrder
    <3> QED BY <3>9, <3>10
  <2> QED BY <2>3, <2>4
<1>11. Parent(name) = Stack[k].name
  BY <1>3, <1>9, <1>10, ParentIs DEF CallsLeft
<1> QED BY <1>5, <1>6, <1>9, <1>11

(* No two calls have one name, so it says which are the error structures.  *)
LEMMA ErrorIs ==
  ASSUME CallsLeft, NEW n \in Chosen
  PROVE  Calls[n].name \in ErrorNames <=> IsError(Calls[n])
<1>1. Chosen \in SUBSET (1..Len(Calls)) /\ Len(Calls) \in Nat
  BY CallsAre DEF CallsLeft, Chosen
<1>2. ASSUME NEW i \in Chosen, Calls[i].name = Calls[n].name PROVE i = n
  <2>1. IsPrefix(Calls[i].name, Calls[n].name) /\ IsPrefix(Calls[n].name, Calls[i].name)
    <3>1. Calls[n].name \in Names
      BY <1>1, NamesAre DEF CallsLeft
    <3>2. Calls[n].name \in Seq(Parts)
      BY <3>1, NamesAre DEF CallsLeft
    <3> QED BY <1>2, <3>2, PrefixOrder
  <2>2. ~(i < n) /\ ~(n < i)
    BY <1>1, <2>1, OrderIs DEF CallsLeft
  <2> QED BY <1>1, <2>2
<1> QED BY <1>2 DEF ErrorNames

---------------------------------------------------------------------------
(* The n-th call is the one that is processed.                             *)
CallIs(n) ==
  /\ CallsLeft /\ CallsLeft' /\ UNCHANGED <<project, option>>
  /\ Processed \in Nat /\ Processed' = Processed + 1
  /\ n = Processed + 1 /\ n \in 1..Len(Calls)

(* What a call adds to the members.                                        *)
LEMMA SeenNext ==
  ASSUME NEW n, CallIs(n)
  PROVE  /\ Chosen' = Chosen /\ Structures' = Structures /\ ErrorNames' = ErrorNames
         /\ \A s : Around(s)' = Around(s) /\ Parent(s)' = Parent(s) /\ Members(s)' = Members(s)
         /\ n \notin Chosen => /\ Seen' = Seen /\ StructsSeen' = StructsSeen
                               /\ \A s : MembersSeen(s)' = MembersSeen(s)
         /\ n \in Chosen =>
              /\ Seen' = Seen \cup {n}
              /\ StructsSeen' = StructsSeen \cup (IF Calls[n].atomic THEN {} ELSE {Calls[n].name})
              /\ \A s : MembersSeen(s)' =
                   MembersSeen(s) \cup (IF IsField(Calls[n]) /\ Parent(Calls[n].name) = s THEN {n} ELSE {})
<1> USE DEF CallIs
<1>1. /\ Calls' = Calls
      /\ \A c : query_substitution(c)' = query_substitution(c) /\ IsField(c)' = IsField(c)
  BY SettingsStay DEF IsField
<1>2. Chosen' = Chosen
  BY <1>1 DEF Chosen
<1>3. Structures' = Structures /\ ErrorNames' = ErrorNames
  BY <1>1, <1>2 DEF Structures, ErrorNames
<1>4. \A s : Around(s)' = Around(s)
  BY <1>3 DEF Around
<1>5. \A s : Parent(s)' = Parent(s)
  BY <1>4 DEF Parent
<1>6. \A s : Members(s)' = Members(s)
  BY <1>1, <1>2, <1>5 DEF Members
<1>7. \A i \in Chosen : i \in Int
  BY CallsAre DEF CallsLeft, Chosen
<1>8. \A i \in Chosen : i <= Processed' <=> i <= Processed \/ i = n
  BY <1>7
<1>9. \A s : Members(s) \subseteq Chosen
  BY DEF Members
<1>10. Seen' = Seen \cup (Chosen \cap {n})
  BY <1>2, <1>8 DEF Seen
<1>11. \A s : MembersSeen(s)' = MembersSeen(s) \cup (Members(s) \cap {n})
  BY <1>6, <1>8, <1>9 DEF MembersSeen
<1>12. StructsSeen' = StructsSeen \cup {Calls[i].name : i \in {j \in Chosen \cap {n} : ~Calls[j].atomic}}
  BY <1>1, <1>10 DEF StructsSeen
<1>13. n \in Chosen => \A s : Members(s) \cap {n} =
                                 IF IsField(Calls[n]) /\ Parent(Calls[n].name) = s THEN {n} ELSE {}
  BY DEF Members
<1>14. n \notin Chosen => Chosen \cap {n} = {} /\ \A s : Members(s) \cap {n} = {}
  BY <1>9
<1>15. n \in Chosen => Chosen \cap {n} = {n}
  OBVIOUS
<1> QED BY <1>2, <1>3, <1>4, <1>5, <1>6, <1>10, <1>11, <1>12, <1>13, <1>14, <1>15

(* A list of members becomes longer by the next one, and stays otherwise.  *)
LEMMA ListsNext ==
  ASSUME NEW n, CallIs(n),
         NEW I \in SUBSET (1..Processed), NEW fields \in Seq(Names), Lists(fields, I)
  PROVE  /\ Lists(fields, I)'
         /\ Lists(Append(fields, Calls[n].name), I \cup {n})'
<1>1. Calls' = Calls /\ Processed \in Nat /\ n = Processed + 1
  BY SettingsStay DEF CallIs
<1>2. Lists(fields, I)'
  BY <1>1 DEF Lists, Rank
<1>3. I \in SUBSET Int /\ n \in Int /\ IsFiniteSet(I) /\ \A i \in I : i < n /\ i \in Int
  <2>1. IsFiniteSet(1..Processed)
    BY <1>1, FS_Interval
  <2>2. IsFiniteSet(I)
    BY <2>1, FS_Subset
  <2> QED BY <1>1, <2>2
<1>4. /\ Cardinality(I \cup {n}) = Cardinality(I) + 1 /\ Rank(n, I \cup {n}) = Cardinality(I) + 1
      /\ \A i \in I : Rank(i, I \cup {n}) = Rank(i, I)
  BY <1>3, RankAppended
<1>5. \A i \in I : Rank(i, I) \in 1..Cardinality(I)
  BY <1>3, RankIs
<1>6. PICK longer : longer = Append(fields, Calls[n].name)
  OBVIOUS
<1>7. /\ Len(longer) = Len(fields) + 1 /\ longer[Len(fields) + 1] = Calls[n].name
      /\ \A j \in 1..Len(fields) : longer[j] = fields[j]
  BY <1>6, AppendIs
<1>8. Len(fields) = Cardinality(I) /\ \A i \in I : fields[Rank(i, I)] = Calls[i].name
  BY DEF Lists
<1>9. Lists(longer, I \cup {n})
  BY <1>4, <1>5, <1>7, <1>8 DEF Lists
<1> QED BY <1>1, <1>2, <1>6, <1>9 DEF Lists, Rank

(* The last error structure is the next member, if that is one.            *)
LEMMA ErrorNext ==
  ASSUME NEW n, CallIs(n), NEW I \in SUBSET (1..Processed), NEW place, LastError(place, I)
  PROVE  /\ LastError(place, I)'
         /\ IsError(Calls[n]) => LastError(Cardinality(I) + 1, I \cup {n})'
         /\ ~IsError(Calls[n]) => LastError(place, I \cup {n})'
<1>1. Calls' = Calls /\ Processed \in Nat /\ n = Processed + 1
  BY SettingsStay DEF CallIs
<1>2. LastError(place, I)'
  BY <1>1 DEF LastError, Rank
<1>3. I \in SUBSET Int /\ n \in Int /\ IsFiniteSet(I) /\ \A i \in I : i < n /\ i \in Int
  <2>1. IsFiniteSet(1..Processed)
    BY <1>1, FS_Interval
  <2>2. IsFiniteSet(I)
    BY <2>1, FS_Subset
  <2> QED BY <1>1, <2>2
<1>4. /\ Rank(n, I \cup {n}) = Cardinality(I) + 1
      /\ \A i \in I : Rank(i, I \cup {n}) = Rank(i, I)
  BY <1>3, RankAppended
<1> DEFINE E == {i \in I : IsError(Calls[i])}
           F == {i \in I \cup {n} : IsError(Calls[i])}
<1>5. CASE IsError(Calls[n])
  <2>1. F \in SUBSET (1..n) /\ n \in F /\ n \in Nat
    <3>1. n \in Nat /\ n \in 1..n /\ \A i \in I : i \in 1..n
      BY <1>1
    <3>2. F \subseteq I \cup {n} /\ n \in F
      BY <1>5
    <3> QED BY <3>1, <3>2
  <2>2. Max(F) \in F /\ n <= Max(F)
    BY <2>1, GreatestNumber
  <2>3. Max(F) = n
    BY <2>1, <2>2
  <2>4. LastError(Cardinality(I) + 1, I \cup {n})
    BY <1>4, <2>1, <2>3 DEF LastError
  <2> QED BY <1>1, <1>2, <1>5, <2>4 DEF LastError, Rank
<1>6. CASE ~IsError(Calls[n])
  <2>1. F = E
    BY <1>6
  <2>2. E # {} => Max(E) \in I
    <3>1. E \in SUBSET (1..Processed)
      OBVIOUS
    <3> QED BY <1>1, <3>1, GreatestNumber
  <2>3. LastError(place, I \cup {n})
    BY <1>4, <2>1, <2>2 DEF LastError
  <2> QED BY <1>1, <1>2, <1>6, <2>3 DEF LastError, Rank
<1> QED BY <1>5, <1>6

(* A structure that gets no member.                                        *)
LEMMA StaysFilled ==
  ASSUME NEW n, CallIs(n), n \in Chosen,
         NEW m, Filled(m), m.name # Parent(Calls[n].name)
  PROVE  Filled(m)'
<1>1. /\ Calls' = Calls /\ Names' = Names /\ Structs' = Structs /\ CallsLeft
  BY SettingsStay DEF CallIs, Names, Structs
<1>2. /\ StructsSeen \subseteq StructsSeen' /\ Parent(m.name)' = Parent(m.name)
      /\ ErrorNames' = ErrorNames
      /\ MembersSeen(m.name)' = MembersSeen(m.name)
  <2> PICK s : s = m.name
    OBVIOUS
  <2>1. MembersSeen(s)' =
          MembersSeen(s) \cup (IF IsField(Calls[n]) /\ Parent(Calls[n].name) = s THEN {n} ELSE {})
    BY SeenNext
  <2>2. MembersSeen(s)' = MembersSeen(s)
    BY <2>1
  <2>3. Parent(s)' = Parent(s)
    BY SeenNext
  <2>4. StructsSeen \subseteq StructsSeen' /\ ErrorNames' = ErrorNames
    BY SeenNext
  <2> QED BY <2>2, <2>3, <2>4
<1>3. MembersSeen(m.name) \in SUBSET (1..Processed) /\ m.fields \in Seq(Names)
  BY <1>1, CallsAre DEF CallsLeft, MembersSeen, Members, Chosen, Filled, Structs
<1>4. Lists(m.fields, MembersSeen(m.name))'
  BY <1>1, <1>2, <1>3, ListsNext DEF Filled
<1>5. LastError(m.erroridx, MembersSeen(m.name))'
  BY <1>1, <1>2, <1>3, ErrorNext DEF Filled
<1> QED BY <1>1, <1>2, <1>4, <1>5 DEF Filled

\* Behind a name of its own: what the provers know of \o gets in the way.
Pushed(s, x) == s \o <<x>>
IsPushed(p, s, x, n, S) ==
  p \in Seq(S) /\ Len(p) = n /\ p[n] = x /\ \A j \in 1..n - 1 : p[j] = s[j]

LEMMA Pushing ==
  ASSUME NEW S, NEW s \in Seq(S), NEW x \in S, NEW n, n = Len(s) + 1
  PROVE  IsPushed(Pushed(s, x), s, x, n, S)
<1>1. <<x>> \in Seq(S) /\ Len(<<x>>) = 1 /\ <<x>>[1] = x
  OBVIOUS
<1> PICK u \in Seq(S) : u = <<x>> /\ Len(u) = 1 /\ u[1] = x
  BY <1>1
<1>2. /\ s \o u \in Seq(S) /\ Len(s \o u) = Len(s) + Len(u)
      /\ \A i \in 1..Len(s) + Len(u) : (s \o u)[i] = IF i <= Len(s) THEN s[i] ELSE u[i - Len(s)]
  BY ConcatProperties
<1>3. Pushed(s, x) = s \o u
  BY DEF Pushed
<1> QED BY <1>2, <1>3 DEF IsPushed

LEMMA CutAndPushed ==
  ASSUME NEW S, NEW s \in Seq(S), NEW k \in 1..Len(s), NEW x \in S, NEW y \in S,
         NEW a, a = Pushed(SubSeq(s, 1, k - 1), x), NEW b, b = Pushed(a, y)
  PROVE  IsPushed(a, s, x, k, S) /\ IsPushed(b, a, y, k + 1, S) /\ a \o <<>> = a
<1>1. PICK t \in Seq(S) : t = SubSeq(s, 1, k - 1) /\ Len(t) = k - 1 /\ \A j \in 1..k - 1 : t[j] = s[j]
  <2> PICK m \in Int : m = k - 1 /\ 0 <= m /\ m < Len(s)
    OBVIOUS
  <2>1. SubSeq(s, 1, m) = [j \in 1..m |-> s[j]]
    OBVIOUS
  <2>2. SubSeq(s, 1, m) \in Seq(S) /\ Len(SubSeq(s, 1, m)) = m
    OBVIOUS
  <2> QED BY <2>1, <2>2
<1>2. IsPushed(a, s, x, k, S)
  <2>1. a = Pushed(t, x) /\ k = Len(t) + 1
    BY <1>1
  <2>2. IsPushed(Pushed(t, x), t, x, k, S)
    BY <2>1, Pushing
  <2> QED BY <1>1, <2>1, <2>2 DEF IsPushed
<1>3. a \in Seq(S) /\ a \o <<>> = a /\ k + 1 = Len(a) + 1
  <2>1. a \in Seq(S) /\ Len(a) = k
    BY <1>2 DEF IsPushed
  <2> QED BY <2>1
<1>4. IsPushed(b, a, y, k + 1, S)
  BY <1>3, Pushing
<1> QED BY <1>2, <1>3, <1>4

\* The structures up to the k-th, this with a new field, and one that is begun.
Cut(s, k, x, y, atomic) ==
  SubSeq(s, 1, k - 1) \o <<x>> \o (IF atomic THEN <<>> ELSE <<y>>)
IsCut(p, s, k, x, y, atomic, S) ==
  /\ p \in Seq(S) /\ Len(p) = IF atomic THEN k ELSE k + 1
  /\ \A j \in 1..k - 1 : p[j] = s[j]
  /\ p[k] = x /\ (~atomic => p[k + 1] = y)

LEMMA CutIs ==
  ASSUME NEW S, NEW s \in Seq(S), NEW k \in 1..Len(s), NEW x \in S, NEW y \in S,
         NEW atomic \in BOOLEAN, NEW p, p = Cut(s, k, x, y, atomic)
  PROVE  IsCut(p, s, k, x, y, atomic, S)
<1> PICK a : a = Pushed(SubSeq(s, 1, k - 1), x)
  OBVIOUS
<1> PICK b : b = Pushed(a, y)
  OBVIOUS
<1>1. IsPushed(a, s, x, k, S) /\ IsPushed(b, a, y, k + 1, S) /\ a \o <<>> = a
  BY CutAndPushed
<1>2. p = IF atomic THEN a ELSE b
  BY <1>1, Zenon DEF Cut, Pushed
<1>3. k \in Nat /\ (k + 1) - 1 = k /\ k \in 1..k /\ \A j \in 1..k - 1 : j \in 1..k
  OBVIOUS
<1>4. /\ a \in Seq(S) /\ Len(a) = k /\ a[k] = x
      /\ \A j \in 1..k - 1 : a[j] = s[j]
  BY <1>1, Zenon DEF IsPushed
<1>5. /\ b \in Seq(S) /\ Len(b) = k + 1 /\ b[k + 1] = y
      /\ \A j \in 1..k : b[j] = a[j]
  BY <1>1, <1>3, Zenon DEF IsPushed
<1>6. CASE atomic
  BY <1>2, <1>4, <1>6, Zenon DEF IsCut
<1>7. CASE ~atomic
  <2>1. p = b
    BY <1>2, <1>7, Zenon
  <2>2. p[k] = x /\ \A j \in 1..k - 1 : p[j] = s[j]
    BY <1>3, <1>4, <1>5, <2>1, Zenon
  <2> QED BY <1>5, <1>7, <2>1, <2>2, Zenon DEF IsCut
<1> QED BY <1>6, <1>7

\* The stack and the files after the n-th call.
Lengthened(m, n) == IF IsField(Calls[n]) THEN Append(m.fields, Calls[n].name) ELSE m.fields
Filling(m, n) ==
  [m EXCEPT !.fields = Lengthened(m, n),
            !.erroridx = IF IsError(Calls[n]) THEN Len(Lengthened(m, n)) ELSE @]
Opening(m, n) == [name |-> Calls[n].name, fields |-> <<>>, back |-> m.name,
                  iserror |-> IsError(Calls[n]), erroridx |-> 0]
StackIs(stack, files, n) ==
  LET k == Kept(Stack, Calls[n].name)
      top == Stack[k]
  IN /\ files = macros \cup process_record(Finished(Stack, k))
     /\ stack = Cut(Stack, k, Filling(top, n), Opening(top, n), Calls[n].atomic)

LEMMA FillingIs ==
  ASSUME NEW n, CallIs(n), NEW top \in Structs
  PROVE  /\ Filling(top, n) \in Structs /\ Filling(top, n).name = top.name
         /\ Filling(top, n).back = top.back /\ Filling(top, n).iserror = top.iserror
         /\ Filling(top, n).fields = Lengthened(top, n)
         /\ Filling(top, n).erroridx =
              IF IsError(Calls[n]) THEN Len(Lengthened(top, n)) ELSE top.erroridx
         /\ Opening(top, n) \in Structs
         /\ Opening(top, n).name = Calls[n].name /\ Opening(top, n).back = top.name
         /\ Opening(top, n).fields = <<>> /\ Opening(top, n).erroridx = 0
         /\ Opening(top, n).iserror = IsError(Calls[n])
<1>1. /\ Calls[n].name \in Names /\ top.name \in Names /\ top.fields \in Seq(Names)
      /\ top.erroridx \in Nat /\ IsError(Calls[n]) \in BOOLEAN
  BY NamesAre DEF CallIs, CallsLeft, Structs, IsError
<1>2. /\ Opening(top, n) \in Structs
      /\ Opening(top, n).name = Calls[n].name /\ Opening(top, n).back = top.name
      /\ Opening(top, n).fields = <<>> /\ Opening(top, n).erroridx = 0
      /\ Opening(top, n).iserror = IsError(Calls[n])
  BY <1>1 DEF Structs, Opening
<1>3. Lengthened(top, n) \in Seq(Names)
  BY <1>1 DEF Lengthened
<1>4. PICK f \in Seq(Names) : f = Lengthened(top, n)
  BY <1>3, Zenon
<1>5. PICK e \in Nat : e = IF IsError(Calls[n]) THEN Len(f) ELSE top.erroridx
  BY <1>1
<1>6. PICK m : m = [top EXCEPT !.fields = f, !.erroridx = e]
  OBVIOUS
<1>7. Filling(top, n) = m
  BY <1>4, <1>5, <1>6 DEF Filling, Structs
<1>8. /\ m \in Structs /\ m.name = top.name /\ m.back = top.back /\ m.iserror = top.iserror
      /\ m.fields = f /\ m.erroridx = e
  BY <1>6 DEF Structs
<1> QED BY <1>2, <1>4, <1>5, <1>7, <1>8, Zenon

(* A structure that is filled gets the call among its members.             *)
LEMMA TopFilled ==
  ASSUME NEW n, CallIs(n), n \in Chosen,
         NEW top, Filled(top), Parent(Calls[n].name) = top.name, NEW m, m = Filling(top, n)
  PROVE  Filled(m)'
<1>1. /\ Calls' = Calls /\ Structs' = Structs /\ CallsLeft
  BY SettingsStay DEF CallIs, Names, Structs
<1>2. /\ m \in Structs /\ m.name = top.name /\ m.back = top.back /\ m.iserror = top.iserror
      /\ m.fields = IF IsField(Calls[n]) THEN Append(top.fields, Calls[n].name) ELSE top.fields
      /\ m.erroridx = IF IsError(Calls[n]) THEN Len(m.fields) ELSE top.erroridx
  <2>1. top \in Structs
    BY DEF Filled
  <2>2. /\ m \in Structs /\ m.name = top.name /\ m.back = top.back /\ m.iserror = top.iserror
        /\ m.fields = Lengthened(top, n)
        /\ m.erroridx = IF IsError(Calls[n]) THEN Len(Lengthened(top, n)) ELSE top.erroridx
    BY <2>1, FillingIs
  <2> QED BY <2>2, Zenon DEF Lengthened
<1>3. /\ top.name \in StructsSeen /\ top.back = Parent(top.name) /\ top.fields \in Seq(Names)
      /\ top.iserror = (top.name \in ErrorNames)
      /\ Lists(top.fields, MembersSeen(top.name)) /\ LastError(top.erroridx, MembersSeen(top.name))
  BY DEF Filled, Structs
<1> PICK s : s = top.name
  OBVIOUS
<1> PICK I : I = MembersSeen(s)
  OBVIOUS
<1>4. I \in SUBSET (1..Processed)
  BY <1>1, CallsAre DEF CallsLeft, MembersSeen, Members, Chosen
<1>5. Lists(top.fields, I)' /\ Lists(Append(top.fields, Calls[n].name), I \cup {n})'
  BY <1>3, <1>4, ListsNext
<1>6. /\ LastError(top.erroridx, I)'
      /\ IsError(Calls[n]) => LastError(Cardinality(I) + 1, I \cup {n})'
      /\ ~IsError(Calls[n]) => LastError(top.erroridx, I \cup {n})'
  BY <1>3, <1>4, ErrorNext
<1>7. /\ MembersSeen(s)' = IF IsField(Calls[n]) THEN I \cup {n} ELSE I
      /\ Parent(s)' = Parent(s) /\ s \in StructsSeen' /\ ErrorNames' = ErrorNames
  <2>1. MembersSeen(s)' =
          MembersSeen(s) \cup (IF IsField(Calls[n]) /\ Parent(Calls[n].name) = s THEN {n} ELSE {})
    BY SeenNext
  <2> QED BY <1>3, <2>1, SeenNext
<1> PICK f : f = m.fields
  OBVIOUS
<1> PICK e : e = m.erroridx
  OBVIOUS
<1> PICK J : J = I \cup {n}
  BY Zenon
<1>8. Lists(f, MembersSeen(s))'
  <2>1. CASE IsField(Calls[n])
    <3>1. f = Append(top.fields, Calls[n].name) /\ MembersSeen(s)' = J
      BY <1>2, <1>7, <2>1, Zenon
    <3>2. Append(top.fields, Calls[n].name)' = f
      BY <1>1, <3>1, Zenon
    <3>3. Lists(f, J)'
      BY <1>5, <3>1, <3>2, Zenon DEF Lists
    <3> QED BY <3>1, <3>3, Zenon DEF Lists
  <2>2. CASE ~IsField(Calls[n])
    <3>1. f = top.fields /\ MembersSeen(s)' = I
      BY <1>2, <1>7, <2>2, Zenon
    <3> QED BY <1>5, <3>1, Zenon DEF Lists
  <2> QED BY <2>1, <2>2
<1>9. LastError(e, MembersSeen(s))'
  <2>1. CASE IsError(Calls[n])
    <3>1. IsField(Calls[n])
      BY <1>1, <2>1, CallsAre DEF CallIs, CallsLeft, IsField
    <3>2. e = Cardinality(I) + 1
      BY <1>2, <1>3, <2>1, <3>1, AppendIs DEF Lists
    <3>3. LastError(e, J)'
      BY <1>1, <1>6, <2>1, <3>2 DEF LastError
    <3> QED BY <1>7, <3>1, <3>3, Zenon DEF LastError
  <2>2. CASE ~IsError(Calls[n])
    <3>1. e = top.erroridx /\ MembersSeen(s)' \in {I, J}
      BY <1>2, <1>7, <2>2
    <3>2. LastError(e, I)' /\ LastError(e, J)'
      BY <1>6, <2>2, <3>1
    <3> QED BY <3>1, <3>2 DEF LastError
  <2> QED BY <2>1, <2>2
<1>10. Lists(m.fields, MembersSeen(m.name))' /\ LastError(m.erroridx, MembersSeen(m.name))'
  BY <1>2, <1>8, <1>9 DEF Lists, LastError
<1>11. m.back = Parent(m.name)' /\ m.iserror = (m.name \in ErrorNames') /\ m.name \in StructsSeen'
  BY <1>2, <1>3, <1>7
<1> QED BY <1>1, <1>2, <1>10, <1>11 DEF Filled

(* A structure that is begun has no members yet.                           *)
LEMMA OpeningFilled ==
  ASSUME NEW n, CallIs(n), n \in Chosen, StackInv, ~Calls[n].atomic,
         Parent(Calls[n].name) \in Around(Calls[n].name),
         NEW top \in Structs, Parent(Calls[n].name) = top.name, NEW m, m = Opening(top, n)
  PROVE  Filled(m)'
<1>1. /\ Calls' = Calls /\ Structs' = Structs /\ CallsLeft /\ Processed \in Nat
      /\ n = Processed + 1 /\ n \in 1..Len(Calls)
  BY SettingsStay DEF CallIs, Names, Structs
<1>2. /\ m \in Structs /\ m.name = Calls[n].name /\ m.back = top.name /\ m.fields = <<>>
      /\ m.erroridx = 0 /\ m.iserror = (m.name \in ErrorNames)
  <2>1. /\ m \in Structs /\ m.name = Calls[n].name /\ m.back = top.name /\ m.fields = <<>>
        /\ m.erroridx = 0 /\ m.iserror = IsError(Calls[n])
    BY FillingIs
  <2>2. Calls[n].name \in ErrorNames <=> IsError(Calls[n])
    BY <1>1, ErrorIs
  <2>3. IsError(Calls[n]) \in BOOLEAN
    BY DEF IsError
  <2> QED BY <2>1, <2>2, <2>3
<1> PICK name : name = Calls[n].name
  OBVIOUS
<1>3. top.name # name
  BY DEF Around, IsStrictPrefix
<1>4. ASSUME NEW i \in MembersSeen(name) PROVE FALSE
  <2>1. i \in Chosen /\ i <= Processed /\ Parent(Calls[i].name) = name /\ i \in 1..Len(Calls)
    BY <1>1, CallsAre DEF MembersSeen, Members, Chosen, CallsLeft
  <2>2. Parent(Calls[i].name) \in Around(Calls[i].name)
    BY <2>1 DEF StackInv, Seen
  <2>3. IsPrefix(name, Calls[i].name)
    BY <2>1, <2>2 DEF Around, IsStrictPrefix
  <2> QED BY <1>1, <2>1, <2>3, OrderIs DEF CallsLeft
<1>5. /\ MembersSeen(name)' = {} /\ Parent(name)' = Parent(name) /\ name \in StructsSeen'
      /\ ErrorNames' = ErrorNames
  <2>1. MembersSeen(name)' =
          MembersSeen(name) \cup (IF IsField(Calls[n]) /\ Parent(Calls[n].name) = name THEN {n} ELSE {})
    BY SeenNext
  <2> QED BY <1>3, <1>4, <2>1, SeenNext
<1>6. Lists(<<>>, {})' /\ LastError(0, {})'
  BY FS_EmptySet DEF Lists, LastError
<1>7. Lists(m.fields, MembersSeen(name))' /\ LastError(m.erroridx, MembersSeen(name))'
  BY <1>2, <1>5, <1>6 DEF Lists, LastError
<1> QED BY <1>1, <1>2, <1>5, <1>7 DEF Filled, Lists, LastError

(* A call that counts.                                                     *)
LEMMA MacroChosen ==
  ASSUME NEW n, CallIs(n), n \in Chosen, StackInv, StackIs(Stack', macros', n)
  PROVE  StackInv'
<1> PICK k : k = Kept(Stack, Calls[n].name)
  OBVIOUS
<1>1. /\ CallsLeft /\ Calls' = Calls /\ UNCHANGED <<project, option>>
      /\ Processed \in Nat /\ Processed' = Processed + 1
      /\ n = Processed + 1 /\ n \in 1..Len(Calls)
  BY SettingsStay DEF CallIs
<1> PICK name : name = Calls[n].name
  OBVIOUS
<1> PICK top : top = Stack[k]
  OBVIOUS
<1> PICK filled : filled = Filling(top, n)
  OBVIOUS
<1> PICK new : new = Opening(top, n)
  OBVIOUS
<1> PICK L \in Nat : L = Len(Stack) /\ L >= 1
  BY DEF StackInv
<1>2. /\ k \in 1..L /\ Parent(name) = top.name
      /\ IsStrictPrefix(top.name, name) /\ Parent(name) \in Around(name)
      /\ \A j \in 1..L : j > k => ~IsPrefix(Stack[j].name, name)
      /\ \A s : Over(s) => ~IsPrefix(s, name)
  BY <1>1, ParentOnStack
<1>3. /\ name \in Names /\ name # <<>> /\ \A i \in Names : i \in Seq(Parts) /\ Len(i) \in Nat
      /\ Calls' = Calls /\ Names' = Names /\ Structs' = Structs
  <2>1. Names' = Names
    BY <1>1 DEF Names
  <2> QED BY <1>1, <2>1, NamesAre DEF CallsLeft, Structs
<1>4. /\ \A j \in 1..L : Stack[j] \in Structs
      /\ Stack \in Seq(Structs) /\ DOMAIN Stack = 1..L
  <2>1. Stack \in Seq(Structs)
    BY DEF StackInv
  <2> QED BY <2>1
<1>5. top \in Structs /\ top.name \in Names /\ top.fields \in Seq(Names) /\ top.name # name
  <2>1. top \in Structs
    BY <1>2, <1>4
  <2> QED BY <1>2, <2>1 DEF Structs, IsStrictPrefix
<1>6. filled \in Structs /\ filled.name = top.name
  BY <1>1, <1>5, FillingIs DEF CallIs
<1>7. new \in Structs /\ new.name = name
  BY <1>1, <1>5, FillingIs DEF CallIs
<1> PICK atomic \in BOOLEAN : atomic = Calls[n].atomic
  BY <1>1, CallsAre DEF CallsLeft
<1> PICK K : K = IF atomic THEN k ELSE k + 1
  OBVIOUS
<1> PICK P : P = Stack'
  OBVIOUS
<1>8. /\ P \in Seq(Structs) /\ Len(P) = K /\ K \in Nat /\ DOMAIN P = 1..K
      /\ \A j \in 1..k - 1 : P[j] = Stack[j]
      /\ P[k] = filled
      /\ ~atomic => P[k + 1] = new
  <2>1. P = Cut(Stack, k, filled, new, atomic)
    BY Zenon DEF StackIs
  <2>2. Stack \in Seq(Structs) /\ k \in 1..Len(Stack)
    BY <1>2, <1>4
  <2>0. IsCut(P, Stack, k, filled, new, atomic, Structs)
    BY <1>6, <1>7, <2>1, <2>2, CutIs
  <2>3. /\ P \in Seq(Structs) /\ Len(P) = K
        /\ \A j \in 1..k - 1 : P[j] = Stack[j]
        /\ P[k] = filled /\ (~atomic => P[k + 1] = new)
    BY <2>0, Zenon DEF IsCut
  <2>4. K \in Nat
    BY <1>2
  <2> QED BY <2>3, <2>4
(* The structures that stay have their members.                            *)
<1>9. ASSUME NEW m, Filled(m), m.name # top.name PROVE Filled(m)'
  BY <1>2, <1>9, StaysFilled
<1>10. /\ StructsSeen' = StructsSeen \cup (IF atomic THEN {} ELSE {name})
      /\ Seen' = Seen \cup {n} /\ Chosen' = Chosen
      /\ ErrorNames' = ErrorNames
      /\ \A s : Around(s)' = Around(s) /\ Parent(s)' = Parent(s)
  BY SeenNext
<1>11. ASSUME k # 1 PROVE Filled(filled)'
  <2>1. Filled(top)
    BY <1>2, <1>11 DEF StackInv
  <2> QED BY <1>2, <2>1, TopFilled
<1>12. ASSUME ~atomic PROVE Filled(new)'
  BY <1>2, <1>5, <1>12, OpeningFilled
<1>13. ASSUME NEW j \in 1..L, j # k PROVE Stack[j].name # top.name
  BY <1>2, <1>13 DEF StackInv, IsStrictPrefix
<1>14. ASSUME NEW j \in 2..K PROVE Filled(P[j])'
  <2>1. CASE j < k
    <3>1. j \in 2..L /\ P[j] = Stack[j] /\ Filled(Stack[j])
      BY <1>2, <1>8, <2>1 DEF StackInv
    <3> QED BY <1>2, <1>9, <1>13, <2>1, <3>1
  <2>2. CASE j = k
    BY <1>8, <1>11, <2>2
  <2>3. CASE j = k + 1
    BY <1>2, <1>8, <1>12, <2>3
  <2> QED BY <1>2, <2>1, <2>2, <2>3
<1>15. \A i, j \in 1..K : i < j => IsStrictPrefix(P[i].name, P[j].name)
  <2> SUFFICES ASSUME NEW i \in 1..K, NEW j \in 1..K, i < j PROVE IsStrictPrefix(P[i].name, P[j].name)
    OBVIOUS
  <2>1. ASSUME NEW h \in 1..k PROVE P[h].name = Stack[h].name
    <3>1. h \in 1..k - 1 \/ h = k
      BY <1>2
    <3> QED BY <1>6, <1>8, <3>1
  <2>2. CASE j <= k
    BY <1>2, <2>1, <2>2 DEF StackInv
  <2>3. CASE j = k + 1
    <3>1. P[j].name = name /\ i \in 1..k /\ i \in 1..L
      BY <1>2, <1>7, <1>8, <2>3
    <3>2. Stack[i].name \in Names
      BY <1>4, <3>1 DEF Structs
    <3>3. IsPrefix(Stack[i].name, top.name)
      <4>1. CASE i = k
        BY <1>3, <1>5, <4>1, PrefixOrder
      <4>2. CASE i # k
        BY <1>2, <3>1, <4>2 DEF StackInv, IsStrictPrefix
      <4> QED BY <4>1, <4>2
    <3>4. IsPrefix(top.name, name) /\ top.name # name
      BY <1>2 DEF IsStrictPrefix
    <3>5. IsPrefix(Stack[i].name, name)
      BY <1>3, <1>5, <3>2, <3>3, <3>4, PrefixOrder
    <3>6. Stack[i].name # name
      BY <1>3, <1>5, <3>3, <3>4, PrefixOrder
    <3> QED BY <2>1, <3>1, <3>5, <3>6 DEF IsStrictPrefix
  <2> QED BY <1>2, <2>2, <2>3
<1>16. ASSUME NEW s, Over(s) PROVE Over(s)'
  <2>1. \A i \in Chosen : i \in Nat
    BY <1>1, CallsAre DEF CallsLeft, Chosen
  <2>2. ASSUME NEW i \in Chosen, i > Processed + 1 PROVE i > Processed
    <3> PICK p \in Nat : p = Processed
      BY <1>1
    <3> QED BY <2>1, <2>2
  <2> QED BY <1>1, <1>10, <1>16, <2>2 DEF Over
<1>17. ASSUME NEW j \in 1..L, j > k PROVE j \in 2..L /\ Filled(Stack[j])
  BY <1>2, <1>17 DEF StackInv
<1>18. ASSUME NEW j \in 1..L, j > k, NEW s, s = Stack[j].name PROVE Over(s)'
  <2>1. Filled(Stack[j])
    BY <1>17, <1>18
  <2>2. PICK h \in Seen : Calls[h].name = s /\ ~Calls[h].atomic
    BY <1>18, <2>1 DEF Filled, StructsSeen
  <2>3. h \in 1..Len(Calls) /\ h <= n
    BY <1>1, CallsAre DEF CallsLeft, Seen, Chosen
  <2>4. ~IsPrefix(Calls[h].name, Calls[n].name)
    BY <1>2, <1>18, <2>2
  <2>5. ASSUME NEW i \in Chosen, i > Processed + 1 PROVE ~IsPrefix(Calls[h].name, Calls[i].name)
    <3>1. i \in 1..Len(Calls) /\ n <= i
      BY <1>1, <2>5, CallsAre DEF CallsLeft, Chosen
    <3> QED BY <1>1, <2>2, <2>3, <2>4, <3>1, OrderIs DEF CallsLeft
  <2>6. \A i \in Chosen : i > Processed + 1 => ~IsPrefix(s, Calls[i].name)
    BY <2>2, <2>5
  <2> QED BY <1>1, <1>10, <2>6 DEF Over
<1>19. ASSUME NEW m \in macros'
       PROVE  Filled(m)' /\ ~m.iserror /\ Over(m.name)'
  <2>1. CASE m \in macros
    <3>1. Filled(m) /\ ~m.iserror /\ Over(m.name)
      BY <2>1 DEF StackInv
    <3>2. m.name # top.name
      BY <1>2, <3>1 DEF IsStrictPrefix
    <3>3. Filled(m)'
      BY <1>9, <3>1, <3>2
    <3> QED BY <1>16, <3>1, <3>3
  <2>2. CASE m \notin macros
    <3>1. PICK j \in k + 1..L : m = Stack[j] /\ ~m.iserror
      BY <2>2 DEF StackIs, Finished, process_record
    <3>2. j \in 1..L /\ j > k
      BY <1>2, <3>1
    <3>3. Filled(m) /\ Over(m.name)'
      BY <1>17, <1>18, <3>1, <3>2
    <3>4. Filled(m)'
      BY <1>2, <1>9, <1>13, <3>1, <3>2, <3>3
    <3> QED BY <3>1, <3>3, <3>4
  <2> QED BY <2>1, <2>2
<1>20. ASSUME NEW s \in StructsSeen'
       PROVE  \/ \E j \in 2..K : P[j].name = s
              \/ Over(s)' /\ (s \in ErrorNames \/ \E m \in macros' : m.name = s)
  <2>1. CASE s \notin StructsSeen
    <3>1. ~atomic /\ s = name
      BY <1>10, <2>1
    <3>2. k + 1 \in 2..K /\ P[k + 1].name = s
      BY <1>2, <1>7, <1>8, <3>1
    <3> QED BY <3>2
  <2>2. CASE Over(s) /\ (s \in ErrorNames \/ \E m \in macros : m.name = s)
    <3>1. macros \subseteq macros'
      BY DEF StackIs
    <3> QED BY <1>16, <2>2, <3>1, Zenon
  <2>3. CASE \E j \in 2..L : Stack[j].name = s
    <3> PICK j \in 2..L : Stack[j].name = s
      BY <2>3
    <3>1. CASE j > k
      <4>1. Filled(Stack[j]) /\ j \in k + 1..L
        BY <1>2, <1>17, <3>1
      <4>2. Over(s)'
        BY <1>2, <1>18, <3>1
      <4>3. s \in ErrorNames \/ ~Stack[j].iserror
        BY <4>1 DEF Filled
      <4>4. Stack[j].iserror \/ Stack[j] \in process_record(Finished(Stack, k))
        BY <4>1 DEF Finished, process_record
      <4> QED BY <4>2, <4>3, <4>4, Zenon DEF StackIs
    <3>2. CASE j <= k
      <4>1. j \in 2..K /\ (j \in 1..k - 1 \/ j = k)
        BY <1>2, <3>2
      <4>2. P[j].name = s
        BY <1>6, <1>8, <4>1
      <4> QED BY <4>1, <4>2
    <3> QED BY <1>2, <3>1, <3>2
  <2> QED BY <2>1, <2>2, <2>3 DEF StackInv
<1>21. \A i \in Seen' : Parent(Calls[i].name)' \in Around(Calls[i].name)'
  <2>1. \A i \in Seen : Parent(Calls[i].name) \in Around(Calls[i].name)
    BY DEF StackInv
  <2>2. Parent(Calls[n].name) \in Around(Calls[n].name)
    BY <1>2
  <2>3. \A i : /\ Parent(Calls[i].name)' = Parent(Calls[i].name)
               /\ Around(Calls[i].name)' = Around(Calls[i].name)
    <3> TAKE i
    <3> PICK s : s = Calls[i].name
      OBVIOUS
    <3>1. Calls[i].name' = s
      BY <1>3
    <3>2. Parent(s)' = Parent(s) /\ Around(s)' = Around(s)
      BY <1>10
    <3> QED BY <3>1, <3>2 DEF Parent, Around
  <2> QED BY <1>10, <2>1, <2>2, <2>3
<1>22. P[1].name = <<>>
  <2>1. Stack[1].name = <<>>
    BY DEF StackInv
  <2>2. 1 \in 1..k - 1 \/ k = 1
    BY <1>2
  <2> QED BY <1>6, <1>8, <2>1, <2>2
<1>23. /\ Stack' \in Seq(Structs)' /\ Len(Stack') = K /\ Len(Stack') >= 1
       /\ Stack'[1].name = <<>>
  BY <1>2, <1>3, <1>8, <1>22
<1>24. \A j \in 2..Len(Stack') : Filled(Stack[j])'
  <2> SUFFICES ASSUME NEW j \in 2..Len(Stack') PROVE Filled(Stack[j])'
    OBVIOUS
  <2>1. PICK x : x = P[j] /\ Filled(x)'
    BY <1>14, <1>23
  <2>2. Stack'[j] = x
    BY <2>1
  <2> QED BY <2>1, <2>2 DEF Filled
<1>25. \A m \in macros' : Filled(m)' /\ ~m.iserror /\ Over(m.name)'
  BY <1>19
<1>26. \A i \in Seen' : Parent(Calls[i].name)' \in Around(Calls[i].name)'
  BY <1>21
<1>27. \A s \in StructsSeen' :
         \/ \E j \in 2..Len(Stack') : Stack'[j].name = s
         \/ Over(s)' /\ (s \in ErrorNames' \/ \E m \in macros' : m.name = s)
  BY <1>10, <1>20, <1>23
<1> QED BY <1>15, <1>23, <1>24, <1>25, <1>26, <1>27 DEF StackInv

---------------------------------------------------------------------------
(* Steps after which the same calls have come of those that count.         *)
SameMembers ==
  /\ Calls' = Calls /\ Names' = Names /\ Structs' = Structs /\ Chosen' = Chosen
  /\ ErrorNames' = ErrorNames
  /\ Seen' = Seen /\ StructsSeen' = StructsSeen
  /\ \A s : Around(s)' = Around(s) /\ Parent(s)' = Parent(s) /\ MembersSeen(s)' = MembersSeen(s)

LEMMA FilledStays ==
  ASSUME SameMembers, NEW m, Filled(m)
  PROVE  Filled(m)'
<1> PICK s : s = m.name
  OBVIOUS
<1> PICK I : I = MembersSeen(s)
  OBVIOUS
<1>1. MembersSeen(s)' = MembersSeen(s) /\ Parent(s)' = Parent(s)
  BY DEF SameMembers
<1>2. Lists(m.fields, I)' /\ LastError(m.erroridx, I)'
  BY DEF SameMembers, Filled, Lists, LastError, Rank
<1> QED BY <1>1, <1>2 DEF SameMembers, Filled, Lists, LastError

LEMMA AroundStays ==
  ASSUME SameMembers, StackInv
  PROVE  \A i \in Seen' : Parent(Calls[i].name)' \in Around(Calls[i].name)'
<1> SUFFICES ASSUME NEW i \in Seen PROVE Parent(Calls[i].name)' \in Around(Calls[i].name)'
  BY DEF SameMembers
<1> PICK s : s = Calls[i].name
  OBVIOUS
<1>1. Parent(s)' = Parent(s) /\ Around(s)' = Around(s) /\ Calls' = Calls
  BY DEF SameMembers
<1>2. Parent(s) \in Around(s)
  BY DEF StackInv
<1> QED BY <1>1, <1>2 DEF Parent, Around

LEMMA StackStays ==
  ASSUME SameMembers, StackInv, Stack' = Stack, macros' = macros,
         \A i \in Chosen : i > Processed' => i > Processed
  PROVE  StackInv'
<1>1. ASSUME NEW s, Over(s) PROVE Over(s)'
  BY <1>1 DEF SameMembers, Over
<1>2. \A m \in macros' : Filled(m)' /\ ~m.iserror /\ Over(m.name)'
  <2> SUFFICES ASSUME NEW m \in macros PROVE Filled(m)' /\ ~m.iserror /\ Over(m.name)'
    OBVIOUS
  <2>1. Filled(m) /\ ~m.iserror /\ Over(m.name)
    BY DEF StackInv
  <2> QED BY <1>1, <2>1, FilledStays
<1>3. \A j \in 2..Len(Stack') : Filled(Stack[j])'
  <2> SUFFICES ASSUME NEW j \in 2..Len(Stack') PROVE Filled(Stack[j])'
    OBVIOUS
  <2>1. PICK x : x = Stack[j] /\ Filled(x)'
    BY FilledStays DEF StackInv
  <2>2. Stack'[j] = x
    BY <2>1
  <2> QED BY <2>1, <2>2 DEF Filled
<1>4. /\ Stack' \in Seq(Structs)' /\ Len(Stack') >= 1 /\ Stack'[1].name = <<>>
      /\ \A j, k \in 1..Len(Stack') : j < k => IsStrictPrefix(Stack'[j].name, Stack'[k].name)
  BY DEF SameMembers, StackInv
<1>5. \A s \in StructsSeen' :
        \/ \E j \in 2..Len(Stack') : Stack'[j].name = s
        \/ Over(s)' /\ (s \in ErrorNames' \/ \E m \in macros' : m.name = s)
  BY <1>1 DEF SameMembers, StackInv
<1> QED BY <1>2, <1>3, <1>4, <1>5, AroundStays DEF StackInv

LEMMA NothingCalled ==
  ASSUME UNCHANGED <<project, option, calls>>
  PROVE  SameMembers /\ Processed' = Processed
<1>1. Calls' = Calls /\ Processed' = Processed
  BY SettingsStay DEF Processed
<1>2. Names' = Names /\ Structs' = Structs
  BY <1>1 DEF Names, Structs
<1>3. Chosen' = Chosen
  BY SettingsStay DEF Chosen
<1>4. Seen' = Seen
  BY <1>1, <1>3 DEF Seen
<1>5. StructsSeen' = StructsSeen /\ Structures' = Structures /\ ErrorNames' = ErrorNames
  BY <1>1, <1>3, <1>4 DEF StructsSeen, Structures, ErrorNames
<1>6. \A s : Around(s)' = Around(s)
  BY <1>5 DEF Around
<1>7. \A s : Parent(s)' = Parent(s)
  BY <1>6 DEF Parent
<1>8. \A s : MembersSeen(s)' = MembersSeen(s)
  BY <1>1, <1>3, <1>7, SettingsStay DEF MembersSeen, Members, IsField
<1> QED BY <1>1, <1>2, <1>3, <1>4, <1>5, <1>6, <1>7, <1>8 DEF SameMembers

(* A call that does not count changes neither the stack nor the files.     *)
LEMMA MacroQuiet ==
  ASSUME NEW n, CallIs(n), n \notin Chosen, StackInv, Stack' = Stack, macros' = macros
  PROVE  StackInv'
<1>1. /\ Calls' = Calls /\ Names' = Names /\ Structs' = Structs /\ Processed' = Processed + 1
  BY SettingsStay DEF CallIs, Names, Structs
<1>2. SameMembers
  BY <1>1, SeenNext DEF SameMembers
<1>3. \A i \in Chosen : i \in Nat /\ Processed \in Nat
  BY CallsAre DEF CallIs, CallsLeft, Chosen
<1>4. \A i \in Chosen : i > Processed' => i > Processed
  BY <1>1, <1>3
<1> QED BY <1>2, <1>4, StackStays

LEMMA MacroInit == OutInit => MacroInv
<1> SUFFICES ASSUME OutInit PROVE MacroInv
  OBVIOUS
<1>1. CallsLeft
  BY SplitInit DEF SplitInv
<1>2. calls = Calls /\ procstack = <<>> /\ macros = {} /\ project \in Projects /\ option \in Options
  BY DEF OutInit, Calls
<1>3. Processed = 0 /\ \A i \in Chosen : i > 0 /\ i \in Nat
  BY <1>2, CallsAre DEF Processed, Chosen
<1>4. Seen = {} /\ StructsSeen = {}
  BY <1>3 DEF Seen, StructsSeen
<1>5. Top \in Structs /\ Top.name = <<>> /\ Stack = <<Top>>
  BY <1>2, NamesAre DEF Top, Structs, Stack
<1>6. Stack \in Seq(Structs) /\ Len(Stack) = 1 /\ Stack[1].name = <<>>
  BY <1>5
<1> QED BY <1>1, <1>2, <1>4, <1>6 DEF MacroInv, StackInv

(* A step of the processing function is one of the two kinds of calls.     *)
LEMMA MacroStep ==
  ASSUME MacroInv, MacroProcess, ~Renamed
  PROVE  MacroInv'
<1>1. CallsLeft /\ option.mode = "macro" /\ StackInv /\ UNCHANGED <<project, option>>
  BY DEF MacroInv, MacroProcess
<1>2. /\ CallsLeft' /\ Processed \in Nat /\ Processed' = Processed + 1
      /\ Processed + 1 \in 1..Len(Calls) /\ Head(calls) = Calls[Processed + 1]
  BY <1>1, NextCall DEF MacroProcess
<1> PICK n : n = Processed + 1
  OBVIOUS
<1>3. CallIs(n) /\ Head(calls) = Calls[n] /\ n \in DOMAIN Calls
  BY <1>1, <1>2, CallsAre DEF CallIs, CallsLeft
<1>4. to_epics(Calls[n]) = Calls[n].name
  BY <1>3 DEF Renamed
<1>5. n \in Chosen <=> ~Ignored(Calls[n]) /\ query_substitution(Calls[n])
  BY <1>3 DEF Chosen
<1>6. CASE n \in Chosen
  <2>0. \A m : AddField(m, Calls[n]) = Filling(m, n) /\ NewRecord(m, Calls[n]) = Opening(m, n)
    <3>1. \A m : AddField(m, Calls[n]) = Filling(m, n)
      BY <1>4, Zenon DEF AddField, Filling, Lengthened
    <3>2. \A m : NewRecord(m, Calls[n]) = Opening(m, n)
      BY <1>4, Zenon DEF NewRecord, Opening
    <3> QED BY <3>1, <3>2
  <2>1. StackIs(procstack', macros', n)
    BY <1>3, <1>4, <1>5, <1>6, <2>0 DEF MacroProcess, StackIs, Cut, Stack
  <2>2. procstack' # <<>>
    BY <2>1 DEF StackIs, Cut
  <2>3. Stack' = procstack'
    BY <2>2 DEF Stack
  <2>4. StackInv'
    BY <1>1, <1>3, <1>6, <2>1, <2>3, MacroChosen
  <2> QED BY <1>2, <2>4 DEF MacroInv
<1>7. CASE n \notin Chosen
  <2>1. macros' = macros /\ (procstack' = procstack \/ procstack' = Stack)
    BY <1>3, <1>5, <1>7 DEF MacroProcess, Stack
  <2>2. Stack' = Stack
    BY <2>1 DEF Stack
  <2>3. StackInv'
    BY <1>1, <1>3, <1>7, <2>1, <2>2, MacroQuiet
  <2> QED BY <1>2, <2>3 DEF MacroInv
<1> QED BY <1>6, <1>7

(* The destructor finishes all but the bottom of the stack.                *)
LEMMA MacroFlush ==
  ASSUME MacroInv, Flush, ~Renamed
  PROVE  MacroInv'
<1>1. /\ CallsLeft /\ StackInv /\ UNCHANGED <<project, option, calls>>
      /\ calls = <<>> /\ Stack = procstack /\ Stack' = <<Top>>
      /\ macros' = macros \cup process_record(Finished(Stack, 1))
  BY DEF MacroInv, Flush, Stack
<1>2. SameMembers /\ Processed' = Processed
  BY <1>1, NothingCalled
<1>3. CallsLeft'
  BY <1>1, <1>2 DEF CallsLeft, SameMembers
<1>4. \A i \in Chosen : ~(i > Processed)
  BY <1>1, CallsAre DEF CallsLeft, Chosen, Processed
<1>5. \A s : Over(s)'
  BY <1>2, <1>4 DEF SameMembers, Over
<1>6. \A m \in macros' : Filled(m)' /\ ~m.iserror /\ Over(m.name)'
  <2> SUFFICES ASSUME NEW m \in macros' PROVE Filled(m)' /\ ~m.iserror
    BY <1>5
  <2>1. CASE m \in macros
    BY <1>1, <1>2, <2>1, FilledStays DEF StackInv
  <2>2. CASE m \notin macros
    <3>1. PICK j \in 2..Len(Stack) : m = Stack[j] /\ ~m.iserror
      BY <1>1, <2>2 DEF Finished, process_record
    <3> QED BY <1>1, <1>2, <3>1, FilledStays DEF StackInv
  <2> QED BY <2>1, <2>2
<1>7. \A s \in StructsSeen' : Over(s)' /\ (s \in ErrorNames' \/ \E m \in macros' : m.name = s)
  <2> SUFFICES ASSUME NEW s \in StructsSeen PROVE s \in ErrorNames \/ \E m \in macros' : m.name = s
    BY <1>2, <1>5 DEF SameMembers
  <2>1. CASE \E j \in 2..Len(Stack) : Stack[j].name = s
    <3>1. PICK j \in 2..Len(Stack) : Stack[j].name = s
      BY <2>1
    <3>2. s \in ErrorNames \/ ~Stack[j].iserror
      BY <1>1, <3>1 DEF StackInv, Filled
    <3> QED BY <1>1, <3>1, <3>2 DEF Finished, process_record
  <2> QED BY <1>1, <2>1 DEF StackInv
<1>8. Top \in Structs /\ Top.name = <<>> /\ Structs' = Structs
  BY <1>1, <1>2, NamesAre DEF CallsLeft, SameMembers, Top, Structs
<1>9. Stack' \in Seq(Structs)' /\ Len(Stack') = 1 /\ Stack'[1].name = <<>>
  BY <1>1, <1>8
<1> QED BY <1>1, <1>2, <1>3, <1>6, <1>7, <1>9, AroundStays DEF MacroInv, StackInv

LEMMA MacroNext == MacroInv /\ [OutNext]_outVars => MacroInv'
<1> SUFFICES ASSUME MacroInv, [OutNext]_outVars PROVE MacroInv'
  OBVIOUS
<1>1. UNCHANGED <<project, option>> /\ CallsLeft
  BY DEF OutNext, DbProcess, MacroProcess, Flush, outVars, MacroInv
<1>2. Calls' = Calls /\ Renamed' = Renamed
  BY <1>1, SettingsStay DEF Renamed
<1>3. CASE OutNext /\ option.mode = "macro" /\ ~Renamed
  BY <1>3, MacroStep, MacroFlush DEF OutNext, DbProcess
<1>4. CASE OutNext /\ ~(option.mode = "macro" /\ ~Renamed)
  <2>1. CallsLeft'
    <3>1. CASE calls # <<>> /\ calls' = Tail(calls)
      BY <1>1, <3>1, NextCall
    <3>2. CASE calls' = calls
      BY <1>1, <1>2, <3>2 DEF CallsLeft, Processed
    <3> QED BY <1>4, <3>1, <3>2, Zenon DEF OutNext, DbProcess, MacroProcess, Flush
  <2> QED BY <1>1, <1>2, <1>4, <2>1 DEF MacroInv
<1>5. CASE UNCHANGED outVars
  <2>1. SameMembers /\ Processed' = Processed /\ Stack' = Stack /\ macros' = macros
    BY <1>5, NothingCalled DEF outVars, Stack
  <2>2. CallsLeft'
    BY <1>1, <1>2, <1>5, <2>1 DEF CallsLeft, outVars
  <2>3. StackInv => StackInv'
    BY <2>1, StackStays
  <2> QED BY <1>1, <1>2, <2>2, <2>3 DEF MacroInv
<1> QED BY <1>3, <1>4, <1>5

(* What the destructor leaves: every structure that is not called an array *)
(* and not an error structure has its macro file, with its own members and *)
(* the last of its error structures, whatever the variables of the PLC.    *)
THEOREM MacroMembers == OutSpec => []MembersOfTheirOwn
<1>1. MacroInv => MembersOfTheirOwn
  <2> SUFFICES ASSUME MacroInv, option.mode = "macro", calls = <<>>, procstack = <<>>, ~Renamed
               PROVE  /\ {m.name : m \in macros} = MacroFiles
                      /\ \A m \in macros : /\ m.back = Parent(m.name)
                                            /\ Lists(m.fields, Members(m.name))
                                            /\ LastError(m.erroridx, Members(m.name))
    BY DEF MembersOfTheirOwn
  <2>1. StackInv /\ CallsLeft /\ Stack = <<Top>> /\ Len(Stack) = 1
    BY DEF MacroInv, Stack
  <2>2. Processed = Len(Calls) /\ \A i \in Chosen : i <= Processed
    BY <2>1, CallsAre DEF CallsLeft, Processed, Chosen
  <2>3. Seen = Chosen
    BY <2>2 DEF Seen
  <2>4. MacroFiles = StructsSeen \ ErrorNames
    BY <2>1, <2>3, ErrorIs DEF StructsSeen, MacroFiles
  <2>5. \A s : MembersSeen(s) = Members(s)
    BY <2>2 DEF MembersSeen, Members
  <2>6. \A m \in macros : Filled(m) /\ ~m.iserror
    BY <2>1 DEF StackInv
  <2>7. \A s \in MacroFiles : \E m \in macros : m.name = s
    BY <2>1, <2>4 DEF StackInv
  <2>8. \A m \in macros : m.name \in MacroFiles
    BY <2>4, <2>6 DEF Filled
  <2> QED BY <2>5, <2>6, <2>7, <2>8 DEF Filled
<1> QED BY <1>1, MacroInit, MacroNext, PTL DEF OutSpec
=============================================================================
