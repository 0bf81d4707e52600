---------------------------- MODULE IocLifecycle ----------------------------
(***************************************************************************)
(* From the start-up script to the end of the IOC: the shell commands of   *)
(* drvTc.cpp, the system of PLCs (plcBase.cpp) they fill, the linking of   *)
(* EPICS records to PLC records in iocInit (devTc.cpp), and the scanner    *)
(* threads, whose timers run from the load on and look whether the         *)
(* scanners are active.                                                    *)
(*                                                                         *)
(* The commands and the hooks run in the shell's thread, each as a whole.  *)
(* A tpy file is what the load depends on: its address, what it exports,   *)
(* and what of this has a type that is not known.                          *)
(***************************************************************************)
EXTENDS Integers, Sequences, FiniteSets, Functions, SequencesExt

CONSTANTS Files,         \* .addr (None: does not parse), .exports, .unknown, .parses
          None,
          Aliases,       \* what tcAlias is given
          Rates,         \* what tcSetScanRate is given: .value and .junk after it
          MaxLoads,      \* bound: PLCs created
          MaxCommands    \* bound: other commands, pauses and failures

minimum_scanrate == 5
maximum_scanrate == 10000
default_scanrate == 100

ASSUME LifecycleAssumption ==
  /\ \A f \in Files : f.unknown \subseteq f.exports /\ f.parses \in BOOLEAN
  /\ \A r \in Rates : r.value \in Int /\ r.junk \in BOOLEAN
  /\ MaxLoads \in Nat /\ MaxCommands \in Nat

VARIABLES
  options,      \* tc_alias, tc_lists, tc_macros and tc_infoprefix
  scanrate,
  plcs,         \* the PLCs created, in the order of their creation
  database,     \* EPICS records: the address and variable of the link, the PLC
                \* whose load generated it
  link,         \* the PLC an EPICS record was linked to, 0: it is disabled
  phase,        \* "shell" before iocInit, "run", "pause", "exit"
  IocRun,
  fired,        \* threads whose one-shot timer has fired
  lastPass,         \* history: the thread that made a pass just now
  undefined,    \* history: what the program did that has no meaning
  said,         \* history: options given since the last tcLoadRecords
  rateSaid,     \* history: the last rate, 0 for one with junk behind it
  commands

sysVars == <<plcs, fired, lastPass>>
epicsDb == <<database, link>>
saidVars == <<said, rateSaid>>
iocVars == <<options, scanrate, sysVars, epicsDb, phase, IocRun, undefined, saidVars, commands>>

Kinds == {"read", "write", "update"}
NoThread == <<0, "none">>
NoOptions == [alias |-> None, extras |-> {}, infoprefix |-> FALSE]

IocInit ==
  /\ options = NoOptions /\ scanrate = default_scanrate
  /\ plcs = <<>> /\ database = [e \in {} |-> 0] /\ link = [e \in {} |-> 0]
  /\ phase = "shell" /\ IocRun = FALSE
  /\ fired = {} /\ lastPass = NoThread /\ undefined = {}
  /\ said = NoOptions /\ rateSaid = default_scanrate /\ commands = 0

---------------------------------------------------------------------------
(* Options.  All commands refuse while the IOC runs.                       *)

Command == phase # "exit" /\ undefined = {} /\ commands < MaxCommands /\ commands' = commands + 1
Refused == IocRun

SetOption(field, value) ==
  /\ Command
  /\ options' = IF Refused THEN options ELSE [options EXCEPT ![field] = value]
  /\ said' = IF Refused THEN said ELSE [said EXCEPT ![field] = value]
  /\ UNCHANGED <<scanrate, sysVars, epicsDb, phase, IocRun, undefined, rateSaid>>

tcAlias(alias) == SetOption("alias", alias)
tcInfoPrefix == SetOption("infoprefix", TRUE)
tcList == SetOption("extras", options.extras \cup {"list"})
tcMacro == SetOption("extras", options.extras \cup {"macro"})

Limited(rate) ==
  IF rate < minimum_scanrate THEN minimum_scanrate
  ELSE IF rate > maximum_scanrate THEN maximum_scanrate ELSE rate

(* The number is stored before the rest of the argument is looked at.      *)
tcSetScanRate(rate) ==
  /\ Command
  /\ scanrate' = IF Refused THEN scanrate ELSE IF rate.junk THEN rate.value ELSE Limited(rate.value)
  /\ rateSaid' = IF Refused THEN rateSaid ELSE IF rate.junk THEN 0 ELSE rate.value
  /\ UNCHANGED <<options, sysVars, epicsDb, phase, IocRun, undefined, said>>

---------------------------------------------------------------------------
(* tcLoadRecords.                                                          *)

InfoRecord == "info"
records(f, opts) == (f.exports \ f.unknown) \cup (IF opts.infoprefix THEN {InfoRecord} ELSE {})
RequestsOf(recs) == recs \ {InfoRecord}

(* Fault: a PLC with nothing but info records passes.                      *)
optimizesAll(recs) == TRUE
optimizeRequests(recs) == recs = {} \/ RequestsOf(recs) # {}

Named(addr) == {id \in DOMAIN plcs : plcs[id].where = "system" /\ plcs[id].addr = addr}

(* System::add adopts the PLC; one whose name is taken is deleted.         *)
System_add(addr) == IF Named(addr) = {} THEN "system" ELSE "destroyed"

Generated(f, opts) ==   \* the EPICS records of the db file
  {<<opts.alias, v>> : v \in f.exports \cup (IF opts.infoprefix THEN {InfoRecord} ELSE {})}

(* start opens the ports and starts the three threads one after the other; *)
(* when it fails the PLC stays without (all) threads.                      *)
ThreadsStarted == {{}, {"read"}, {"read", "write"}, Kinds}

NewPLC(f, threads, where) ==
  [addr |-> f.addr, options |-> options, said |-> said, rate |-> scanrate, rateSaid |-> rateSaid,
   recs |-> records(f, options), threads |-> threads, where |-> where, scanners_active |-> FALSE]

Create(plc) == plcs' = Append(plcs, plc) /\ UNCHANGED <<fired, lastPass>>

(* The database cannot be loaded any more once iocInit has been called.    *)
dbLoadRecords(f, id) ==
  IF phase = "shell"
  THEN LET new == Generated(f, options) IN
       /\ database' = [e \in DOMAIN database \cup new |->
                         IF e \in new THEN [addr |-> f.addr, v |-> e[2], by |-> id] ELSE database[e]]
       /\ link' = [e \in DOMAIN database' |-> 0]
  ELSE UNCHANGED epicsDb

(* Fault: the options outlive a load that fails.                           *)
ResetOnSuccess(succeeds) == options' = IF succeeds THEN NoOptions ELSE options
ResetOptions(succeeds) == options' = NoOptions

tcLoadRecords(f) ==
  /\ phase # "exit" /\ undefined = {}
  /\ said' = NoOptions
  /\ IF Refused \/ ~f.parses
     THEN /\ Command /\ ResetOptions(FALSE)
          /\ UNCHANGED <<sysVars, epicsDb>>
     ELSE /\ Len(plcs) < MaxLoads /\ ResetOptions(TRUE)
          /\ \/ /\ optimizeRequests(records(f, options))
                /\ \E threads \in ThreadsStarted :
                     /\ IF threads = Kinds THEN UNCHANGED commands ELSE Command
                     /\ Create(NewPLC(f, threads, System_add(f.addr)))
                /\ dbLoadRecords(f, Len(plcs'))
             \/ /\ ~optimizeRequests(records(f, options)) /\ UNCHANGED commands
                /\ Create(NewPLC(f, {}, "leaked"))
                /\ UNCHANGED epicsDb
             \/ /\ Command      \* the output file cannot be opened
                /\ Create([NewPLC(f, {}, "leaked") EXCEPT !.recs = {}])
                /\ UNCHANGED epicsDb
  /\ UNCHANGED <<scanrate, phase, IocRun, undefined, rateSaid>>

---------------------------------------------------------------------------
(* iocInit, pause and exit.  Every EPICS record is linked by its link      *)
(* field: the PLC is found by name in the system, the record by its name.  *)

(* Fault: the record is not looked for.                                    *)
linkPLC(e) == LET named == Named(database[e].addr) IN
  IF named = {} THEN 0 ELSE CHOOSE id \in named : TRUE

linkRecord(e) ==
  LET found == {id \in Named(database[e].addr) : database[e].addr # None /\ database[e].v \in plcs[id].recs} IN
  IF found = {} THEN 0 ELSE CHOOSE id \in found : TRUE

SetActive(active) ==
  plcs' = [id \in DOMAIN plcs |->
             IF plcs[id].where = "system" THEN [plcs[id] EXCEPT !.scanners_active = active] ELSE plcs[id]]

(* Fault: the scanners start before the IOC has been paused only.          *)
set_ioc_stateOnce(run) ==
  /\ IocRun' = run
  /\ IF run /\ phase = "pause" THEN UNCHANGED plcs ELSE SetActive(run)

set_ioc_state(run) == IocRun' = run /\ SetActive(run)

iocInit ==
  /\ phase = "shell" /\ undefined = {} /\ phase' = "run"
  /\ link' = [e \in DOMAIN database |-> linkRecord(e)]
  /\ set_ioc_state(TRUE)
  /\ UNCHANGED <<options, scanrate, fired, lastPass, database, undefined, saidVars, commands>>

iocPause ==
  /\ phase = "run" /\ Command /\ phase' = "pause"
  /\ set_ioc_state(FALSE)
  /\ UNCHANGED <<options, scanrate, fired, lastPass, epicsDb, undefined, saidVars>>

iocRun ==
  /\ phase = "pause" /\ undefined = {} /\ phase' = "run"
  /\ set_ioc_state(TRUE)
  /\ UNCHANGED <<options, scanrate, fired, lastPass, epicsDb, undefined, saidVars, commands>>

stopTc ==
  /\ phase # "exit" /\ Command /\ phase' = "exit"
  /\ SetActive(FALSE)
  /\ UNCHANGED <<options, scanrate, fired, lastPass, epicsDb, IocRun, undefined, saidVars>>

---------------------------------------------------------------------------
(* The timer of a scanner thread.  A period of zero fires once.            *)

ScannerProc(id, kind) ==
  /\ undefined = {}
  /\ kind \in plcs[id].threads /\ <<id, kind>> \notin fired
  /\ fired' = IF plcs[id].rate = 0 THEN fired \cup {<<id, kind>>} ELSE fired
  /\ \/ /\ plcs[id].where = "destroyed"
        /\ undefined' = {"destroyed"} /\ UNCHANGED lastPass
     \/ /\ plcs[id].where = "system" /\ plcs[id].scanners_active
        /\ \/ lastPass' = <<id, kind>> /\ UNCHANGED undefined
           \/ /\ kind = "read" /\ RequestsOf(plcs[id].recs) = {}
              /\ undefined' = {"no requests"} /\ UNCHANGED lastPass
     \/ /\ plcs[id].where = "system" /\ ~plcs[id].scanners_active
        /\ UNCHANGED <<lastPass, undefined>>
  /\ UNCHANGED <<options, scanrate, plcs, epicsDb, phase, IocRun, saidVars, commands>>

(* Time passes after a pass.                                               *)
Later ==
  /\ lastPass # NoThread /\ lastPass' = NoThread
  /\ UNCHANGED <<options, scanrate, plcs, fired, epicsDb, phase, IocRun, undefined, saidVars, commands>>

IocNext ==
  \/ (\E a \in Aliases : tcAlias(a)) \/ tcInfoPrefix \/ tcList \/ tcMacro
  \/ (\E r \in Rates : tcSetScanRate(r))
  \/ (\E f \in Files : tcLoadRecords(f))
  \/ iocInit \/ iocPause \/ iocRun \/ stopTc
  \/ (\E id \in DOMAIN plcs, kind \in Kinds : ScannerProc(id, kind)) \/ Later

---------------------------------------------------------------------------
(* Properties                                                              *)

UniqueAddresses ==
  \A i, j \in {id \in DOMAIN plcs : plcs[id].where # "leaked"} : i # j => plcs[i].addr # plcs[j].addr

(* "tcSetAlias and tcGenerateList need to be specified anew before each    *)
(* tcLoadRecords command.  The rate ... will be reused": a PLC has the     *)
(* options said since the load before it, failed or not, and the last rate *)
(* said, within its limits.                                                *)
LoadedAsSaid ==
  \A id \in DOMAIN plcs :
    LET p == plcs[id] IN
    /\ p.options = p.said
    /\ p.rateSaid # 0 => /\ p.rate \in minimum_scanrate..maximum_scanrate
                         /\ p.rateSaid \in minimum_scanrate..maximum_scanrate => p.rate = p.rateSaid

(* After iocInit an EPICS record is linked to a PLC of the system, if the  *)
(* addresses are unique to the one it was generated for, and disabled if   *)
(* that has no such record or no address.                                  *)
LinksRight ==
  phase \in {"run", "pause"} =>
    \A e \in DOMAIN database :
      /\ link[e] # 0 => plcs[link[e]].where = "system" /\ database[e].v \in plcs[link[e]].recs
      /\ UniqueAddresses =>
           link[e] = IF database[e].addr # None /\ database[e].v \in plcs[database[e].by].recs
                     THEN database[e].by ELSE 0

(* The program keeps its meaning as long as no two PLCs have one address   *)
(* and every file loaded exports something.                                *)
MeaningKept ==
  undefined # {} => ~UniqueAddresses \/ \E id \in DOMAIN plcs : plcs[id].recs = {}

(* While the IOC runs, every thread of a PLC in the system makes passes    *)
(* for ever, unless the rate was given with junk behind it.                *)
KeepsScanning ==
  \A id \in 1..MaxLoads, kind \in Kinds :
    <>[](/\ phase = "run" /\ undefined = {} /\ id \in DOMAIN plcs
         /\ plcs[id].where = "system" /\ kind \in plcs[id].threads /\ plcs[id].rateSaid # 0)
      => []<>(lastPass = <<id, kind>>)
=============================================================================
