--------------------------- MODULE UpdateScanner ---------------------------
(***************************************************************************)
(* The update scanners of several PLCs.  A tick reminds EPICS of a few     *)
(* records, going round the PLC's records, and reconnects the PLC when it  *)
(* is needed and no PLC was reconnected in the last ten seconds: the time  *)
(* of the last reconnection is one static variable.                        *)
(*                                                                         *)
(* The timers of all PLCs have fixed periods, so they fire in the same     *)
(* order in every second.  One action is one tick, or one event of the     *)
(* network; what a reconnection does step by step is in AdsConnection.     *)
(***************************************************************************)
EXTENDS Integers, Sequences, FiniteSets, Functions

CONSTANTS Records,     \* per PLC the number of its records, in the map's order
          Seconds,     \* orders in which the timers fire in a second
          MaxOutages   \* bound: how often a PLC is switched off

PLCs == DOMAIN Records

ASSUME UpdateAssumption ==
  /\ PLCs # {} /\ Records \in [PLCs -> Nat]
  /\ \A s \in Seconds : s \in Seq(PLCs) /\ Range(s) = PLCs
  /\ MaxOutages \in Nat

VARIABLES
  second, fired,   \* the order of this run; how many timers have fired
  update_last,     \* per PLC the record reminded last, 0: nullptr
  age,             \* history: ticks since a record was reminded
  rest,            \* seconds since last_restart, 11 for more than 10
  online,          \* the PLC answers
  outages,
  ads_state, ads_restart, read_active

updateVars == <<second, fired, update_last, age, rest, online, outages, ads_state, ads_restart, read_active>>

(* start: the update period in ms, and the records reminded in a tick, so  *)
(* that all are within 10 s.                                               *)
Fires(s, p) == Cardinality({i \in DOMAIN s : s[i] = p})
update_scanner_period(p) == 1000 \div Fires(second, p)

(* Fault: the workload is rounded down.                                    *)
update_workloadFloor(p) == (Records[p] * update_scanner_period(p)) \div 10000
update_workload(p) == (Records[p] * update_scanner_period(p)) \div 10000 + 1

(* start has asked for the notification, with or without success.          *)
UpdateInit ==
  /\ second \in Seconds /\ fired = 0
  /\ update_last = [p \in PLCs |-> IF Records[p] = 0 THEN 0 ELSE 1]
  /\ age = [p \in PLCs |-> [r \in 1..Records[p] |-> 0]]
  /\ rest = 11 /\ outages = 0
  /\ online \in [PLCs -> BOOLEAN]
  /\ ads_state = [p \in PLCs |-> IF online[p] THEN "RUN" ELSE "INVALID"]
  /\ ads_restart = [p \in PLCs |-> ~online[p]]
  /\ read_active = [p \in PLCs |-> FALSE]

---------------------------------------------------------------------------
(* get_next, update_workload times.                                        *)

get_next(p, r) == (r % Records[p]) + 1

Ahead(p, r) == (r - update_last[p] - 1) % Records[p]   \* steps before r's turn
Reminded(p) == {r \in 1..Records[p] : Ahead(p, r) < update_workload(p)}

Crawl(p) ==
  IF update_last[p] = 0 THEN UNCHANGED <<update_last, age>>
  ELSE /\ update_last' = [update_last EXCEPT ![p] = get_next(p, @ + update_workload(p) - 1)]
       /\ age' = [age EXCEPT ![p] = [r \in DOMAIN @ |-> IF r \in Reminded(p) THEN 0 ELSE @[r] + 1]]

(* Fault: a PLC that never answered is not asked again.                    *)
NeedsReadActive(p) == read_active[p] /\ ads_restart[p]
Needs(p) == ads_state[p] = "INVALID" \/ (read_active[p] /\ ads_restart[p])

(* The return without records comes before the reconnection.  A setup that *)
(* fails leaves the state invalid, and ads_restart FALSE all the same.     *)
Restarts(p) == update_last[p] # 0 /\ Needs(p) /\ rest > 10

Restart(p, seconds) ==
  IF Restarts(p)
  THEN /\ rest' = seconds
       /\ ads_state' = [ads_state EXCEPT ![p] = IF online[p] THEN "RUN" ELSE "INVALID"]
       /\ ads_restart' = [ads_restart EXCEPT ![p] = FALSE]
  ELSE /\ rest' = IF rest + seconds > 11 THEN 11 ELSE rest + seconds
       /\ UNCHANGED <<ads_state, ads_restart>>

(* The next timer fires; after the last one the clock's second is over.    *)
update_scanner ==
  LET p == second[fired + 1]
      last == fired + 1 = Len(second) IN
  /\ Crawl(p)
  /\ Restart(p, IF last THEN 1 ELSE 0)
  /\ fired' = IF last THEN 0 ELSE fired + 1
  /\ UNCHANGED <<second, online, outages, read_active>>

---------------------------------------------------------------------------
(* A read pass finds out whether the PLC answers: error 18, of the errors  *)
(* it may get, asks for a reconnection.                                    *)

UpdateReads(p) ==
  LET asks == ads_state[p] = "RUN" IN
  /\ read_active' = [read_active EXCEPT ![p] = asks /\ online[p]]
  /\ \E error18 \in BOOLEAN :
       ads_restart' = [ads_restart EXCEPT ![p] = @ \/ (asks /\ ~online[p] /\ error18)]
  /\ UNCHANGED <<second, fired, update_last, age, rest, online, outages, ads_state>>

SwitchOff(p) ==
  /\ online[p] /\ outages < MaxOutages
  /\ outages' = outages + 1
  /\ online' = [online EXCEPT ![p] = FALSE]
  /\ UNCHANGED <<second, fired, update_last, age, rest, ads_state, ads_restart, read_active>>

SwitchOn(p) ==
  /\ ~online[p] /\ online' = [online EXCEPT ![p] = TRUE]
  /\ UNCHANGED <<second, fired, update_last, age, rest, outages, ads_state, ads_restart, read_active>>

UpdateNext ==
  \/ update_scanner
  \/ \E p \in PLCs : UpdateReads(p) \/ SwitchOff(p) \/ SwitchOn(p)

---------------------------------------------------------------------------
(* Properties                                                              *)

(* "to make sure they won't go stale": no tick leaves out a record that    *)
(* EPICS was reminded of ten seconds ago, or longer, whatever the period   *)
(* and the number of records.                                              *)
RemindedInTime ==
  \A p \in PLCs : \A r \in DOMAIN age[p] : age[p][r] * update_scanner_period(p) < 10000

Connected(p) == ads_state[p] = "RUN" /\ ~(read_active[p] /\ ads_restart[p])

(* When in the end all PLCs answer, all that have records are reconnected  *)
(* that need it: none is put off for ever.                                 *)
ReconnectsWhenAllCan ==
  <>[](\A p \in PLCs : online[p]) =>
    \A p \in PLCs : Records[p] > 0 => <>[](Connected(p))

=============================================================================
