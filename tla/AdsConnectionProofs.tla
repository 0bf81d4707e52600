------------------------ MODULE AdsConnectionProofs ------------------------
(***************************************************************************)
(* For any number of requests, any errors and any number of events in the  *)
(* PLC: no request is sent by a file that was outdated at the last switch  *)
(* to online, when the pass began after the switch had been dealt with.    *)
(***************************************************************************)
EXTENDS AdsConnection, TLAPS

(* While the update scanner sets the state to invalid there is neither a   *)
(* notification on its way nor one that the PLC could send.                *)
NothingComes ==
  update \in {"setup", "invalid", "check", "restart"} => ~registered /\ inbox = <<>>

(* The check that was due at the switch is not lost: the callback is about *)
(* to ask for it, or it has been asked for, is made, or has been made.     *)
CheckIsDue ==
  newOnline =>
    /\ fileNew /\ ads_state = "RUN" /\ update # "check"
    /\ callback # "STOP"
    /\ callback = "RUN" \/ checkTpy \/ ~validTpy \/ scan = "look"

(* What a pass knows that began in the steady state.                       *)
SteadyPass ==
  late = "steady" => newOnline /\ callback = "idle" /\ scan # "request"

IInv == TypeOK /\ NothingComes /\ CheckIsDue /\ SteadyPass

---------------------------------------------------------------------------
(* Notifications of at most one state.                                     *)
LEMMA ShortInbox ==
  /\ <<>> \in Seq({"RUN", "STOP"})
  /\ <<"STOP">> \in Seq({"RUN", "STOP"})
OBVIOUS

(* The types, thread by thread.                                            *)
LEMMA PlcTypesStep == PlcTypes /\ [Next]_vars => PlcTypes'
<1> SUFFICES ASSUME PlcTypes, [Next]_vars PROVE PlcTypes'
  OBVIOUS
<1> USE DEF PlcTypes, Event
<1>1. CASE PlcStop \/ PlcRun
  BY SMTT(30), <1>1, ConstantsAssumption DEF PlcStop, PlcRun, Notify
<1>2. CASE FileUpdated
  BY <1>2, ConstantsAssumption DEF FileUpdated
<1>3. CASE PlcDown \/ PlcUp
  <2>1. inbox' \in Seq({"RUN", "STOP"})
    BY <1>3, ShortInbox DEF PlcDown, PlcUp
  <2>2. events' \in 0..MaxEvents
    BY <1>3, ConstantsAssumption DEF PlcDown, PlcUp
  <2> QED
    BY <1>3, <2>1, <2>2 DEF PlcDown, PlcUp
<1>4. CASE CallbackExchange
  BY <1>4 DEF CallbackExchange
<1>5. ASSUME NEW kind \in {"read", "write"}, PassBegins(kind) PROVE PlcTypes'
  BY <1>5 DEF PassBegins
<1>6. CASE LookFails
  BY <1>6, ConstantsAssumption DEF LookFails
<1>7. CASE PassEnds
  BY <1>7 DEF PassEnds
<1>8. CASE RemoveNotification
  BY <1>8, ShortInbox DEF RemoveNotification
<1>9. CASE SetupNotification
  BY <1>9 DEF SetupNotification
<1>10. CASE \/ CallbackCheck \/ ValidTpy \/ LookAtFile \/ Request \/ Reconnect \/ CoolsDown
            \/ SetupFails \/ SetInvalid \/ SetInvalidCheck \/ SetRestart \/ ClearRestart
            \/ UNCHANGED vars
  <2>1. UNCHANGED plcVars
    BY <1>10 DEF CallbackCheck, ValidTpy, LookAtFile, Request, Reconnect, CoolsDown, SetupFails,
                 SetInvalid, SetInvalidCheck, SetRestart, ClearRestart, vars
  <2> QED
    BY <2>1 DEF plcVars
<1> QED
  BY <1>1, <1>2, <1>3, <1>4, <1>5, <1>6, <1>7, <1>8, <1>9, <1>10
     DEF Next, Environment, PassStep, UpdateStep

LEMMA AdsTypesStep == TypeOK /\ [Next]_vars => AdsTypes'
<1> SUFFICES ASSUME PlcTypes, AdsTypes, ScanTypes, [Next]_vars PROVE AdsTypes'
  BY DEF TypeOK
<1> USE DEF AdsTypes, States
<1>1. CASE CallbackExchange
  <2>1. Head(inbox) \in {"RUN", "STOP"}
    BY <1>1 DEF CallbackExchange, PlcTypes
  <2> QED
    BY <1>1, <2>1 DEF CallbackExchange
<1>2. CASE CallbackCheck
  BY <1>2 DEF CallbackCheck
<1>3. CASE ValidTpy
  BY <1>3 DEF ValidTpy
<1>4. CASE LookAtFile
  BY <1>4 DEF LookAtFile, PlcTypes
<1>5. CASE LookFails
  BY <1>5 DEF LookFails, adsVars
<1>6. CASE Request
  BY <1>6 DEF Request
<1>7. CASE PassEnds
  BY <1>7 DEF PassEnds, ScanTypes
<1>8. CASE SetInvalid
  BY <1>8 DEF SetInvalid
<1>9. CASE SetInvalidCheck
  BY <1>9 DEF SetInvalidCheck
<1>10. CASE SetRestart \/ ClearRestart
  BY <1>10 DEF SetRestart, ClearRestart
<1>11. CASE \/ Environment \/ Reconnect \/ CoolsDown \/ RemoveNotification
            \/ SetupNotification \/ SetupFails
            \/ (\E kind \in {"read", "write"} : PassBegins(kind)) \/ UNCHANGED vars
  <2>1. UNCHANGED <<adsVars, callback, newOnline>>
    BY <1>11 DEF Environment, PlcStop, PlcRun, FileUpdated, PlcDown, PlcUp, Event, Reconnect,
                 CoolsDown, RemoveNotification, SetupNotification, SetupFails, PassBegins, vars
  <2> QED
    BY <2>1 DEF adsVars
<1> QED
  BY <1>1, <1>2, <1>3, <1>4, <1>5, <1>6, <1>7, <1>8, <1>9, <1>10, <1>11
     DEF Next, PassStep, UpdateStep

LEMMA ScanTypesStep == TypeOK /\ [Next]_vars => ScanTypes'
<1> SUFFICES ASSUME ScanTypes, [Next]_vars PROVE ScanTypes'
  BY DEF TypeOK
<1>0. nRequest \in Nat /\ 0 \in 0..nRequest + 1 /\ 1 \in 0..nRequest + 1
        /\ nRequest + 1 \in 0..nRequest + 1
  BY ConstantsAssumption
<1> USE <1>0 DEF ScanTypes, Disturb
<1>1. CASE CallbackExchange
  BY <1>1 DEF CallbackExchange
<1>2. ASSUME NEW kind \in {"read", "write"}, PassBegins(kind) PROVE ScanTypes'
  BY <1>2 DEF PassBegins
<1>3. CASE ValidTpy
  BY <1>3 DEF ValidTpy
<1>4. CASE LookAtFile
  BY <1>4 DEF LookAtFile
<1>5. CASE LookFails
  BY <1>5 DEF LookFails
<1>6. CASE Request
  <2>1. left' \in 0..nRequest + 1
    BY <1>6 DEF Request
  <2> QED
    BY <1>6, <2>1 DEF Request
<1>7. CASE PassEnds
  BY <1>7 DEF PassEnds
<1>8. CASE SetInvalid
  BY <1>8 DEF SetInvalid
<1>9. CASE \/ Environment \/ CallbackCheck \/ Reconnect \/ CoolsDown \/ RemoveNotification
           \/ SetupNotification \/ SetupFails \/ SetInvalidCheck \/ SetRestart \/ ClearRestart
           \/ UNCHANGED vars
  <2>1. UNCHANGED scanVars
    BY <1>9 DEF Environment, PlcStop, PlcRun, FileUpdated, PlcDown, PlcUp, Event, CallbackCheck,
                Reconnect, CoolsDown, RemoveNotification, SetupNotification, SetupFails,
                SetInvalidCheck, SetRestart, ClearRestart, vars
  <2> QED
    BY <2>1 DEF scanVars
<1> QED
  BY <1>1, <1>2, <1>3, <1>4, <1>5, <1>6, <1>7, <1>8, <1>9 DEF Next, PassStep, UpdateStep

LEMMA UpdateTypesStep == TypeOK /\ [Next]_vars => UpdateTypes'
<1> SUFFICES ASSUME UpdateTypes, [Next]_vars PROVE UpdateTypes'
  BY DEF TypeOK
<1> USE DEF UpdateTypes
<1>1. CASE Reconnect \/ CoolsDown
  BY <1>1 DEF Reconnect, CoolsDown
<1>2. CASE UpdateStep
  BY <1>2 DEF UpdateStep, RemoveNotification, SetupNotification, SetupFails, SetInvalid,
              SetInvalidCheck, SetRestart, ClearRestart
<1>3. CASE \/ Environment \/ CallbackExchange \/ CallbackCheck \/ PassStep
           \/ (\E kind \in {"read", "write"} : PassBegins(kind)) \/ UNCHANGED vars
  <2>1. UNCHANGED updateVars
    BY <1>3 DEF Environment, PlcStop, PlcRun, FileUpdated, PlcDown, PlcUp, Event,
                CallbackExchange, CallbackCheck, PassStep, ValidTpy, LookAtFile, LookFails,
                Request, PassEnds, PassBegins, vars
  <2> QED
    BY <2>1 DEF updateVars
<1> QED
  BY <1>1, <1>2, <1>3 DEF Next

LEMMA TypeStep == TypeOK /\ [Next]_vars => TypeOK'
BY PlcTypesStep, AdsTypesStep, ScanTypesStep, UpdateTypesStep DEF TypeOK

LEMMA InitTypes == Init => TypeOK
<1> SUFFICES ASSUME Init PROVE TypeOK
  OBVIOUS
<1>1. PlcTypes
  <2>1. 0 \in 0..MaxEvents
    BY ConstantsAssumption
  <2> QED
    BY <2>1, ShortInbox DEF Init, PlcTypes
<1>2. AdsTypes
  BY DEF Init, AdsTypes, States
<1>3. ScanTypes
  <2>1. 0 \in 0..nRequest + 1
    BY ConstantsAssumption
  <2> QED
    BY <2>1 DEF Init, ScanTypes
<1>4. UpdateTypes
  BY DEF Init, UpdateTypes
<1> QED
  BY <1>1, <1>2, <1>3, <1>4 DEF TypeOK

(* The members of TcPLC and the places of its three threads always have    *)
(* their types.                                                            *)
THEOREM TypeCorrect == Spec => []TypeOK
BY InitTypes, TypeStep, PTL DEF Spec

---------------------------------------------------------------------------
LEMMA NothingComesStep == NothingComes /\ [Next]_vars => NothingComes'
<1> SUFFICES ASSUME NothingComes, [Next]_vars PROVE NothingComes'
  OBVIOUS
<1> USE DEF NothingComes
<1>1. CASE Environment
  BY <1>1 DEF Environment, PlcStop, PlcRun, FileUpdated, PlcDown, PlcUp, Notify, Event,
              updateVars
<1>2. CASE CallbackExchange \/ CallbackCheck
  BY <1>2 DEF CallbackExchange, CallbackCheck, plcVars, updateVars
<1>3. CASE PassStep \/ \E kind \in {"read", "write"} : PassBegins(kind)
  BY <1>3 DEF PassBegins, PassStep, ValidTpy, LookAtFile, LookFails, Request, PassEnds,
              plcVars, updateVars
<1>4. CASE Reconnect \/ CoolsDown
  BY <1>4 DEF Reconnect, CoolsDown, plcVars
<1>5. CASE UpdateStep
  BY <1>5 DEF UpdateStep, RemoveNotification, SetupNotification, SetupFails, SetInvalid,
              SetInvalidCheck, SetRestart, ClearRestart, plcVars
<1>6. CASE UNCHANGED vars
  BY <1>6 DEF vars, plcVars, updateVars
<1> QED
  BY <1>1, <1>2, <1>3, <1>4, <1>5, <1>6 DEF Next

LEMMA CheckIsDueStep == IInv /\ [Next]_vars => CheckIsDue'
<1> SUFFICES ASSUME IInv, [Next]_vars PROVE CheckIsDue'
  OBVIOUS
<1> USE DEF IInv, CheckIsDue
<1>1. CASE Environment
  BY <1>1 DEF Environment, PlcStop, PlcRun, FileUpdated, PlcDown, PlcUp, Event,
              adsVars, scanVars, updateVars
<1>2. CASE CallbackExchange
  BY <1>2 DEF CallbackExchange, NothingComes, updateVars
<1>3. CASE CallbackCheck
  <2>1. newOnline => checkTpy'
    BY <1>3 DEF CallbackCheck, TypeOK, AdsTypes
  <2> QED
    BY <1>3, <2>1 DEF CallbackCheck, plcVars, scanVars, updateVars
<1>4. ASSUME NEW kind \in {"read", "write"}, PassBegins(kind) PROVE CheckIsDue'
  BY <1>4 DEF PassBegins, adsVars, updateVars
<1>5. CASE ValidTpy
  BY <1>5 DEF ValidTpy, plcVars, updateVars, TypeOK
<1>6. CASE LookAtFile \/ LookFails
  BY <1>6 DEF LookAtFile, LookFails, plcVars, updateVars
<1>7. CASE Request \/ PassEnds
  BY <1>7 DEF Request, PassEnds, plcVars, updateVars
<1>8. CASE Reconnect \/ CoolsDown
  BY <1>8 DEF Reconnect, CoolsDown, plcVars, adsVars, scanVars
<1>9. CASE UpdateStep
  BY <1>9 DEF UpdateStep, RemoveNotification, SetupNotification, SetupFails, SetInvalid,
              SetInvalidCheck, SetRestart, ClearRestart, plcVars, adsVars, scanVars
<1>10. CASE UNCHANGED vars
  BY <1>10 DEF vars, plcVars, adsVars, scanVars, updateVars
<1> QED
  BY <1>1, <1>2, <1>3, <1>4, <1>5, <1>6, <1>7, <1>8, <1>9, <1>10 DEF Next, PassStep

(* The pass that finds the check due leaves by LookAtFile or by an         *)
(* exception, and the pass that finds the file invalid sends nothing.      *)
LEMMA SteadyPassStep == IInv /\ [Next]_vars => SteadyPass'
<1> SUFFICES ASSUME IInv, [Next]_vars PROVE SteadyPass'
  OBVIOUS
<1> USE DEF IInv, SteadyPass
<1>1. CASE Environment
  BY <1>1 DEF Environment, PlcStop, PlcRun, FileUpdated, PlcDown, PlcUp, Event, scanVars
<1>2. CASE CallbackExchange
  BY <1>2 DEF CallbackExchange, Disturb
<1>3. CASE CallbackCheck
  BY <1>3 DEF CallbackCheck, scanVars
<1>4. ASSUME NEW kind \in {"read", "write"}, PassBegins(kind) PROVE SteadyPass'
  BY <1>4 DEF PassBegins
<1>5. CASE ValidTpy
  BY <1>5 DEF ValidTpy, CheckIsDue
<1>6. CASE LookAtFile \/ LookFails
  BY <1>6 DEF LookAtFile, LookFails, CheckIsDue
<1>7. CASE Request \/ PassEnds
  BY <1>7 DEF Request, PassEnds
<1>8. CASE Reconnect \/ CoolsDown
  BY <1>8 DEF Reconnect, CoolsDown, scanVars
<1>9. CASE UpdateStep
  BY <1>9 DEF UpdateStep, RemoveNotification, SetupNotification, SetupFails, SetInvalid,
              SetInvalidCheck, SetRestart, ClearRestart, Disturb, CheckIsDue, scanVars
<1>10. CASE UNCHANGED vars
  BY <1>10 DEF vars, scanVars
<1> QED
  BY <1>1, <1>2, <1>3, <1>4, <1>5, <1>6, <1>7, <1>8, <1>9, <1>10 DEF Next, PassStep

(* The inductive invariant of the connection.                              *)
THEOREM Invariance == Spec => []IInv
<1>1. Init => IInv
  BY InitTypes DEF Init, IInv, NothingComes, CheckIsDue, SteadyPass
<1>2. IInv /\ [Next]_vars => IInv'
  BY TypeStep, NothingComesStep, CheckIsDueStep, SteadyPassStep DEF IInv
<1> QED
  BY <1>1, <1>2, PTL DEF Spec

(* is_valid_tpy and set_ads_state: the file is checked, or was found       *)
(* invalid, before a request is sent, whatever the three threads do        *)
(* between the exchange of the state and the flag that asks for the check. *)
THEOREM CheckedBeforeRequest == Spec => []CheckedWhenSteady
<1>1. IInv => CheckedWhenSteady
  BY DEF IInv, SteadyPass, CheckedWhenSteady
<1> QED
  BY <1>1, Invariance, PTL
=============================================================================
