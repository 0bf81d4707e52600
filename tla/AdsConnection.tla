--------------------------- MODULE AdsConnection ---------------------------
(***************************************************************************)
(* The connection of TcPLC to its PLC: the ADS state and the notification  *)
(* that keeps it up to date, the reconnection by the update scanner, and   *)
(* the check that the tpy file still describes the PLC.                    *)
(*                                                                         *)
(* Three threads: the ADS callback, the scanners (read and write passes    *)
(* exclude each other by TcPLC::sync) and the update scanner, which holds  *)
(* no lock.  One action is one access to a shared variable or one ADS call.*)
(* The PLC and its notification server are external.                       *)
(***************************************************************************)
EXTENDS Naturals, Sequences

CONSTANTS Errors,     \* ADS errors with which a PLC that is down answers
          LongOutages,\* a PLC that goes down misses a pass of the scanners
          FileErrors, \* may the time of the tpy file be unreadable?
          nRequest,   \* read requests in a pass, less one
          MaxEvents   \* bound: events in the PLC and file errors

ASSUME ConstantsAssumption ==
  /\ Errors \subseteq Nat /\ Errors # {}
  /\ LongOutages \in BOOLEAN /\ FileErrors \in BOOLEAN
  /\ nRequest \in Nat /\ MaxEvents \in Nat

VARIABLES
  plc,          \* the PLC: "RUN", "STOP" or "DOWN"
  registered,   \* the PLC holds a notification for this IOC
  inbox,        \* notifications on their way to the callback
  fileNew,      \* the tpy file is not the one the records were made from
  events,
  outage,       \* how much of a read pass fell into the present outage
  ads_state, checkTpy, validTpy, ads_restart, read_active,
  callback,     \* "idle", or the state whose checkTpy is yet to be stored
  scan,         \* where the pass is
  pass,         \* "read" or "write"
  left,         \* requests it has left
  read_success,
  update,       \* where the update scanner is
  starting,     \* TcPLC::start has not started the scanners yet
  cooling,      \* less than 10 s since last_restart
  newOnline,    \* history: the file was new at the last switch to online,
                \* and nobody failed to look at it since
  late          \* history: this pass began after such a switch, and
                \* whether the state changed since

plcVars == <<plc, registered, inbox, fileNew, events, outage>>
adsVars == <<ads_state, checkTpy, validTpy, ads_restart, read_active>>
scanVars == <<scan, pass, left, read_success, late>>
updateVars == <<update, starting, cooling>>
vars == <<plcVars, adsVars, callback, scanVars, updateVars, newOnline>>

States == {"INVALID", "RUN", "STOP"}

PlcTypes ==
  /\ plc \in {"RUN", "STOP", "DOWN"} /\ registered \in BOOLEAN
  /\ inbox \in Seq({"RUN", "STOP"}) /\ fileNew \in BOOLEAN
  /\ events \in 0..MaxEvents /\ outage \in {"none", "begun", "pass"}
AdsTypes ==
  /\ ads_state \in States /\ checkTpy \in BOOLEAN /\ validTpy \in BOOLEAN
  /\ ads_restart \in BOOLEAN /\ read_active \in BOOLEAN
  /\ callback \in {"idle", "RUN", "STOP"} /\ newOnline \in BOOLEAN
ScanTypes ==
  /\ scan \in {"idle", "valid", "look", "request", "end"}
  /\ pass \in {"read", "write"}
  /\ left \in 0..nRequest + 1 /\ read_success \in BOOLEAN
  /\ late \in {"no", "steady", "disturbed"}
UpdateTypes ==
  /\ update \in {"idle", "remove", "setup", "invalid", "check", "restart", "clear"}
  /\ starting \in BOOLEAN /\ cooling \in BOOLEAN
TypeOK == PlcTypes /\ AdsTypes /\ ScanTypes /\ UpdateTypes

Init ==
  /\ plc \in {"RUN", "STOP", "DOWN"} /\ registered = FALSE
  /\ inbox = <<>> /\ fileNew = FALSE /\ events = 0 /\ outage = "none"
  /\ ads_state = "INVALID" /\ checkTpy = FALSE /\ validTpy = TRUE
  /\ ads_restart = FALSE /\ read_active = FALSE
  /\ callback = "idle"
  /\ scan = "idle" /\ pass = "read" /\ left = 0 /\ read_success = FALSE /\ late = "no"
  /\ update = "setup" /\ starting = TRUE /\ cooling = FALSE
  /\ newOnline = FALSE

---------------------------------------------------------------------------
(* The PLC: it is started and stopped, loaded with a new program, switched *)
(* off and on.  A change of state is notified to whom it concerns.         *)

Notify(s) == inbox' = IF registered THEN Append(inbox, s) ELSE inbox

Event ==
  /\ events < MaxEvents
  /\ events' = events + 1
  /\ UNCHANGED <<adsVars, callback, scanVars, updateVars, newOnline>>

PlcStop ==
  /\ plc = "RUN" /\ plc' = "STOP"
  /\ Notify("STOP")
  /\ Event
  /\ UNCHANGED <<registered, fileNew, outage>>

PlcRun ==
  /\ plc = "STOP" /\ plc' = "RUN"
  /\ Notify("RUN")
  /\ Event
  /\ UNCHANGED <<registered, fileNew, outage>>

FileUpdated ==
  /\ ~fileNew /\ fileNew' = TRUE
  /\ Event
  /\ UNCHANGED <<plc, registered, inbox, outage>>

(* What the PLC has not delivered is lost, except perhaps that it stopped. *)
PlcDown ==
  /\ plc # "DOWN" /\ plc' = "DOWN"
  /\ registered' = FALSE
  /\ \/ inbox' = <<>>
     \/ plc = "RUN" /\ registered /\ inbox' = <<"STOP">>
  /\ outage' = "none"
  /\ Event
  /\ UNCHANGED fileNew

PlcUp ==
  /\ plc = "DOWN" /\ plc' = "RUN"
  /\ LongOutages => starting \/ outage = "pass"
  /\ Event
  /\ UNCHANGED <<registered, inbox, fileNew, outage>>

Environment == PlcStop \/ PlcRun \/ FileUpdated \/ PlcDown \/ PlcUp

---------------------------------------------------------------------------
(* ADScallback and set_ads_state: exchange the state, then ask for a check *)
(* of the tpy file if the PLC went online.                                 *)

Disturb == late' = IF late = "steady" THEN "disturbed" ELSE late

CallbackExchange ==
  /\ callback = "idle" /\ inbox # <<>>
  /\ inbox' = Tail(inbox)
  /\ ads_state' = Head(inbox)
  /\ IF ads_state = Head(inbox)
     THEN UNCHANGED <<callback, newOnline, late>>
     ELSE /\ callback' = Head(inbox)
          /\ Disturb
          /\ newOnline' = (Head(inbox) = "RUN" /\ fileNew)
  /\ UNCHANGED <<plc, registered, fileNew, events, outage, checkTpy, validTpy,
                 ads_restart, read_active, scan, pass, left, read_success, updateVars>>

CallbackCheck ==
  /\ callback # "idle"
  /\ checkTpy' = (callback = "RUN")
  /\ callback' = "idle"
  /\ UNCHANGED <<plcVars, ads_state, validTpy, ads_restart, read_active,
                 scanVars, updateVars, newOnline>>

---------------------------------------------------------------------------
(* read_scanner and write_scanner: a pass reads the state, asks            *)
(* is_valid_tpy and sends its requests.                                    *)

PassBegins(kind) ==
  /\ scan = "idle" /\ ~starting
  /\ pass' = kind
  /\ scan' = IF ads_state = "RUN" THEN "valid" ELSE "end"
  /\ left' = IF kind = "read" THEN nRequest + 1 ELSE 1
  /\ read_success' = FALSE
  /\ late' = IF newOnline /\ callback = "idle" THEN "steady" ELSE "no"
  /\ outage' = IF kind = "read" /\ plc = "DOWN" /\ outage = "none" /\ update = "idle"
               THEN "begun" ELSE outage
  /\ UNCHANGED <<plc, registered, inbox, fileNew, events, adsVars, callback,
                 updateVars, newOnline>>

(* is_valid_tpy looks at the file only after a switch to online.           *)
ValidTpy ==
  /\ scan = "valid"
  /\ IF validTpy /\ checkTpy
     THEN checkTpy' = FALSE /\ scan' = "look"
     ELSE UNCHANGED checkTpy /\ scan' = IF validTpy THEN "request" ELSE "end"
  /\ UNCHANGED <<plcVars, ads_state, validTpy, ads_restart, read_active, callback,
                 pass, left, read_success, late, updateVars, newOnline>>

(* Fault: the pass that finds the update still sends its requests.         *)
LookAndGoOn ==
  /\ scan = "look"
  /\ validTpy' = ~fileNew
  /\ scan' = "request"
  /\ UNCHANGED <<plcVars, ads_state, checkTpy, ads_restart, read_active, callback,
                 pass, left, read_success, late, updateVars, newOnline>>

LookAtFile ==
  /\ scan = "look"
  /\ validTpy' = ~fileNew
  /\ scan' = IF fileNew THEN "end" ELSE "request"
  /\ UNCHANGED <<plcVars, ads_state, checkTpy, ads_restart, read_active, callback,
                 pass, left, read_success, late, updateVars, newOnline>>

(* An exception leaves validTpy as it was; the check is not repeated, not  *)
(* before the next switch to online.                                       *)
LookFails ==
  /\ scan = "look"
  /\ FileErrors /\ events < MaxEvents
  /\ events' = events + 1
  /\ scan' = "request"
  /\ late' = "no" /\ newOnline' = FALSE
  /\ UNCHANGED <<plc, registered, inbox, fileNew, outage, adsVars, callback,
                 pass, left, read_success, updateVars>>

(* A write that fails is reported; of a read that fails, error 18 tells    *)
(* the update scanner to reconnect.                                        *)
Request ==
  /\ scan = "request" /\ left > 0
  /\ left' = left - 1
  /\ \/ plc # "DOWN" /\ read_success' = TRUE /\ UNCHANGED ads_restart
     \/ /\ plc = "DOWN" /\ UNCHANGED read_success
        /\ \E nErr \in Errors :
             ads_restart' = (ads_restart \/ (pass = "read" /\ nErr = 18))
  /\ UNCHANGED <<plcVars, ads_state, checkTpy, validTpy, read_active, callback,
                 pass, scan, late, updateVars, newOnline>>

(* Fault: a pass without success leaves read_active as it was.             *)
PassEndsActive ==
  /\ scan = "end" \/ (scan = "request" /\ left = 0)
  /\ read_active' = IF pass = "read" THEN read_active \/ read_success ELSE read_active
  /\ scan' = "idle" /\ left' = 0 /\ read_success' = FALSE /\ late' = "no"
  /\ outage' = IF pass = "read" /\ outage = "begun" THEN "pass" ELSE outage
  /\ UNCHANGED <<plc, registered, inbox, fileNew, events, ads_state, checkTpy,
                 validTpy, ads_restart, callback, pass, updateVars, newOnline>>

PassEnds ==
  /\ scan = "end" \/ (scan = "request" /\ left = 0)
  /\ read_active' = IF pass = "read" THEN read_success ELSE read_active
  /\ scan' = "idle" /\ left' = 0 /\ read_success' = FALSE /\ late' = "no"
  /\ outage' = IF pass = "read" /\ outage = "begun" THEN "pass" ELSE outage
  /\ UNCHANGED <<plc, registered, inbox, fileNew, events, ads_state, checkTpy,
                 validTpy, ads_restart, callback, pass, updateVars, newOnline>>

PassStep == ValidTpy \/ LookAtFile \/ LookFails \/ Request \/ PassEnds

---------------------------------------------------------------------------
(* update_scanner: reconnect a PLC that was never heard of, or whose read  *)
(* requests fail and succeed again, at most every 10 s.                    *)

(* Fault: a connection is only made when there never was one.              *)
ReconnectInvalid ==
  /\ update = "idle" /\ ~starting
  /\ ads_state = "INVALID"
  /\ ~cooling /\ cooling' = TRUE
  /\ update' = "remove"
  /\ UNCHANGED <<plcVars, adsVars, callback, scanVars, starting, newOnline>>

Reconnect ==
  /\ update = "idle" /\ ~starting
  /\ ads_state = "INVALID" \/ (read_active /\ ads_restart)
  /\ ~cooling /\ cooling' = TRUE
  /\ update' = "remove"
  /\ UNCHANGED <<plcVars, adsVars, callback, scanVars, starting, newOnline>>

CoolsDown ==
  /\ cooling /\ cooling' = FALSE
  /\ UNCHANGED <<plcVars, adsVars, callback, scanVars, update, starting, newOnline>>

(* What was not delivered for the old handle is not delivered any more.    *)
RemoveNotification ==
  /\ update = "remove"
  /\ registered' = FALSE
  /\ inbox' = <<>>
  /\ update' = "setup"
  /\ UNCHANGED <<plc, fileNew, events, outage, adsVars, callback, scanVars,
                 starting, cooling, newOnline>>

(* A new notification is answered with the present state.                  *)
SetupNotification ==
  /\ update = "setup" /\ plc # "DOWN"
  /\ registered' = TRUE
  /\ inbox' = Append(inbox, plc)
  /\ update' = IF starting THEN "idle" ELSE "clear"
  /\ starting' = FALSE
  /\ UNCHANGED <<plc, fileNew, events, outage, adsVars, callback, scanVars,
                 cooling, newOnline>>

SetupFails ==
  /\ update = "setup" /\ plc = "DOWN"
  /\ update' = "invalid"
  /\ UNCHANGED <<plcVars, adsVars, callback, scanVars, starting, cooling, newOnline>>

(* set_ads_state(ADSSTATE_INVALID), in two steps like the callback's.      *)
SetInvalid ==
  /\ update = "invalid"
  /\ ads_state' = "INVALID"
  /\ newOnline' = FALSE
  /\ IF ads_state = "INVALID"
     THEN update' = "restart" /\ UNCHANGED late
     ELSE update' = "check" /\ Disturb
  /\ UNCHANGED <<plcVars, checkTpy, validTpy, ads_restart, read_active, callback,
                 scan, pass, left, read_success, starting, cooling>>

SetInvalidCheck ==
  /\ update = "check"
  /\ checkTpy' = FALSE
  /\ update' = "restart"
  /\ UNCHANGED <<plcVars, ads_state, validTpy, ads_restart, read_active, callback,
                 scanVars, starting, cooling, newOnline>>

SetRestart ==
  /\ update = "restart"
  /\ ads_restart' = TRUE
  /\ update' = IF starting THEN "idle" ELSE "clear"
  /\ starting' = FALSE
  /\ UNCHANGED <<plcVars, ads_state, checkTpy, validTpy, read_active, callback,
                 scanVars, cooling, newOnline>>

ClearRestart ==
  /\ update = "clear"
  /\ ads_restart' = FALSE
  /\ update' = "idle"
  /\ UNCHANGED <<plcVars, ads_state, checkTpy, validTpy, read_active, callback,
                 scanVars, starting, cooling, newOnline>>

UpdateStep ==
  \/ RemoveNotification \/ SetupNotification \/ SetupFails
  \/ SetInvalid \/ SetInvalidCheck \/ SetRestart \/ ClearRestart

---------------------------------------------------------------------------
Next ==
  \/ Environment
  \/ CallbackExchange \/ CallbackCheck
  \/ PassBegins("read") \/ PassBegins("write") \/ PassStep
  \/ Reconnect \/ CoolsDown \/ UpdateStep

Spec == Init /\ [][Next]_vars

(* The threads run on periodic timers, ADS delivers its notifications, and *)
(* time passes.  Nothing is assumed of the PLC.                            *)
FairSpec ==
  /\ Spec
  /\ SF_vars(CallbackExchange)
  /\ WF_vars(CallbackCheck)
  /\ WF_vars(PassStep)
  /\ SF_vars(PassBegins("read"))
  /\ SF_vars(Reconnect)
  /\ WF_vars(CoolsDown)
  /\ WF_vars(UpdateStep)

---------------------------------------------------------------------------
(* No request is built from a layout that was already outdated when the    *)
(* PLC was last reported online: a pass that begins after the report has   *)
(* been dealt with checks the file first, or finds it checked, as long as  *)
(* the state does not change again under its feet and the file is readable.*)
CheckedWhenSteady == scan = "request" => late # "steady"

(* README.md: "Periodically check the timestamp of the tpy file, when the  *)
(* PLC is online."  While it is, an update of the file is noticed.         *)
UpdateNoticed == <>[](fileNew /\ ads_state = "RUN") => <>~validTpy

(* What holds instead: a PLC that stays up, with the program the records   *)
(* were made from, ends up read and with a notification, unless the IOC    *)
(* goes on believing that it stopped.  It rests on error 18.               *)
ComesOnline ==
  <>[](plc = "RUN") /\ []~fileNew /\ []<>(ads_state # "STOP")
    => <>[](ads_state = "RUN" /\ read_active /\ registered)

(* A PLC that does not answer any more stops counting as read.             *)
NotReadWhenDown == <>[](plc = "DOWN") => <>[]~read_active
=============================================================================
