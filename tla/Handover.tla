------------------------------ MODULE Handover ------------------------------
(***************************************************************************)
(* What plc::DataValue promises to the two sides that share it: each side  *)
(* may post a value, which replaces the previous one, and whatever is      *)
(* posted and stays is taken by the other side.  No flags, no threads.     *)
(***************************************************************************)
CONSTANTS Values, NoValue

VARIABLES slot,   \* the value both sides share
          known   \* known[s]: the last value side s posted or took

hvars == <<slot, known>>

Parties == {"user", "plc"}

Start == slot = NoValue /\ known = [s \in Parties |-> NoValue]

Post(s, v) ==
  /\ slot' = v
  /\ known' = [known EXCEPT ![s] = v]

Take(s) ==
  /\ known' = [known EXCEPT ![s] = slot]
  /\ UNCHANGED slot

Change == \E s \in Parties : Take(s) \/ \E v \in Values : Post(s, v)

SafeSpec == Start /\ [][Change]_hvars

FairSpec ==
  /\ SafeSpec
  /\ \A s \in Parties : WF_hvars(known[s] # slot /\ Take(s))
=============================================================================
