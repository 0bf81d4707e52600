-------------------------- MODULE DataValueProofs --------------------------
(***************************************************************************)
(* The safety of plc::DataValue for any number of threads and any values.  *)
(***************************************************************************)
EXTENDS DataValue, TLAPS

(* What a thread in the middle of a write may rely on: it holds a value to *)
(* store, and once the value is stored the storage has been written.       *)
WriteInProgress ==
  \A t \in Threads :
    /\ pc[t] = "exchange" => arg[t].v \in Values
    /\ pc[t] = "valid" => mydata # NoValue

(* The inductive invariant: NoMissedUpdate carries OverwriteOnlyInRace,    *)
(* since a writer that saw its own flag down and is still ignorant of the  *)
(* stored value can only have met a call in progress.                      *)
IInv ==
  /\ TypeOK
  /\ WriteInProgress
  /\ NoMissedUpdate
  /\ OverwriteOnlyInRace
  /\ ValidMeansWritten

---------------------------------------------------------------------------
(* Sides are two, and no side is its own opposite.                         *)
LEMMA SideFacts ==
  /\ \A t : Side(t) \in Sides
  /\ \A s \in Sides : Other(s) \in Sides /\ Other(s) # s
  /\ \A s, r \in Sides : s # r => s = Other(r)
BY DEF Side, Other, Sides

(* The argument of an idle thread is well typed.                           *)
LEMMA NoArgType == NoArg \in Args
BY DEF NoArg, Args, Overloads

(* The members keep their types.                                           *)
LEMMA TypeStep == TypeOK /\ [Next]_vars => TypeOK'
<1> SUFFICES ASSUME TypeOK, [Next]_vars PROVE TypeOK'
  OBVIOUS
<1> USE SideFacts, NoArgType DEF TypeOK, PCs
<1>1. ASSUME NEW t \in Threads, ClearDirty(t) PROVE TypeOK'
  BY <1>1 DEF ClearDirty
<1>2. ASSUME NEW t \in Threads, Load(t) PROVE TypeOK'
  BY <1>2 DEF Load
<1>3. ASSUME NEW t \in Threads, NEW v \in Values, NEW how \in Overloads,
             TestPending(t, v, how)
      PROVE TypeOK'
  BY <1>3 DEF TestPending, Args
<1>4. ASSUME NEW t \in Threads, Exchange(t) PROVE TypeOK'
  BY <1>4 DEF Exchange, Args
<1>5. ASSUME NEW t \in Threads, StoreValid(t) PROVE TypeOK'
  <2>1. CASE MustNotify(t)
    BY <1>5, <2>1 DEF StoreValid
  <2>2. CASE ~MustNotify(t)
    BY <1>5, <2>2 DEF StoreValid
  <2> QED
    BY <2>1, <2>2
<1>6. ASSUME NEW t \in Threads, RaiseDirty(t) PROVE TypeOK'
  BY <1>6 DEF RaiseDirty
<1>7. ASSUME NEW t \in Threads, SetInvalid(t) PROVE TypeOK'
  BY <1>7 DEF SetInvalid
<1>8. ASSUME NEW t \in Threads, SetDirty(t) PROVE TypeOK'
  BY <1>8 DEF SetDirty
<1>9. CASE UNCHANGED vars
  BY <1>9 DEF vars
<1> QED
  BY <1>1, <1>2, <1>3, <1>4, <1>5, <1>6, <1>7, <1>8, <1>9 DEF Next, Step

(* plc::DataValue: the flags, the value and the program counters of the    *)
(* calls always have their types.                                          *)
THEOREM TypeCorrect == Spec => []TypeOK
<1>1. Init => TypeOK
  BY SideFacts, NoArgType DEF Init, TypeOK, PCs
<1> QED
  BY <1>1, TypeStep, PTL DEF Spec

---------------------------------------------------------------------------
(* The value is stored before it is called valid.                          *)
LEMMA WrittenStep ==
  TypeOK /\ WriteInProgress /\ ValidMeansWritten /\ [Next]_vars
    => WriteInProgress' /\ ValidMeansWritten'
<1> SUFFICES ASSUME TypeOK, WriteInProgress, ValidMeansWritten, [Next]_vars
             PROVE  WriteInProgress' /\ ValidMeansWritten'
  OBVIOUS
<1> USE ValuesAssumption DEF WriteInProgress, ValidMeansWritten, TypeOK
<1>1. ASSUME NEW t \in Threads, ClearDirty(t)
      PROVE  WriteInProgress' /\ ValidMeansWritten'
  BY <1>1 DEF ClearDirty
<1>2. ASSUME NEW t \in Threads, Load(t)
      PROVE  WriteInProgress' /\ ValidMeansWritten'
  BY <1>2 DEF Load
<1>3. ASSUME NEW t \in Threads, NEW v \in Values, NEW how \in Overloads,
             TestPending(t, v, how)
      PROVE  WriteInProgress' /\ ValidMeansWritten'
  BY <1>3 DEF TestPending
<1>4. ASSUME NEW t \in Threads, Exchange(t)
      PROVE  WriteInProgress' /\ ValidMeansWritten'
  BY <1>4 DEF Exchange
<1>5. ASSUME NEW t \in Threads, StoreValid(t)
      PROVE  WriteInProgress' /\ ValidMeansWritten'
  <2>1. \A u \in Threads : pc'[u] \in {"exchange", "valid"} =>
                             pc'[u] = pc[u] /\ arg'[u] = arg[u]
    BY <1>5 DEF StoreValid
  <2>2. mydata' = mydata /\ mydata # NoValue
    BY <1>5 DEF StoreValid
  <2> QED
    BY <2>1, <2>2
<1>6. ASSUME NEW t \in Threads, RaiseDirty(t)
      PROVE  WriteInProgress' /\ ValidMeansWritten'
  BY <1>6 DEF RaiseDirty
<1>7. ASSUME NEW t \in Threads, SetInvalid(t)
      PROVE  WriteInProgress' /\ ValidMeansWritten'
  BY <1>7 DEF SetInvalid
<1>8. ASSUME NEW t \in Threads, SetDirty(t)
      PROVE  WriteInProgress' /\ ValidMeansWritten'
  BY <1>8 DEF SetDirty
<1>9. CASE UNCHANGED vars
  BY <1>9 DEF vars
<1> QED
  BY <1>1, <1>2, <1>3, <1>4, <1>5, <1>6, <1>7, <1>8, <1>9 DEF Next, Step

---------------------------------------------------------------------------
(* A step that stores no value, drops no flag and ends no call keeps every *)
(* announcement.                                                           *)
LEMMA AnnouncedFrame ==
  ASSUME NEW s \in Sides, Announced(s), arg' = arg,
         dirty[s] => dirty'[s],
         \A t \in Threads :
           pc[t] \in {"load", "valid", "dirty"} => pc'[t] = pc[t]
  PROVE  Announced(s)'
BY DEF Announced, MustNotify

(* No step of a call loses the announcement of a value.                    *)
LEMMA MissedStep == TypeOK /\ NoMissedUpdate /\ [Next]_vars => NoMissedUpdate'
<1> SUFFICES ASSUME TypeOK, NoMissedUpdate, [Next]_vars,
                    NEW s \in Sides, known'[s] # mydata'
             PROVE  Announced(s)'
  BY DEF NoMissedUpdate
<1> USE SideFacts DEF TypeOK
<1>a. known[s] # mydata => Announced(s)
  BY DEF NoMissedUpdate
<1>1. ASSUME NEW t \in Threads, ClearDirty(t) PROVE Announced(s)'
  <2>1. CASE Side(t) = s
    BY <1>1, <2>1 DEF ClearDirty, Announced
  <2>2. CASE Side(t) # s
    BY <1>a, <1>1, <2>2, AnnouncedFrame DEF ClearDirty
  <2> QED
    BY <2>1, <2>2
<1>2. ASSUME NEW t \in Threads, Load(t) PROVE Announced(s)'
  <2>1. Side(t) # s
    BY <1>2 DEF Load
  <2>2. Announced(s)
    BY <1>a, <1>2, <2>1 DEF Load
  <2> QED
    BY <1>2, <2>1, <2>2 DEF Load, Announced, MustNotify
<1>3. ASSUME NEW t \in Threads, NEW v \in Values, NEW how \in Overloads,
             TestPending(t, v, how)
      PROVE  Announced(s)'
  <2>1. Announced(s)
    BY <1>a, <1>3 DEF TestPending
  <2>2. \A u \in Threads : pc[u] \in {"load", "valid", "dirty"} =>
                             pc'[u] = pc[u] /\ arg'[u] = arg[u]
    BY <1>3 DEF TestPending
  <2> QED
    BY <1>3, <2>1, <2>2 DEF TestPending, Announced, MustNotify
<1>4. ASSUME NEW t \in Threads, Exchange(t) PROVE Announced(s)'
  <2>1. Side(t) # s
    BY <1>4 DEF Exchange
  <2>2. CASE mydata # arg[t].v
    <3>1. pc'[t] = "valid" /\ arg'[t].changed
      BY <1>4, <2>2 DEF Exchange
    <3> QED
      BY <2>1, <3>1 DEF Announced, MustNotify
  <2>3. CASE mydata = arg[t].v
    <3>1. Announced(s)
      BY <1>a, <1>4, <2>1, <2>3 DEF Exchange
    <3>2. \A u \in Threads : pc[u] \in {"load", "valid", "dirty"} =>
                               pc'[u] = pc[u] /\ arg'[u] = arg[u]
      BY <1>4 DEF Exchange
    <3> QED
      BY <1>4, <3>1, <3>2 DEF Exchange, Announced, MustNotify
  <2> QED
    BY <2>2, <2>3
<1>5. ASSUME NEW t \in Threads, StoreValid(t) PROVE Announced(s)'
  <2>1. Announced(s)
    BY <1>a, <1>5 DEF StoreValid
  <2>2. CASE MustNotify(t)
    BY <1>5, <2>1, <2>2 DEF StoreValid, Announced, MustNotify
  <2>3. CASE ~MustNotify(t)
    <3>1. \A u \in Threads :
            pc[u] \in {"load", "dirty"} \/ (pc[u] = "valid" /\ MustNotify(u))
              => pc'[u] = pc[u] /\ arg'[u] = arg[u]
      BY <1>5, <2>3 DEF StoreValid
    <3> QED
      BY <1>5, <2>1, <3>1 DEF StoreValid, Announced, MustNotify
  <2> QED
    BY <2>2, <2>3
<1>6. ASSUME NEW t \in Threads, RaiseDirty(t) PROVE Announced(s)'
  <2>1. CASE Side(t) # s
    BY <1>6, <2>1 DEF RaiseDirty, Announced
  <2>2. CASE Side(t) = s
    <3>1. Announced(s)
      BY <1>a, <1>6 DEF RaiseDirty
    <3>2. \A u \in Threads : u # t => pc'[u] = pc[u] /\ arg'[u] = arg[u]
      BY <1>6 DEF RaiseDirty
    <3> QED
      BY <1>6, <2>2, <3>1, <3>2 DEF RaiseDirty, Announced, MustNotify
  <2> QED
    BY <2>1, <2>2
<1>7. ASSUME NEW t \in Threads, SetInvalid(t) PROVE Announced(s)'
  BY <1>a, <1>7, AnnouncedFrame DEF SetInvalid
<1>8. ASSUME NEW t \in Threads, SetDirty(t) PROVE Announced(s)'
  BY <1>a, <1>8, AnnouncedFrame DEF SetDirty
<1>9. CASE UNCHANGED vars
  BY <1>a, <1>9, AnnouncedFrame DEF vars
<1> QED
  BY <1>1, <1>2, <1>3, <1>4, <1>5, <1>6, <1>7, <1>8, <1>9 DEF Next, Step

---------------------------------------------------------------------------
(* Only an overlap lets a write hide what its own side has not seen.       *)
LEMMA RaceStep ==
  TypeOK /\ NoMissedUpdate /\ OverwriteOnlyInRace /\ [Next]_vars
    => OverwriteOnlyInRace'
<1> SUFFICES ASSUME TypeOK, NoMissedUpdate, OverwriteOnlyInRace, [Next]_vars,
                    NEW w \in Threads,
                    pc'[w] = "exchange", known'[Side(w)] # mydata'
             PROVE  raced'[w]
  BY DEF OverwriteOnlyInRace
<1> USE SideFacts DEF TypeOK
<1>a. pc[w] = "exchange" /\ known[Side(w)] # mydata => raced[w]
  BY DEF OverwriteOnlyInRace
<1>1. ASSUME NEW t \in Threads, ClearDirty(t) PROVE raced'[w]
  BY <1>a, <1>1 DEF ClearDirty
<1>2. ASSUME NEW t \in Threads, Load(t) PROVE raced'[w]
  BY <1>a, <1>2 DEF Load
<1>3. ASSUME NEW t \in Threads, NEW v \in Values, NEW how \in Overloads,
             TestPending(t, v, how)
      PROVE  raced'[w]
  <2>1. CASE t = w
    <3>1. known[Side(w)] # mydata /\ ~dirty[Side(w)]
      BY <1>3, <2>1 DEF TestPending
    <3>2. PICK u \in Threads :
            \/ Side(u) = Side(w) /\ pc[u] = "load"
            \/ Side(u) # Side(w) /\ pc[u] \in {"valid", "dirty"}
      BY <3>1 DEF NoMissedUpdate, Announced
    <3>3. HidesDataFrom(w, u)
      BY <3>2 DEF HidesDataFrom
    <3> QED
      BY <1>3, <2>1, <3>3 DEF TestPending
  <2>2. CASE t # w
    BY <1>a, <1>3, <2>2 DEF TestPending
  <2> QED
    BY <2>1, <2>2
<1>4. ASSUME NEW t \in Threads, Exchange(t) PROVE raced'[w]
  <2>1. Side(w) # Side(t) /\ pc[w] = "exchange" /\ w # t
    BY <1>4 DEF Exchange
  <2> QED
    BY <1>4, <2>1 DEF Exchange
<1>5. ASSUME NEW t \in Threads, StoreValid(t) PROVE raced'[w]
  <2>1. pc[w] = "exchange"
    BY <1>5 DEF StoreValid
  <2> QED
    BY <1>a, <1>5, <2>1 DEF StoreValid
<1>6. ASSUME NEW t \in Threads, RaiseDirty(t) PROVE raced'[w]
  BY <1>a, <1>6 DEF RaiseDirty
<1>7. ASSUME NEW t \in Threads, SetInvalid(t) PROVE raced'[w]
  BY <1>a, <1>7 DEF SetInvalid
<1>8. ASSUME NEW t \in Threads, SetDirty(t) PROVE raced'[w]
  BY <1>a, <1>8 DEF SetDirty
<1>9. CASE UNCHANGED vars
  BY <1>a, <1>9 DEF vars
<1> QED
  BY <1>1, <1>2, <1>3, <1>4, <1>5, <1>6, <1>7, <1>8, <1>9 DEF Next, Step

---------------------------------------------------------------------------
(* The invariant holds from the start and every step keeps it.             *)
THEOREM Invariance == Spec => []IInv
<1>1. Init => IInv
  <2> SUFFICES ASSUME Init PROVE IInv
    OBVIOUS
  <2>1. TypeOK
    BY SideFacts, NoArgType DEF Init, TypeOK, PCs
  <2>2. WriteInProgress /\ OverwriteOnlyInRace /\ ValidMeansWritten
    BY DEF Init, WriteInProgress, OverwriteOnlyInRace, ValidMeansWritten
  <2>3. NoMissedUpdate
    BY DEF Init, NoMissedUpdate
  <2> QED
    BY <2>1, <2>2, <2>3 DEF IInv
<1>2. IInv /\ [Next]_vars => IInv'
  BY TypeStep, WrittenStep, MissedStep, RaceStep DEF IInv
<1> QED
  BY <1>1, <1>2, PTL DEF Spec

(* No update of a data value is ever missed, whatever the interleaving of  *)
(* reset_and_read, write_and_test, SetValid and SetDirty.                  *)
THEOREM NothingMissed == Spec => []NoMissedUpdate
<1>1. IInv => NoMissedUpdate
  BY DEF IInv
<1> QED
  BY <1>1, Invariance, PTL

(* A value its reader has not seen is overwritten only by overlapping      *)
(* calls: the exact extent of the README's no-loss claim.                  *)
THEOREM LossNeedsOverlap == Spec => []OverwriteOnlyInRace
<1>1. IInv => OverwriteOnlyInRace
  BY DEF IInv
<1> QED
  BY <1>1, Invariance, PTL

(* A valid value is never the storage's initial content.                   *)
THEOREM ValidIsWritten == Spec => []ValidMeansWritten
<1>1. IInv => ValidMeansWritten
  BY DEF IInv
<1> QED
  BY <1>1, Invariance, PTL

---------------------------------------------------------------------------
(* Seen from outside, a data value only ever takes and posts values: every *)
(* access to an atomic member is a step of Handover or changes nothing     *)
(* the two sides can see.                                                  *)
THEOREM Refinement == Spec => Abstract!SafeSpec
<1>1. Init => Abstract!Start
  BY DEF Init, Abstract!Start, Sides, Abstract!Parties
<1>2. IInv /\ [Next]_vars => [Abstract!Change]_(Abstract!hvars)
  <2> SUFFICES ASSUME IInv, [Next]_vars
               PROVE  Abstract!Change \/ UNCHANGED <<mydata, known>>
    BY DEF Abstract!hvars
  <2> USE SideFacts DEF Abstract!Parties, Sides
  <2>1. ASSUME NEW t \in Threads, Load(t) PROVE Abstract!Change
    BY <2>1 DEF Load, Abstract!Change, Abstract!Take
  <2>2. ASSUME NEW t \in Threads, Exchange(t) PROVE Abstract!Change
    <3>1. arg[t].v \in Values
      BY <2>2 DEF Exchange, IInv, WriteInProgress
    <3>2. Abstract!Post(Side(t), arg[t].v)
      BY <2>2 DEF Exchange, Abstract!Post
    <3> QED
      BY <3>1, <3>2 DEF Abstract!Change
  <2>3. ASSUME NEW t \in Threads, Step(t), ~Load(t), ~Exchange(t)
        PROVE  UNCHANGED <<mydata, known>>
    BY <2>3 DEF Step, ClearDirty, TestPending, StoreValid, RaiseDirty,
                SetInvalid, SetDirty
  <2>4. CASE UNCHANGED vars
    BY <2>4 DEF vars
  <2> QED
    BY <2>1, <2>2, <2>3, <2>4 DEF Next
<1> QED
  BY <1>1, <1>2, Invariance, PTL DEF Spec, Abstract!SafeSpec
=============================================================================
