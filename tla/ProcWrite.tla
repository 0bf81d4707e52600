----------------------------- MODULE ProcWrite -----------------------------
(***************************************************************************)
(* tcProcWrite: a pass of the write scanner visits every record once,      *)
(* takes the values of those that are dirty for the PLC into requests of   *)
(* at most maxrec symbols, and sends the requests when it has seen all.    *)
(*                                                                         *)
(* A request is built in one block of memory: an area for maxrec headers   *)
(* of three longs each, then the data, moved up against the headers before *)
(* it is sent.  One cell stands for sizeof(long) bytes.  One action is one *)
(* call for a record, or the sending of one request; EPICS writes at any   *)
(* time (DataValue has the steps of a single read and a single write).     *)
(***************************************************************************)
EXTENDS Integers, Sequences, FiniteSets

CONSTANTS Records, Values,
          Initial,           \* the value all records have in the beginning
          Sizes,             \* sizes of symbols, in cells
          Mismatched,        \* records whose value is not as long as the symbol
          maxrec,
          MaxWrites,         \* bound: writes by EPICS
          MaxErrors,         \* bound: requests the PLC does not fully execute
          MaxAllocFailures   \* bound: failures to allocate memory

ASSUME ConstantsAssumption ==
  /\ Initial \in Values /\ Mismatched \subseteq Records
  /\ Sizes \subseteq Nat \ {0} /\ maxrec \in Nat \ {0}
  /\ MaxWrites \in Nat /\ MaxErrors \in Nat /\ MaxAllocFailures \in Nat

VARIABLES
  length,     \* the size of each symbol
  value,      \* the data value of each record
  dirty,      \* the records whose myplcdirty is set
  phase,      \* the write scanner is "idle", or "visit"s or "send"s
  todo,       \* the records the pass has not visited
  proc,       \* the request being built
  req,        \* the full requests queued before it
  symbols,    \* the datum last written to each symbol
  lost,       \* history: records whose value was not sent or not accepted
  writes, errors, failures

epicsVars == <<value, writes>>
vars == <<length, value, dirty, phase, todo, proc, req, symbols, lost,
          writes, errors, failures>>

Header(r) == [rec |-> r, part |-> "header"]
Datum(r, v) == [rec |-> r, part |-> v]
Junk == [rec |-> "none", part |-> "junk"]
Cells == {Header(r) : r \in Records} \cup {Datum(r, v) : r \in Records, v \in Values} \cup {Junk}

(* ptr is null when alloc is 0; data always begins behind maxrec headers.  *)
Empty == [cells |-> <<>>, alloc |-> 0, size |-> 0, count |-> 0]
HeaderArea == 3 * maxrec

IsRequest(q) ==
  /\ DOMAIN q.cells = 0..q.alloc - 1 /\ \A i \in DOMAIN q.cells : q.cells[i] \in Cells
  /\ q.alloc \in Nat /\ q.size \in Nat /\ q.count \in 0..maxrec

TypeOK ==
  /\ length \in [Records -> Sizes] /\ value \in [Records -> Values]
  /\ dirty \subseteq Records /\ todo \subseteq Records /\ lost \subseteq Records
  /\ phase \in {"idle", "visit", "send"}
  /\ IsRequest(proc) /\ \A n \in DOMAIN req : IsRequest(req[n])
  /\ symbols \in [Records -> Cells]
  /\ writes \in 0..MaxWrites /\ errors \in 0..MaxErrors /\ failures \in 0..MaxAllocFailures

Init ==
  /\ length \in [Records -> Sizes]
  /\ value = [r \in Records |-> Initial] /\ dirty = {}
  /\ phase = "idle" /\ todo = {} /\ proc = Empty /\ req = <<>>
  /\ symbols = [r \in Records |-> Datum(r, Initial)] /\ lost = {}
  /\ writes = 0 /\ errors = 0 /\ failures = 0

---------------------------------------------------------------------------
(* check_alloc: at least 8 longs per symbol, doubled while not all fits.   *)

(* Fault: the area of the headers is forgotten.                            *)
NeededForData(q, extra) == q.size + extra

Needed(q, extra) == HeaderArea + q.size + extra

Doubled(least, needed) ==
  LET turns == needed \div least   \* of the loop, at most
      alloc[k \in 0..turns] ==
        IF k = 0 THEN least
        ELSE IF needed > alloc[k - 1] THEN 2 * alloc[k - 1] ELSE alloc[k - 1]
  IN alloc[turns]

NewAlloc(q, extra) ==
  Doubled(IF q.alloc < 8 * maxrec THEN 8 * maxrec ELSE q.alloc, Needed(q, extra))

Grows(q, extra) == NewAlloc(q, extra) > q.alloc

Grown(q, extra) ==
  LET n == NewAlloc(q, extra)
  IN [q EXCEPT !.alloc = n,
               !.cells = [i \in 0..n - 1 |-> IF i < q.alloc THEN q.cells[i] ELSE Junk]]

WithHeader(q, r) ==
  [q EXCEPT !.count = @ + 1,
            !.cells = [i \in DOMAIN @ |-> IF i \in 3 * q.count..3 * q.count + 2
                                             THEN Header(r) ELSE @[i]]]

(* PlcReadBinary copies nothing when the lengths differ.                   *)
WithDatum(q, r) ==
  LET at == HeaderArea + q.size
      datum == at..at + length[r] - 1
  IN [q EXCEPT !.size = @ + length[r],
               !.cells = [i \in DOMAIN @ |-> IF i \in datum /\ r \notin Mismatched
                                             THEN Datum(r, value[r]) ELSE @[i]]]

---------------------------------------------------------------------------
UserWrite(r, v) ==
  /\ writes < MaxWrites
  /\ writes' = writes + 1
  /\ value' = [value EXCEPT ![r] = v]
  /\ dirty' = dirty \cup {r}
  /\ UNCHANGED <<length, phase, todo, proc, req, symbols, lost, errors, failures>>

PassBegins ==
  /\ phase = "idle"
  /\ phase' = "visit" /\ todo' = Records
  /\ UNCHANGED <<length, epicsVars, dirty, proc, req, symbols, lost, errors, failures>>

(* add: a full request is queued and its object emptied for the next one.  *)
Full == proc.count = maxrec

Open == IF Full THEN Empty ELSE proc

(* Fault: the object is emptied before it is queued.                       *)
QueuedEmpty == IF Full THEN Append(req, Empty) ELSE req

Queued == IF Full THEN Append(req, proc) ELSE req

Visit(r) == phase = "visit" /\ r \in todo /\ todo' = todo \ {r}

Skip(r) ==
  /\ Visit(r) /\ r \notin dirty
  /\ UNCHANGED <<length, epicsVars, dirty, phase, proc, req, symbols, lost, errors, failures>>

Collect(r) ==
  /\ Visit(r) /\ r \in dirty
  /\ req' = Queued
  /\ proc' = WithDatum(Grown(WithHeader(Grown(Open, 0), r), length[r]), r)
  /\ dirty' = dirty \ ({r} \ Mismatched)
  /\ UNCHANGED <<length, epicsVars, phase, symbols, lost, errors, failures>>

AllocFails == failures < MaxAllocFailures /\ failures' = failures + 1

HeaderRefused(r) ==
  /\ Visit(r) /\ r \in dirty
  /\ Grows(Open, 0) /\ AllocFails
  /\ req' = Queued /\ proc' = Open
  /\ UNCHANGED <<length, epicsVars, dirty, phase, symbols, lost, errors>>

(* The header stays in the request although its datum is not.              *)
DatumRefused(r) ==
  /\ Visit(r) /\ r \in dirty
  /\ Grows(WithHeader(Grown(Open, 0), r), length[r]) /\ AllocFails
  /\ req' = Queued /\ proc' = WithHeader(Grown(Open, 0), r)
  /\ UNCHANGED <<length, epicsVars, dirty, phase, symbols, lost, errors>>

PassSends ==
  /\ phase = "visit" /\ todo = {}
  /\ phase' = "send"
  /\ UNCHANGED <<length, epicsVars, dirty, todo, proc, req, symbols, lost, errors, failures>>

---------------------------------------------------------------------------
(* tcwrite: the data is moved up to the last header.  The destructor sends *)
(* the queued requests, then its own.                                      *)

(* Fault: a request that is not full is sent as it is.                     *)
WireUnmoved(q) == q.cells

Wire(q) ==
  LET first == 3 * q.count
  IN IF q.count < maxrec
     THEN [i \in DOMAIN q.cells |->
             IF i \in first..first + q.size - 1 THEN q.cells[HeaderArea + i - first]
             ELSE q.cells[i]]
     ELSE q.cells

(* The PLC reads the data of a symbol behind that of the symbols before.   *)
Target(q, n) == q.cells[3 * (n - 1)].rec
Targets(q) == {Target(q, n) : n \in 1..q.count}

DataBefore(q) ==
  LET sum[n \in 0..q.count] == IF n = 0 THEN 0 ELSE sum[n - 1] + length[Target(q, n)]
  IN sum

Received(q, n) ==
  LET from == 3 * q.count + DataBefore(q)[n - 1]
      cells == {IF i < 3 * q.count + q.size THEN Wire(q)[i] ELSE Junk :
                  i \in from..from + length[Target(q, n)] - 1}
  IN IF Cardinality(cells) = 1 THEN CHOOSE c \in cells : TRUE ELSE Junk

Sending == IF req # <<>> THEN Head(req) ELSE proc

Sent ==
  /\ req' = IF req # <<>> THEN Tail(req) ELSE req
  /\ proc' = IF req # <<>> THEN proc ELSE Empty
  /\ phase' = IF req # <<>> THEN phase ELSE "idle"

(* The PLC executes the request, except for the symbols in refused; nobody *)
(* looks at the result.                                                    *)
Execute(refused) ==
  /\ symbols' = [r \in Records |->
       IF r \in Targets(Sending) \ refused
       THEN Received(Sending, CHOOSE n \in 1..Sending.count : Target(Sending, n) = r)
       ELSE symbols[r]]
  /\ lost' = (lost \ Targets(Sending)) \cup refused

Send ==
  /\ phase = "send"
  /\ Execute({}) /\ Sent
  /\ UNCHANGED <<length, epicsVars, dirty, todo, errors, failures>>

SendFails ==
  /\ phase = "send"
  /\ errors < MaxErrors /\ errors' = errors + 1
  /\ \E refused \in SUBSET Targets(Sending) \ {{}} : Execute(refused)
  /\ Sent
  /\ UNCHANGED <<length, epicsVars, dirty, todo, failures>>

(* There is no memory for the results: the request is not sent.            *)
NoResult ==
  /\ phase = "send" /\ Sending.count > 0
  /\ AllocFails
  /\ lost' = lost \cup Targets(Sending)
  /\ Sent
  /\ UNCHANGED <<length, epicsVars, dirty, todo, symbols, errors>>

---------------------------------------------------------------------------
Next ==
  \/ \E r \in Records, v \in Values : UserWrite(r, v)
  \/ PassBegins
  \/ \E r \in Records : Skip(r) \/ Collect(r) \/ HeaderRefused(r) \/ DatumRefused(r)
  \/ PassSends \/ Send \/ SendFails \/ NoResult

Spec == Init /\ [][Next]_vars

---------------------------------------------------------------------------
Requests == {proc} \cup {req[n] : n \in DOMAIN req}

(* Header and data stay inside the block that was allocated for them, also *)
(* when memory runs out, and a request holds at most maxrec symbols.       *)
WithinBlock ==
  \A q \in Requests :
    q.alloc > 0 => HeaderArea + q.size <= q.alloc /\ q.count <= maxrec

(* Each datum of a request reaches the symbol of its own header, whatever  *)
(* the sizes, and however the block was moved, doubled and cut into        *)
(* requests: a symbol only ever holds values of its own record.  A record  *)
(* whose length is not that of its symbol sends junk, but does not move    *)
(* the data of the others; memory that runs out does.                      *)
OwnDatum ==
  failures = 0 => \A r \in Records \ Mismatched : symbols[r].rec = r

(* Clearing the flag is a promise: a record that is not dirty any more has *)
(* its value in a request that is yet to be sent, or in the PLC, unless    *)
(* the PLC did not take it.                                                *)
NothingLost ==
  failures = 0 =>
    \A r \in Records \ (dirty \cup lost) :
      \/ \E q \in Requests : r \in Targets(q)
      \/ symbols[r] = Datum(r, value[r])
=============================================================================
