# A verification project for tcIoc

tcIoc is an EPICS input/output controller for Beckhoff TwinCAT PLCs. It reads
a *tpy* file, the description of the symbols of a PLC program, makes one
record for each symbol, and keeps each record up to date in both directions:
scanner threads talk ADS to the PLC, EPICS processes the records on behalf of
its clients. This directory holds TLA+ modules that model that exchange, TLC
configurations that check them, and proofs checked by TLAPS.

Paths below are relative to `src/`. Each definition that stands for code is
listed with its lines in `PROJECT.json`, under `map`; the hazards of
the code are listed there too, with the properties aimed at them, or with the reason
why no property is.

## 1. The system

### Threads and locks

| thread | code | locks |
|---|---|---|
| read scanner, one per PLC | `TcPLC::read_scanner`, tcComms.cpp:757 | holds `TcPLC::sync` for a pass |
| write scanner, one per PLC | `TcPLC::write_scanner`, tcComms.cpp:837 | holds `TcPLC::sync` for a pass |
| update scanner, one per PLC | `TcPLC::update_scanner`, tcComms.cpp:857 | none |
| ADS notification | `ADScallback`, tcComms.cpp:686 | none |
| EPICS scan and callback threads | `devTcDefIn/devTcDefOut`, devTcTemplate.h:745-866 | the lock of the EPICS record |
| IOC shell | drvTc.cpp | none |

`BasePLC::mux` guards a PLC's list of records and `System::mux` the list of
PLCs. A value itself is shared without a lock: it is an atomic, with an atomic
valid flag and one atomic dirty flag for each side.

### Components

*Data value* (plcBase.h:203-474, plcBaseTemplate.h, plcBase.cpp:30-500).
State: the value, `myvalid`, `myuserdirty`, `myplcdirty`. Operations: user and
plc read, write, set valid, set dirty, each some sequence of atomic accesses.
Hard: the order of these accesses, writers of both sides at once.
Correct when no update is missed, no value is overwritten unread except by
calls that overlap, and what is valid has been written.

*Record and interfaces* (plcBase.h:480-710). A record joins a data value and
two interfaces; a user write is pushed to the plc side and the other way round.
Hard: the value, the flags and the push are separate steps. Correct when a
dirty record has a wake-up on its way.

*EPICS device support* (devTc.\*, devTcTemplate.h). `EpicsInterface::push`
queues a callback; processing reads an input, and reads or writes an output
depending on the user dirty flag. Hard: the callback ring is bounded and
shared, `write` may be refused, a put may meet a value from the PLC. Correct
when `VAL` and the data value agree or one is still on its way to the other.

*Read and write scanner* (tcComms.cpp:200-325, 757-855). A read pass sends all
read requests and then updates records from the buffers; read-only records are
updated in each `scanRateMultiple`-th pass. A write pass gathers the dirty
records in sum-write requests. Hard: failures of single requests, the countdown,
a block of memory that moves and is cut, writes by EPICS in between. Correct
when a read does not undo a write, everybody is served in time, each datum
reaches its own symbol, and validity follows the link.

*Read request optimizer* (tcComms.cpp:466-582). Cuts the sorted symbols into
windows of PLC memory. Hard: the arithmetic of gaps and lengths. Correct when
each symbol lies in the buffer it is copied from, and the windows are bounded.

*Connection* (tcComms.cpp:383-464, 686-756, 857-905). State: `ads_state`,
`checkTpy`, `validTpy`, `ads_restart`, `read_active`, the notification. Hard:
four threads share these without a lock; notifications come late or never; the
PLC disappears or is reprogrammed. Correct when a PLC that is up is read in the
end, one that is down is not believed, and nothing is read by an outdated
file.

*Update scanner's crawl* (`BasePLC::get_next`,
plcBase.cpp:562-579, called at tcComms.cpp:866-875). Reminds EPICS of
a few records in each tick, going round the list. Correct when every record's
turn comes within ten seconds.

*Record container and system, IOC shell commands* (plcBase.h:713-979, plcBase.cpp:500-839,
drvTc.cpp). Options are collected by commands and used up by `tcLoadRecords`;
PLCs are added, started and stopped; at `iocInit` EPICS records are linked to
the PLC of their address. Hard: commands in any order, a PLC that
cannot be started, two with one address. Correct when a linked record has live
scanners and options never leak into the wrong load.

*Info records* (infoPlc.\*). Records about the PLC itself, updated each pass,
each second or once; one of them is an output that resets a watermark. Hard:
facts spread over several records; EPICS and the write scanner push the same
output. Correct when the parts of a fact agree and no reset is forgotten.

*Motor support* (motorSupportApp). A motor command is a sequence of record
writes, with a poll for the acknowledgement. Hard: the write scanner may send
part of the sequence; a status consists of records read one by one. Correct
when a command reaches the PLC complete and a move is not done before it ended.

*Parser and parser utilities* (ParseTpy\*, ParseUtil\*). Callbacks of Expat fill
one record of flags and levels; then a recursion walks from symbols through
types to elementary variables. Hard: what an element leaves behind, types of
one name, arrays of arrays. Correct when each entry has just its own text and
each byte of a symbol, except for gaps and single bits, belongs to one variable.

*Database generation* (TpyToEpics\*). Makes records, their fields and files of
them. Hard: the state carried from call to call (files, the stack of
structures), near copies of field tables, types on both sides of a link.
Correct when the database has each variable once and a record carries its
value unharmed.

## 2. Modules

`Handover`, `DataValue`, `RecordExchange`, `Scanners`, `ProcWrite` and
`AdsConnection` model the exchange of values.

| module | models | state and how it corresponds to the code |
|---|---|---|
| `Handover` | what a data value promises | a slot, and what each side last knew; `Post` and `Take` |
| `DataValue` | the data value | `mydata`, `myvalid`, `dirty` are the atomics; `pc`, `arg` the place and argument of a running call. One action is one atomic access. `known` and `raced` are history variables. Implements `Handover` |
| `RecordExchange` | one record from `VAL` to the symbol | instantiates `DataValue` with the threads `epics`, `scan` and `update`, and adds `val`, `udf`, the callback ring, the read buffer, the write request and the symbol. An action that touches the data value is one of its accesses |
| `Scanners` | both passes over all records | the mutex `sync`; `reader`, `request`, `todo`, `storing` for the read scanner; `writer`, `unseen`, `batch` for the write scanner; `cyclesLeft`, `read_success` as in the code |
| `ProcWrite` | `tcProcWrite` and `tcwrite` | `proc` is the object (`ptr`, `alloc`, `size`, `count`), `req` its queue. A cell is `sizeof(long)` bytes; header and datum cells name their record |
| `AdsConnection` | state, notification, reconnection, tpy check | the five shared variables as in the code; `callback`, `scan`, `update` are the places of the three threads. Each access to a shared variable, and each ADS call, is an action |

What happens before the scanners scan, combined by `MCLoading`:

| module | models | state and how it corresponds to the code |
|---|---|---|
| `XmlDocument` | Expat (external) | a well-formed document is grown element by element; `opened` and `given` remember what stands in the open elements |
| `TpyParser` | the callbacks of ParseTpy.cpp | `info` is `parserinfo_type`, field by field; text is the set of places it came from; `made` is the entry just stored, `want` what the document said. One action is one callback |
| `SubstParser` | the callbacks of ParseUtil.cpp, queries | the same for substitution lists, with `sinfo` and `swant` |
| `TypeTree` | ParseTpyTemplate.h, type map, memory locations | operators only: the recursion over symbols, items and array elements returns the sequence of calls of the processing function, each with the kind and the name of its type |
| `OpcList` | `opc_list` | operators: adding settings; the export state, the access rights and the direction, which overrides them |
| `DbOutput` | `split_io_support`, macro file processing | is given the list of calls (`Projects`), which `MCLoading` makes with `TypeTree`; `set_filename` is the initial state, one step is one call of the processing function; file numbers, counters and `procstack` as in the code |
| `RecordValue` | the record of one symbol and its conversions | `decl` is the declaration; its record fields and types are operators; `held`, `dv`, `val` are the value in the PLC, in the data value and in EPICS, `stage` the step of its way |
| `ReadRequests` | `optimizeRequests` | `requests`, `nRequest`, `totalGap` as in the code; `placed` is the iterated part of the list; one action is one iteration |
| `IocLifecycle` | shell commands, `System`, `BasePLC`, linking, timers | `options`, `scanrate` are the static variables of drvTc.cpp; `plcs` all PLCs ever made with their threads and where they are; `database`, `link` the EPICS records; `phase` and `IocRun` the hooks. One action is one command, one hook or one tick of a timer |

What runs beside the scanners, combined by `MCParts`:

| module | models | state and how it corresponds to the code |
|---|---|---|
| `MotorAxis` | moves, polls and the axis | `at`, `puts`, `polls`, `reads` are the place of the driver's thread and what it has still to do; `dirty`, `visiting`, `batch` the write pass; `shown` the EPICS status records, `motion` the axis |
| `InfoRecords` | the table of infoPlc.cpp and its updates | `cycles`, `freq`, `pending` of a read pass; the reset record `reset`, `resetDirty`, and `pushing`, the place of each of its two pushes |
| `UpdateScanner` | the ticks of several PLCs | `update_last`, `ads_state`, `ads_restart`, `read_active` as in the code, `rest` the time since the static `last_restart`. One action is one tick |

`MCRecordExchange`, `MCScanners`, `MCProcWrite` and `MCReadRequests` give
instances. `DataValueProofs`, `RecordExchangeProofs`, `ScannersProofs`,
`AdsConnectionProofs` and `ProcWriteProofs` hold the proofs about one module
each; `LoadingProofs` those about `IocLifecycle`, `ReadRequests`,
`RecordValue` and `DbOutput`, `ParserProofs` about `SubstParser` and `TpyParser`, and
`PartsProofs` about `MotorAxis`, `InfoRecords` and `UpdateScanner`.

How they fit: `DataValue` is the innermost protocol, and `RecordExchange` runs
it step by step. `Scanners` takes a data value's read as one step (a pass holds
the mutex, and only EPICS interferes) but keeps the test and the store of
`write_and_test` apart, since EPICS may write in between. `ReadRequests`
justifies that `Scanners` takes each record's value from its own request's buffer, `ProcWrite`
that a batch reaches the symbols as collected. `AdsConnection` details what
`online` is in `Scanners`, and `UpdateScanner` takes its reconnection as one step to
ask what several PLCs do to each other. `UpdateScanner` also justifies that
`RecordExchange` reminds EPICS again and again, `IocLifecycle` that there are
scanners at all behind a linked record. `TpyParser` fills the types that
`TypeTree` walks through, whose calls drive `DbOutput` and, one at a time,
`RecordValue`.

`MCLoading` and `MCParts` put modules that share no state into one run: the
variable `part` says which of them a behaviour is about and the others stay as
they start. Nothing is learnt about their combination, and nothing is claimed.

Operators marked *Fault* are not part of a specification. Each is a plausible
bug in the definition after it; with it in place the property named in
`PROJECT.json`, under `mutants`, must fail.

## 3. Runs

| run | bounds | shows |
|---|---|---|
| `DataValue` | 2 user threads, 1 plc thread, 2 values | no missed update, loss only in overlapping calls, valid means written; each side catches up; refinement of `Handover` with its fairness |
| `RecordOutput` | 2 values, 2 puts or changes, ring of 2, 1 failure | an output record: no lost wake-up, `VAL` never diverges silently |
| `RecordInput` | the same with a ring of 1, with fairness | an input record converges to the symbol, or to the INVALID alarm |
| `Scanners` | 2 records in 2 requests, 2 assignments, 1 event, multiple 3, default 1 | reads do not undo writes, everybody served in time, convergence, loss of the link shows |
| `ProcWrite` | 3 records, 2 in a request, sizes 1 and 11, 4 writes, 1 error, 1 failed allocation | headers and data stay in the block, each datum reaches its symbol, nothing collected is lost |
| `AdsConnection` | 3 events in the PLC or with the file, 1 request | the file is checked after each switch to online, a PLC that stays up comes online, one that is down is not counted as read |
| `Loading`, part requests | 12 bytes of memory, sizes 1, 2, 8, lists of 5 | each symbol in its buffer, windows bounded in size and waste |
| `Loading`, part ioc | 2 loads of 5 kinds of files, 2 other commands, 3 rates | options go to the load they were said for, links lead to the right PLC or none, two known ways to lose all meaning, scanners go on while the IOC runs |
| `Loading`, parts tpy and subst | 4 regions of a tpy file, 1 substitution list, 3 values in what is open | every entry is stored once, with its own text only |
| `Loading`, part output | 4 projects, 26 combinations of options, 1 file, the first or a later one, that cannot be opened | each byte of a symbol that is no gap in one variable, records in order in files of the right direction, each structure with its own members |
| `Loading`, part value | 32 declarations, one bit per byte, all values of a variable, puts from a sample | echoing a value does not change it, a limit has one severity |
| `Parts`, part motor | 4 scripts of calls in 2 orders of the list, 2 waiting polls, 1 alarm | the set points arrive before the command if the list begins with it, no move done early, errors pass |
| `Parts`, part info | 8 records, queue of 2, 4 passes, 2 events | parts of a fact agree, no reset forgotten |
| `Parts`, part update | 12 and 3 records, 1 outage, 2 orders of the timers | everyone reminded in ten seconds, reconnection when all can be reached |
| `RecordPutLost` | violation | section 6 |
| `ScannersStale` | violation | section 6 |
| `AdsPeriodicCheck` | violation | section 6 |
| `MotorCommand` | violation | section 6 |

Why the bounds are enough. *DataValue*: a flag protocol of two sides shows its
races with one thread on each side; the second user thread adds overlap on one
side; two values tell an old from a new one. The proofs lift the safety
properties to any number. *RecordExchange*: each hazard needs at most one put
against one change of the symbol, a callback refused or queued twice. The
output record needs a ring of 2 for the second, redundant callback.
*Scanners*: one record per request makes "one request fails, the other
succeeds" happen, one of them read-only makes the countdown matter; a multiple
of 3 with a default of 1 has a first round of another length. *ProcWrite*: the
third record opens a second request, 11 cells do not fit in the first block of
16 behind 6 header cells; 4 writes keep records dirty over two passes.
*ReadRequests*: the limits of tcComms.h:309-313 are scaled so that each of the
four reasons for a new request occurs, and the sizes put symbols below, at and
above the limit. *AdsConnection*: 3 events are an outage with a return and one
more (a new program, a stop); `LongOutages` says that an outage lasts a pass,
so that error 18 is seen; `FileErrors` that the time of the file cannot be read.

*IocLifecycle*: two loads are one after another, with one address or two; among
the files are one that exports nothing, one with a type that is not known, one
without an address and one that does not parse; two commands before a load say
an option and change it, or leave one over; a rate is plain, below the
minimum, or has junk behind it. *TpyParser*, *SubstParser*: a region of the file has the elements
that share buffers and levels with each other; three values in the open
elements are an element, its predecessor and its successor. The two parsers
differ from region to region only, which is why one region is enough at a
time. Unknown elements stand in each kind of place (`UnknownIn`), hide known
ones (`Hidden`), and values may be empty or have a CDATA section.
*DbOutput*: the project has two types of one name in two libraries, an alias,
an array of arrays with a negative bound, arrays with no and with a negative number of
elements, an enum, gaps, a bit, a pointer, and a symbol at the end of another one's
memory; an array of a name of its own, a structure with ARRAY in the name of its type,
and a structure with two error structures; the list gives one variable a valid and
another an invalid set of properties. The four projects are this one, with and without
the list, a short one that ends with an empty array, and one without symbols. *RecordValue*: with
one bit per byte a type of 8 bytes has 256 values, and a variable takes every
value of its type; what operators put is a sample around the ends of each
type. Texts are shorter than, exactly as long as and longer than 4 and 6, which
stand for 40 and 65535.
*MotorAxis*: two polls, instead of ten, are one that sees nothing and one that
ends the wait; a pass visits the execute flag first or in the middle; a script
has two calls where one may meet what is left of another. *InfoRecords*: two
passes a second and four passes are two updates of each frequency.
*UpdateScanner*: more records than ticks in ten seconds make a workload of more
than one, three records fewer; the timers fire alternately, or one of them
twice before the other.

Deadlock is checked everywhere but in `Loading`, `Parts` and `MotorCommand`: a
list of symbols, a document, a database, the shell and a script of calls end.

### Fairness

* A call that began ends, a pass that began ends: weak fairness of the step.
* Scanners run on periodic waitable timers and queue for `sync`
  (`ScannerProc` and `scannerThread`, plcBase.cpp:657-703), so each gets its turn again and again although
  the other one also does: strong fairness of the beginning of a pass. In
  `IocLifecycle` the timers themselves are actions, under weak fairness each.
* EPICS runs what is in the callback ring: weak fairness of processing.
* The update scanner reminds of a record again and again: weak fairness of
  `Remind` in `RecordExchange`. It rests on `RemindedInTime` of `UpdateScanner`,
  a safety property.
* The update scanner's timer fires for ever, and the read scanners make passes:
  weak fairness of `update_scanner` and of `UpdateReads` for each PLC.
* The motor driver's call goes on, its poller polls, the two scanners make
  passes and EPICS shows what they read: weak fairness of each in `MCParts`.
* ADS delivers notifications it has accepted while the route stands.
* Nothing is assumed of operators, of the shell, of the PLC program or of the
  link. Liveness is stated for the case that they leave the values alone, that
  the link stays up or down for good, or that the IOC stays running.

## 4. Proofs

TLAPS proves, for all values of the constants that the assumptions allow:

*DataValueProofs*, from `ThreadsAssumption` (no thread is on both sides) and
`ValuesAssumption` (the initial content is not one of the values written):
`TypeCorrect`, `NothingMissed`, `LossNeedsOverlap`, `ValidIsWritten` and, from
them, `Refinement`: every step of the protocol is a `Post`, a `Take` or nothing
of `Handover`. The inductive invariant `IInv` adds `WriteInProgress`, what a thread
in the middle of a write relies on: it holds a value, and once that is stored
the storage has been written. The main argument is in `MissedStep`: whoever
changes the value is about to raise the flag, whoever lowers the flag is about
to load. `RaceStep` uses `NoMissedUpdate`: a writer that finds its own flag down
and yet does not know the value has met a call in progress, and that is what
`raced` records.

*RecordExchangeProofs*: `WakeupsKept` and `NoSilentDivergence`, the two
invariants of the run `RecordOutput`. `NoLostWakeup` carries itself; of
`ShowsDataValue` the invariant has to say what a write relies on: until EPICS
has exchanged the value it writes `VAL` (`WritesVal`), from then on `VAL` is the
data value or the PLC side has stored another and will announce it (`Shown`).
The lemmas about `DataValue` cannot be cited here: they are about all steps of
`DataValue!Next`, and EPICS may write the initial content of `VAL`, which is none of
`DataValue`'s values.

*ScannersProofs*: `EverybodyServed` (`ServedInTime`) and `WritesNotUndone`
(`NeverUndone`). The first adds up: what a record has waited and what is left of
the countdown are one round (`OneRound`, `InfosOneRound`). For the second,
`Apart` says that the two passes exclude each other, `StillDirty` that a record
written and not yet sent is still dirty, `StoresRecent` that what the read pass is about
to store was asked for after the last write.

*AdsConnectionProofs*: `CheckedBeforeRequest` (`CheckedWhenSteady`), for any
number of requests, errors and events. `CheckIsDue` follows the obligation to
look at the file from the callback through `checkTpy` to the scanner;
`NothingComes` says that there is no notification while the update scanner sets
the state to invalid, which would otherwise take a state back; `SteadyPass` says what a pass
knows that began after the switch.

*ProcWriteProofs*, for any records, sizes and `maxrec`: `BlocksHold`
(`WithinBlock`), whatever allocation fails, and `DataArrive` (`OwnDatum`) and
`NoneLost` (`NothingLost`) as long as memory does not run out. `BlocksInv` says
that a block holds what was put into it; `DoubledIs` and `GrownIs` that doubling ends at
a block that is large enough. For the other two, `PassInv` says of each request that
its data lie one after another in the order of the headers, each of the record
its header names (`Layout`), and that the pass does not visit a record of a request
again (`Sound`). A record that is visited twice would be in one request twice and
its older value could come last. Two recursive functions (the size of
the block, the place of the n-th datum) are treated by induction over 0..N,
which `AllNumbers` derives from the order of the numbers being well founded.

*LoadingProofs*, four parts that share nothing.

* The shell, for any files, rates, aliases and number of loads: `OptionsHold`
  (`LoadedAsSaid`), `RecordsLinked` (`LinksRight`) and `NoThreadAstray`
  (`MeaningKept`). `OptionsAsSaid` says that the options in effect are those said
  since the last load; `PlcsRight` that a PLC which was refused has a namesake in the
  system; `DatabaseRight` that a record generated by a load has the address of its PLC.
  Together they make linking by address find the right one.
* The read requests, from `SymbolsAssumption` and `LimitsAssumption` only (the
  limits may be any numbers): `RequestsTyped`, `BuffersHoldSymbols` (`Covered`) and
  `RequestLimits` (`RequestsBounded`). `Covered` is not inductive: the invariant adds
  `OpenEndsAtLast`, that the open request ends where the symbol placed last ends. With
  it a symbol that does not overlap the last one, and is not sorted before it, has a gap
  that is not negative (lemma `Forward`), so a request never becomes shorter. For the
  bytes read for nothing, `OpenWaste` says that `totalGap` is at least their number
  in the open request; the waste of a finished one is bounded by what `totalGap`
  was before its last symbol.
* The records, for any declaration, all values of a variable, any size of a byte:
  `LimitsHaveSeverity` (`LimitsAlarm`), a case for each pair of limit and severity, and
  `EchoKeepsValue` (`EchoIsHarmless`). `EchoInv` follows a value from the variable to
  `VAL` and back; the way back undoes the way there, since converting a number
  changes it by a multiple of the codes of the narrower type, and `GeneratedTypes` says
  that the record is never narrower than the data value: a fact about the tables of types.
* The output files, for any list of calls, substitutions, options and number of files
  that cannot be opened: `RecordsSplitInOrder` (`SplitInOrder`) and `MacroMembers`
  (`MembersOfTheirOwn`). Of the calls `CallsAssumption` says that no name comes twice, a
  structure comes before its members and these come together (`IsPreorder`), and that an
  error structure is not an elementary variable; the run
  `Loading` evaluates it for the lists `TypeTree` makes. For the first, `Counters` says
  that until a file fails the counters and the open file numbers are what the records up
  to now make them, and `FileStep` that replacing a full file and dividing the number of a
  record by `split_n` name the same file. For the second, `StackInv` says that the stack
  holds the structures around the last call from outside to inside, each with the members
  up to now, that every other structure is finished, and that no call to come is for a
  finished one. That last part is where the order of the calls is needed (lemma
  `MacroChosen`), and `ParentOnStack` is the step it allows: the innermost structure on the
  stack that begins a name is the innermost of all structures that do. A finished
  structure has a file unless it is an error structure, and `erroridx` is followed like
  the members (lemma `ErrorNext`).

*ParserProofs*, from `SubstFileAssumption` and `TpyFileAssumption` (known elements stand
where the parser looks for them, which section 6 shows to be needed), for documents of
any length and depth: any choice of the known elements, in any order, with any text, and
unknown elements around and between them (for the exceptions see section 5). As in
`XmlDocument`, a value comes once in an element and has one CDATA section at most.

* `SubstitutionsAsWritten` (`SubstitutedAsWritten`). The document is seen as a tree of
  places (`IsTree`), and `At` says in which place the parser is; the lemmas `OpenStep`,
  `CloseStep`, `TextStep` and `CDataStep` say, for any such tree, what a step of the
  document does to the place. On top of that the invariant says in each place what the
  parser's flags, levels and buffers are: control is a function of place and depth, and a
  buffer holds the text of elements that are finished or open and of no other. The
  documents are grown step by step, so an induction over the document is not needed.
* `EntriesAsWritten` (`StoredAsWritten`), over the same lemmas. A tpy file has 48 places
  and `info` 27 fields, so the proof goes through a record in between,
  `TpyView`: the place, how many unknown elements are open in it, which elements around
  it have been seen, and the text of each. How a step of the document changes the view is
  proved without the callbacks, and what a callback does to `Knows`, the agreement of
  the parser with the view, without the document. `Knows` says where each level and flag
  is in each place, that the buffers that several elements share hold the text of the
  one that is open, and that the fields of the current entry are what its finished
  elements say, nothing being left of the entry before: it is where `init` clearing all
  levels and the reset of an item, a bound, an enum value and a property at its start are
  needed. `TpyInv` adds the place.

*PartsProofs*, three parts again.

* The motor, for any script and order of the pass: `MotorSetPointsArrive`
  (`SetPointsArrive`) and `MotorNotDoneEarly` (`NotDoneEarly`). `CommandInv` orders
  three places: the driver puts the flag last, a value further on its way is never
  newer (`InOrder`), and a pass that has met the flag has the rest of its call
  before it. The execute flag being first in the list is the premise of the
  property, and where it is used is `FlagComesFirst`. `StatusInv` says that `MOVING`,
  once seen, stays shown until the axis rests (`ShowsMotion`).
* The info records: `InfoPartsAgree` (`PartsAgree`), for any choice of records, and
  `ResetNotForgotten` (`ResetHonoured`), for any queue and number of events. In the
  middle of an update a part is up to date or has its turn to come
  (`PartsFollow`). A push that has passed its test stores FALSE whatever
  the value is by then; `PushMayLose` says that there is then no TRUE to lose.
* The update scanner: `UpdateRemindedInTime` (`RemindedInTime`), for any PLCs, numbers
  of records and periods within the bounds of the code. `OneRound` says that the
  records passed since r was reminded and those still to pass before its turn are
  fewer than all; a workload is more than the share of a tick, so the products of ages
  and workloads bound the age.

Only model-checked: all liveness properties and the fairness part of the
refinement, which are outside what the prover does; `LaidOut`, since `TypeTree` is a recursion over data and declares RECURSIVE operators; and,
for the same reason, that `TypeTree`'s calls are in preorder. `TypeOK` of
`RecordExchange`, `Scanners` and `ProcWrite` is there for the reader and part of
no run; `TypeOK` of `AdsConnection` and `ReadRequests` is proved.

## 5. Not modelled

* Replacement rules, the conversion of names to EPICS, lists, the text of macro
  files, the lists of errors they are made from, two structures with one file name, macro
  files that cannot be opened, the options for fields or errors alone (`-mf`, `-me`)
  and for leaving out strings, the parsing of options, the text of bit locations, the attributes of
  `Name` and `Type` elements, conversions of numbers in a tpy file: transformations
  of text without state of their own.
* The binary overload of a data value (no record has it), `GetValid` (no
  caller), the assignment of data values, wide strings (no record has them).
* Waveform and array records (stubs in devTc.cpp); text and logging.
* How long things take, except for the ten seconds of `UpdateScanner`; the factor of
  `tcSetScanRate` (drvTc.cpp:771-783).
* What the methods of info records ask Windows, EPICS and ADS, beyond a state, a time and
  a queue. The router notification, which is only shown.
* Positions, limits, brakes and the report of the motor controller.
* Files in a substitution list that have elements inside an unknown one, in a
  `Symbol` there or under `AdsInfo` and `CompilerInfo` of a tpy file, and
  a second CDATA section of a value: section 6. A value that comes twice in an element,
  which TwinCAT does not write.
* Case-insensitive and atomic strings, the entry point, the command line tools,
  the generated registration code, build files, Expat itself, released binaries.

## 6. What the runs found

Four statements of the documentation are not what the code does; each has a run that
shows it.

* `RecordPutLost`: a put to an output record is dropped when a value from the
  PLC is pending, or becomes pending between devTcTemplate.h:829 and 853.
  `ShowsDataValue` shows the consolation: `VAL` is repaired by the next callback.
* `ScannersStale`: if one request of a pass succeeds, the records of a failed one are
  rewritten from an old buffer and stay valid.
* `AdsPeriodicCheck`: the tpy file is looked at when the PLC goes online, and not
  periodically while it is online.
* `MotorCommand`: the execute flag can reach the PLC a pass before the command
  code it belongs to, unless the PLC's list has the flag first (`SetPointsArrive`).

Observations that come out of the models, and are not stated by any document.

Values and scanners:

* A second callback for an output record, queued before the first was
  processed, finds the flag down and writes the PLC's own value back to it. If
  the scanners and EPICS alternate in the worst way the echo never ends, which
  is why the convergence of output records is not claimed. The value echoed can even be
  the initial one, which the PLC never had.
* The comment of `write_and_test` (plcBaseTemplate.h:47-48, 72-73) says the flag is
  raised when the value is different; the template raises it always (61-64,
  87-90), only the overload for wide strings compares.
* Symbols that share memory can make a window shorter than a symbol in it
  (tcComms.cpp:521-547). `Covered` is stated, and proved, for symbols that do not.
* `MAX_REQ_SIZE` is compared without the gap before a symbol (532), so
  the bound on sizes allows one gap more.
* A sum-write is considered done whatever the PLC says of its parts
  (tcComms.cpp:312-325): `NothingLost` excludes exactly these values. The array for
  its results is never freed (309).
* An enumeration of four bytes gets a data value of two (drvTc.cpp:436-437).
  Its writes carry bytes nobody set, without disturbing other records
  (`OwnDatum`).

Connection and update scanner:

* After a STOP the registration may be lost with the PLC and is not renewed,
  since only an unknown state or error 18 triggers it (tcComms.cpp:876-878):
  the premise `[]<>(ads_state # "STOP")` of `ComesOnline` is that gap.
* `last_restart` is shared by all PLCs, so one that stays off can take every
  turn and another that could be reconnected never gets one:
  `ReconnectsWhenAllCan` says "all" for that reason.
* The workload of a tick is rounded up, the ticks in ten seconds down: for some
  periods and numbers of records (1021 records at 333 ms) two reminders of a record are
  more than ten seconds apart, by less than a period. `RemindedInTime` is what holds for
  all: no tick leaves out a record that is due.

Shell and loading:

* A second PLC with the address of another is destroyed while its detached
  threads run on it; a PLC without records indexes an empty vector. These are
  the two exceptions of `MeaningKept`.
* A load resets all options although it fails or is refused (drvTc.cpp:555-565). A
  rate with junk behind it stays, unlimited (758).
* The database record is written before it is known whether there will be a data
  value (421): EPICS has a record that stays disabled.
* Loading is refused while the IOC runs, but accepted while it is paused
  (README.md:400 allows it before `iocInit` only).

Parser and generator:

* Under `AdsInfo` and `CompilerInfo`, and in a `Symbol` of a substitution list, an
  unknown element is not skipped; its children are taken for known ones.
* A second CDATA section of a value replaces the text of the first, and text behind a
  section is dropped (ParseTpy.cpp:1163-1193).
* A type that is an alias of itself is followed for ever (ParseTpyTemplate.h:76).
* Members are recognised by the beginning of their name (TpyToEpics.cpp:875): a
  structure whose name another one begins with gets its members.
* Arrays are told by ARRAY in the name of their type (TpyToEpics.cpp:849-850). An array
  type with a name of its own gets a macro file like a structure, with its elements as
  members; a structure with ARRAY in the name of its type gets none, and its members are
  listed for the structure around it.
* Error structures get no macro file (986-988). A structure with two shows the errors of
  the second and lists the first as a link to a file that does not exist.
* Flushing a macro stack writes every structure with level 0 (781).
* A `STRING` without a length has the size 0 (ParseUtil.cpp:426-430): the text shown and
  written is cut to what the record holds instead (TpyToEpics.cpp:1401-1431).
* `PINI` is read into the variable of `TSE` and written as 0 (TpyToEpics.cpp:1477), and a
  `DTYP` that does not contain "raw" makes the record raw (1446; ParseUtilConst.h:66
  names the values).

Info records and motors:

* The percentage of a callback queue keeps its last value when one entry or none is
  left in the queue (infoPlc.cpp:1364-1369): it never goes back to 0.
* A move returns an error after its puts were made when the status cannot be
  read (devMotorAxis.cpp:118): the axis moves although EPICS has been told it does not.
* A `moving` left from an earlier move ends the wait for the next one at once:
  `NotDoneEarly` is stated for moves from rest.

## 7. Plan

Done: all components that have a protocol of their own, and the proofs named
above. What is left, in this order:

1. `ProcWrite`: `WithinBlock` with a block that is large enough instead of
   doubled, as the abstract specification the doubling implements.
2. `Scanners` and `RecordExchange` as implementations of one abstract register
   with two sides, so that `Converges` need not be stated twice.
3. `ReplacementRules` and `NameConversion`: idempotence, and when two symbols get
   one record name.
