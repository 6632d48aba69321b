# nnpkg in TLA+

Specifications of nnpkg, the package manager of NexNix: the property database
that holds what is installed, the package databases over it, the transaction
that adds a package, and the command around them. TLC checks them on small
instances; TLAPS proves nearly all of the safety properties for every instance.
Paths are relative to `src/`; `propdb.c`, `strtab.c` and the other library files
are in `libraries/libnnpkg/`, the command in `frontend/nnpkg-cli/`.

## The system

| Component | State | Operations | Talks to |
|---|---|---|---|
| property database engine (`propdb.c`) | the database file (header with `numProps`, `numFreeProps`; 512-byte slots); per process an `NnpkgPropDb_t` with a mapping of the file, the size found by `stat`, the queues `propsToAdd`, `propsToRm` and the allocation marker | `PropDbCreate`, `PropDbOpen`, `PropDbAddProp`, `PropDbRemoveProp`, `PropDbFindProp`, `PropDbClose` | string table (calls); other processes (shared files, `flock`) |
| string table (`strtab.c`) | the table file; per process its private mapping and the offset to append at | `PropDbInitStrtab`, `PropDbOpenStrtab`, `PropDbAddString`, `PropDbGetString`, `PropDbCloseStrtab` | the engine |
| package databases (`pkg.c`, `pkgdb.c`) | static list `pkgDbs` and `destDb` of the process | `PkgOpenDb`, `PkgAddPackage`, `PkgRemovePackage`, `PkgFindPackage`, `PkgCloseDbs` and the `PkgDb*` calls under them | the engine; the control block (errors) |
| configuration (`pkgconf.c`) | static main configuration | `PkgParseMainConf`, `PkgDestroyMainConf`, `PkgReadConf` | libconf; the package databases (dependencies) |
| index manager (`indexMan.c`) | the index: a directory of symbolic links | `IdxCollectEntries`, `IdxWriteIndex` | the file system |
| transaction engine (`transaction.c`) | the control block `NnpkgTransCb_t` (state, error) | `TransactExecute`, `TransactSetState` | all of the above |
| commands (`main.c`, `addPkg.c`, `initDb.c`) | parsed arguments | `nnpkg add`, `nnpkg init` | transaction engine; the engine (`PropDbCreate`) |

libnex, libconf and libchardet are submodules, absent from the repository.

Nothing in a process runs concurrently. What makes the system hard is that
several processes share three persistent structures (database, string table,
index) through separate system calls, with one advisory lock on one of them,
no journal, and a process that can be killed anywhere. The hard behaviours:

* a value read before the lock is taken (the size, `propdb.c:159`) and used
  after it;
* a commit made of many stores (`PropDbClose`), in an order that decides what
  a kill leaves behind;
* files created in two calls (`stat`, `creat`) without the lock;
* error paths that skip the cleanup (`transaction.c:164`, `propdb.c:239`);
* writes whose result is ignored (`propdb.c:392`, `strtab.c:137`);
* the free list, whose scan and lookup disagree about the size of an entry;
* static data that outlives a call: the list of databases and its destination,
  the main configuration and the control block's pointer to it, all of which a
  second transaction of the process finds as the first one left them;
* a recursion over what the database holds (`pkgdb.c:201`), with a list of
  dependencies that has no terminator when it is full.

What makes each component correct: the engine must keep committed properties
findable, names distinct, counters right and sessions isolated; the string
table must never hand out a place twice; the transaction must never commit a
package whose files are not in the index, must report what happened, and must
end with the lock free; init must never empty a database. A lookup must find a
package with its dependencies in the first database that has them and otherwise
name what is missing; the configuration must be that of the file; the command
line must be read as its grammar says; and the exit status must be true.

## Modules

| Module | Models | Role |
|---|---|---|
| `PropDbFormat` | the slot format and its pure functions | used by `PropDb` |
| `PropDb` | engine and string table, several processes | detailed specification |
| `PropStore` | what the database promises its users | abstract specification, implemented by `PropDb` |
| `Transaction` | `nnpkg add`: transaction engine, index manager, package database and configuration layers | composition: its steps are joined with actions of `PropDb` |
| `PkgDb` | package databases of a process: the list, the lookup over dependencies, queues and their commit | component |
| `CommandLine` | the parser of `nnpkg`'s command line | component |
| `MainConf` | the main configuration and the static structure it fills | component |
| `Nnpkg` | programs that use all this, one after another: the command, clients of the package databases, processes with several transactions | composition of `PkgDb`, `CommandLine` and `MainConf` |
| `MCPropDb`, `MCTransaction`, `MCNnpkg` | | instances for TLC |
| `PropDb_proofs` | | theorems about `PropDb`: types, lock, strings, isolation |
| `PropDbAppend_proofs` | | theorems about `PropDb` with one process that only adds; refinement of `PropStore` |
| `PropDbNames_proofs` | | theorems about the names in `PropDb`, several processes |
| `Transaction_proofs` | | theorems about `Transaction`, on those about the engine |
| `PkgDb_proofs`, `CommandLine_proofs`, `MainConf_proofs` | | the invariants of these components |
| `Nnpkg_proofs` | | theorems about `Nnpkg`, on those invariants |

### PropDb

`pc[p]` says where process p is between the system calls of `PropDbCreate`,
`PropDbOpen` and `PropDbClose`; `db[p]` is its `NnpkgPropDb_t` and the locals
of the call it is in. One action is one system call or one group of stores
into the shared mapping, so processes interleave, and can be killed, between
any two:

| Code | Actions |
|---|---|
| `PropDbCreate`, `PropDbInitStrtab` | `CreateStat`, `CreatDb`, `WriteHeader`, `StrtabStat`, `CreatStrtab`, `WriteStrtabHeader` |
| `PropDbOpen` | `OpenStat` (size), `OpenLock` / `OpenLocked`, `OpenMap` / `OpenMapDies`, `OpenStrtab` / `OpenStrtabFails` |
| calls on an open database | `AddProp`, `RemoveProp`, `FindDies` (a lookup that hits the assertion); `PropDbFindProp` is the operator `Found` |
| `PropDbClose` | `BeginClose`, then one `CloseRemove` per removal, one `CloseAlloc` (allocation and name) and one `CloseAppend` or `CloseReuse` per addition, `CloseHeader`, `CloseUnlock` |
| environment | `Crash` (kill), `BusError` (mapping past a truncated file), `Exit` |

Abstractions, and why they lose nothing the properties tell apart:

* A slot keeps its first `W` 12-byte units ("words"), of a word the 4-byte
  field at 0 and the 2-byte field at 8: what the code interprets at the two
  strides it uses. The rest of a slot is zero for packages that use no more.
* A string is one cell of the table; its byte length is left out.
* The whole database lies in one page, so a mapping shows all of the file
  whatever the size it was made with. (With more than a page, a mapping of the
  size before a growth would fault behind it; not modelled.)
* A kill keeps what was stored, since the page cache outlives the process; a
  power failure is not modelled.
* The two counters of the header are stored in one step.
* `AddProp` has the guard of its only caller in the program,
  `PkgDbAddPackage`: the name is neither queued nor found.
* A `pwrite` of a process in `Faulty` may write nothing, in the database
  (`CloseAppendFails`) and in the string table (`CloseAllocFails`); the code
  ignores it and counts on. Partial writes are not modelled. `creat` succeeds
  and memory does not run out. Checksums are written by the code and never
  read, so they are left out.
* The strings a package adds besides its name (description, prefix,
  dependencies) are part of `data` and take no cell.
* What follows a missing string table is undefined (`propdb.c:239` uses what
  `strtab.c:105` freed): `OpenStrtabFails` chooses among dying, returning, and
  returning with the lock still held.

### Transaction

`Transaction` has the variables of `PropDb` and, per process, the control
block: `state` (`cb->state`), `error`, the configuration file it was given and
the index entries it has still to link; `index` is shared. Its actions are the
handlers `transactRun*`: those that enter the property database are conjoined
with the action of `PropDb` for the system call at hand (`Db!OpenLock`,
`Db!AddProp`, `Db!CloseHeader`, ...), so that two commands and their kills
interleave at the grain of `PropDb`; a link is one step. `NextState` is
`transactNextState`. The instance fixes what the command line cannot do: no
removals, no init beside it, and properties told apart by name.

* `PkgReadConf` and `PkgParseMainConf` appear by outcome. A package whose
  configuration names a dependency meets a type confusion (`pkgconf.c:455`):
  the lookup reads an `NnpkgPackageDb_t` as an `NnpkgPropDb_t`, so it finds
  nothing or the process dies.
* A missing prefix or description is not an error of the reader; the process
  dies when it is used (`indexMan.c:81`, `pkgdb.c:123`).
* `WriteLinkFails` is the one error after the database is open that has no
  cleanup: the command exits with it open, which drops the lock and commits
  nothing.

### PkgDb

The other way up: `PkgDb` is about one process at a time, and takes of the
engine only what a process alone sees of it. `files[l]` is what there is of the
database at `l`: how far `PropDbCreate` has come (`made`), the properties, and
`numProps` and `numFreeProps` of the header (`count`, `free`). An entry of
`pkgDbs` has the queues and the locals of `PropDbClose` (`num`, `end`, in
properties). `PropDbOpen` is one step; creation and commit are not, so that a
process can die, or a call fail, between any two of their stores.

| Code | Actions |
|---|---|
| `PropDbCreate`, `PropDbInitStrtab` | `CreateDb` enters it, or refuses what is there in whatever stage; `CreateStep` for each of `creat` and `write` of the database, `creat` and `write` of the string table; `CreateFails` when one of them fails and leaves what is made |
| `PkgOpenDb` | `PkgOpenDb`; `PkgOpenDbFails` (no file, or locked, also by the same process, or no string table); `PkgOpenDbDies` (a file without a header, what follows a missing string table, a second destination) |
| `PkgAddPackage` | `PkgAddPackage`, `PkgAddPackageDies` (more dependencies than `deps[]` has room for) |
| `PkgRemovePackage` | `PkgRemovePackage` (the package found last), `PkgRemoveAdded` (a package just added, whose `internal` was never set) |
| `PkgFindPackage`, `pkgDbFindPackage` | `FindPackage` calls it; `FindTop`, `FindDep`, `FindBroken`, `FindReturns` are the steps of the recursion, `lookup.stack` its frames, `FindDies` the overflow |
| `PkgCloseDbs`, `PropDbClose` | `PkgCloseDbs`, then for the databases in the order of the list: `CloseRemove` / `CloseRemoveDies` for each property to clear, `CloseAppend` for each `pwrite` of a property, or `CloseAppendFails` where it fails and is counted all the same, and `CloseDb`, the header and the unlock |
| kill | `Exit`, between any two of these |
| assertions on the static pointers | `CallDies` |

`DepAt` is what the loop of `pkgDbFindPackage` reads as the i-th dependency,
also behind the last: a full list is followed by the next property of the file,
whose first word is its name, and then by bytes that read as string index 1.
`promised` is the history of what was committed and not removed, as it was
added; the properties compare the lookup with it, never with `files`.

`torn` is the history of what a kill between `propdb.c:392` and `:402` leaves: a
property in the file that the header does not count. What is committed next
goes behind it, and is out of the reach of lookups while the orphan comes into
it. `PropDbOrphan` reports that, and no property of lookups holds of such a
database: `LookupIsRight` and `ErrorIsTrue` therefore speak of the others, and
`FoundAsAdded` says of a torn one only that a package found there is one that a
client added, with the dependencies it was added with. A failing `pwrite`
needs no such exemption: the slot it should have filled is empty, is counted,
and the next session appends at the end of the file, in front of the count.

* The names of packages are written to the string table when they should be:
  what a lost name does is in `PropDb` (`Faulty`) and, for commands, in
  `Transaction`. A string table without its header is used like one with it;
  the first description takes its place, and is no name either.
* As in `PropDb`, the database fits a page, so that a slot past the end of the
  file reads as zero.
* A process adds only to a database without free properties and never both adds
  and removes in a session: where an addition goes after a removal is the
  matter of `PropDb` (and of the finding in `PropDbReuse`).
* The client keeps a package it removes until the close (`propdb.c:324` takes
  no reference), and removes only packages that a lookup or an addition gave.
* `ListDestroy` of libnex is external; it is taken to destroy a list from its
  front, and so to close the databases in the order they were opened.
* Adding more dependencies than there is room for kills the process or loses
  the rest: what lies behind the heap block is not known.
* The recursion is cut where its depth exceeds the number of properties: then
  some property is on the path twice, and the code never comes back from it.

### CommandLine

`parsed` and `i` are where `parseArgs` and `parseAction` are; one step handles
an option with its argument, or a word that is none. Words are told apart by
what the parser asks of them: a leading dash, and which table entry they match.
`-` and `--` match the entry for the package (short option `\0`, long option
`""`). `Accepted`, `ConfGiven` and `PkgGiven` say which lines are accepted and
with which values without any parser, from each word and its neighbour;
`ParserMeetsGrammar` compares.

### MainConf

A configuration file is the sequence of values that libconf delivers, or a name
that is no file. `Apply` is `pkgConfAddProperty` for one value, `After(vals)[n]`
is the structure after n values of the file, starting from what the last parse
left, and `ParseMainConf` takes it after the last. `PkgDestroyMainConf` leaves
the pointers: a field keeps its path and is no longer `live`. Every refusal, of
a block, a property or a type, is one: it ends the parse with what came before
it applied.

### Nnpkg

`program` is what runs, `at` where it is. The command goes from `ParseLine`
through `InitConf`, `InitCreate` or the `Run*` handlers of `transaction.c` to
its exit status; a process of type "transactions" runs several with the same
static data; a "client" makes any call of `PkgDb`. All may be killed anywhere
(`Killed`), and the next one finds the files they left: a database without a
header or without a string table, or a torn one. `InitCreate`, `InitWrites` and
`InitFails` are `initRunAction` through the steps of `PropDbCreate`;
`RunCloseDb` is `transactCleanupPkgSys` through those of `PropDbClose`, and
`lost` remembers that the `pwrite` of the package has failed. Of a transaction
only what touches the package databases and the configuration is kept;
`Transaction` has the rest. Where the code goes on with what it should not have,
both outcomes, death and going on, are in the model: an unset `cb.conf` in init
(`InitUnconfigured`), a freed path (`RunOpenFreed`), a second free of one
(`Destroy`), a missing string table (`RunOpen`), a database left open by a
transaction whose links could not be made (`RunRead`, then `RunOpen`). The
database and the string table of a location are always configured together.

`ResultIsTrue` is about the files themselves. After a successful add the
package is in the file of the database that the configuration names, in a slot
that the header counts, and no other property of its name was there before;
nothing else has changed. Of a torn database it says only that the package is in
the file. There is one way in which success is not true, which the code has and
the property names (`LostAt`): the `pwrite` failed, and the file has the
properties it had. After a failure no database that was there has changed; a
failing init may leave its own half made (`BegunAt`), which no later init will
complete.

## Runs

| Run | Instance | Shows |
|---|---|---|
| `PropDbSingle` | 1 process, 3 names, package types 0 and 1 | `CommittedIsFound`, `CountsAgree`; `ImplementsStore`: refinement of `PropStore` |
| `PropDbCrash` | 1 process, kills, failing writes, 4 slots | `CommittedIsStored`, `AppendOnly` |
| `PropDbRemove` | 2 processes, 2 removals a session, 4 slots, 5 words, package types 0 and 1 | `FoundWasCommitted`, `NeverHidden`, `SessionIsolation`, `StringIndexInBounds`, `OwnStrings` |
| `PropDbRace` | 2 processes, both init; removals, kills, failing writes, fairness | `TypeOK`, `LockExclusion`, `CallsReturn` |
| `TransCrash` | 2 processes, kills of one, a full disk for the other, 3 commands; packages that share files and an identifier and every defective configuration; fairness | `TypeOK`, `FoundIsIndexed`, `OutcomeIsTrue`, `IndexUnderLock`, `CommandsEnd` |
| `TransTwo` | 2 processes, no kills, 3 commands | `DistinctIds` |
| `Nnpkg` | 2 locations; at one, where clients add up to 2 packages, kills between the steps of a creation and a commit and calls that fail; 4 packages: two versions of one, two that depend on each other, one with more dependencies than there is room for; 6 configurations; 4681 command lines; 2 transactions a process; fairness | `TypeOK`, `LookupIsRight`, `FoundAsAdded`, `ErrorIsTrue`, `ConfIsOfFile`, `ParserMeetsGrammar`, `ResultIsTrue`, `CallsEnd` |

Five runs expect a violation: each states what a comment, a message or a test
of the repository says, and TLC shows how the code breaks it.

| Run | Property | What happens |
|---|---|---|
| `PropDbLostUpdate` | `CommittedIsFound` | p2 takes the size; p1 opens, adds, commits and closes; p2 opens with the old size and writes over p1's property |
| `PropDbOrphan` | `DistinctNames` | killed between the append and the header; the next addition, of the same name, goes behind the orphan, and the one after that brings both into reach |
| `PropDbReuse` | `CommittedIsFound` | the scan of `propDbAllocProp` steps by 12 bytes and stores the property inside another one |
| `PropDbTwoInits` | `InitKeepsDatabase` | both inits find no database; the second truncates the first one's, with what was added to it |
| `TransBrokenDep` | `BrokenDepIsMissing` | the dependency is installed and reported as non-existent |

`CountsAgree` holds where nothing is removed; a removal and a reuse break it
(`propdb.c:398` counts the reused entry again), which no run repeats.

Bounds. `MaxSlots`, `MaxStrs`, `MaxProps` and `MaxRemoves` stop a session from
queueing more than the model's files hold; they are guards of `AddProp` and
`RemoveProp` only, so no other step is cut off. Three slots let an orphan, the
slot behind it and a third one exist at once, which the crash and lost-update
scenarios need; two processes suffice because the lock admits one and the
other's stale size is the only thing it can hold meanwhile. Words: a removal
and two additions move the allocation marker by at most three words, and
`PropDbRemove` has five. `MaxRuns` bounds the commands of all processes
together; three let two interleave and a third see what they left, and the
bounds of the database follow from it, so that they never block a command.
The runs of `Transaction` switch the deadlock check off, since the system stops
when all commands have run; every run of `PropDb` and of `Nnpkg` has it on.

`Nnpkg`. `MaxDeps` is 2 where the code has 60: with three dependencies a list is
over-full, with two it is full, and a lookup runs on behind it. `MaxSlots`
bounds what a client adds (`Room`) and when a command or a transaction may begin
(`RoomLeft`: no more slots than that, so that each may add one more). At the
first location it is two: a dependency and what needs it, or a pair that depends
on each other, fit, in either order, and so do an orphan, what is committed
behind it and what then brings the orphan into reach. At the second it is zero:
only a command or a transaction adds there, and only one package, which is what
the list of databases has to fall through to. `Fragile` is the first location:
there creation and commit can be cut off between any two steps, and calls that
write may fail; at the second they run through, and a process dies before or
after. Each exemption in the properties (`torn`, `lost`, `BegunAt`, a full list)
is reached in this instance, and TLC refutes each property without its own.
`MaxRemoves` counts the cleared slots of a database with those queued.
`FirstLines` are all lines of up to four words over eight (an action, an option
or an argument of either kind, a bare dash, an option that does not exist); they
are given only as long as no database exists, since afterwards only the lines of
`Commands` differ in what they do to one. `MaxRuns` is two: what the second
transaction of a process finds is what the first one left.

Fairness. Weak fairness of each process's steps inside a call: the scheduler
runs a process that can run, and no call waits for another process (`flock` is
called with `LOCK_NB`). Starting a call, adding, and being killed are not fair.
`CallsReturn` and `CommandsEnd` need no more. In `Nnpkg` the program that runs
is the only one, and a step of it is always enabled while it is busy: `CallsEnd`
(`[]<>~Busy`) assumes weak fairness of `Work`, and neither a client's next call,
the next program nor a kill is fair.

Every property has a seeded fault, a variant of one definition marked so in
the module, that makes its run fail.

## Proofs

The theorems assume what the modules assume of their constants (TLC evaluates
these assumptions in every run) and the hypotheses named below, which are
conditions on who uses the database. Otherwise they are about any number of
processes, packages, files and words and any bounds, and each is obtained from
an inductive invariant: it holds initially, every action preserves it (one
lemma per action or group of actions), and it implies the property.

| Property of a run | Theorem | Hypotheses |
|---|---|---|
| `PropDb!TypeOK`, `LockExclusion` | `TypeCorrect`, `Exclusion` | none |
| `OwnStrings`, `StringIndexInBounds` | `StringsAreOwned`, `IndexNeverOutOfBounds` | no init, no failing writes |
| `SessionIsolation` | `SessionsAreIsolated` | no init |
| `NeverHidden` | `NothingIsHidden` | no init, no kills |
| `CommittedIsStored`, `AppendOnly` | `CommittedStaysStored`, `OnlyAppends` | `OneAppender` |
| `CommittedIsFound` | `CommittedStaysFound` | `OneAppender`, no kills |
| `CountsAgree`, `ImplementsStore` | `CountersAgree`, `EngineImplementsStore` | `Unharmed` |
| `FoundWasCommitted` | `OnlyCommittedIsFound` | `Undisturbed` |
| `Transaction!TypeOK`, `IndexUnderLock`, `FoundIsIndexed`, `OutcomeIsTrue` | `TypeCorrect`, `LinksUnderLock`, `FoundHasLinks`, `OutcomesAreTrue` | none |
| `DistinctIds` | `IdsAreDistinct` | no kills, no failing writes |
| `Nnpkg!TypeOK`, `LookupIsRight`, `FoundAsAdded`, `ErrorIsTrue` | `TypeCorrect`, `LookupsAreRight`, `LookupsFindWhatWasAdded`, `LookupErrorsAreTrue` | none |
| `ConfIsOfFile`, `ParserMeetsGrammar`, `ResultIsTrue` | `ConfigurationIsOfFile`, `LinesAreParsed`, `ResultsAreTrue` | none |

"No init" is `Initers = {}` (init has run and is not run again), "no kills"
`Crashable = {}`, "no failing writes" `Faulty = {}`. `OneAppender` is one
process, no init and no removal; `Unharmed` adds no kills and no failing
writes; `Undisturbed` is no init, no kills and no failing writes with any number
of processes that add and remove. None is stronger than what the run of the
property fixes, and the code needs them: `PropDbLostUpdate` shows what a second
process does to what was committed, `PropDbReuse` a removal, `PropDbOrphan` a
kill, `PropDbTwoInits` an init beside the rest.

### The engine: `PropDb_proofs`

* `TypeInvariant` (`Spec => []TypeInv`), hence `TypeCorrect`
  (`Spec => []TypeOK`). `TypeOK` is not inductive: that the slot a session
  appends to exists, and that a string index is a cell, depends on the guards
  of `AddProp` several steps earlier. `SessionFits` carries that: at each label,
  the end of the file as the session knows it plus what it has still to append
  is within bounds, and a session about to store an entry has one to store.
  One lemma per group of actions (`TypeInvCreate`, `TypeInvOpen`,
  `TypeInvCalls`, `TypeInvClose`, `TypeInvLeave`).
* `Exclusion` (`Spec => []LockExclusion`): inductive given the type of `pc`.
  Each action either moves a process inside the set of labels that hold the
  lock, or changes lock and label together (`MoveExclusion`,
  `LeaveExclusion`).
* `StringsAreOwned` and `IndexNeverOutOfBounds`. `OwnStrings` is not inductive:
  that a new name goes to a cell no slot refers to needs the session to append
  at the very end of the table and every index in use to lie before it, also
  the index of an entry whose name is written and whose slot is not.
  `FreshStrings` says so; `LockExclusion` enters because one session's append
  would make another one's end stale. Kills, removals and reuse are included,
  and a removal that leaves words of an old entry behind does not matter, since
  only the first word of a slot is an index. With failing writes the statement
  is false: a name that was not written has an index past the end of the table.
* `SessionsAreIsolated`: with init done for good (`InitDone`), a step that
  changes a file belongs to a committing session and moves it
  (`WriterCommits`), and there is only one (`OneCommits`).
* `NothingIsHidden`. The strengthening `CountCovers` follows the size a session
  took, which may be old but never exceeds the file, through to the count it
  writes.

### One process: `PropDbAppend_proofs`

* `AppendInv`: a session that is open or commits appends behind all the file
  holds, of slots and of strings (`AppendsBehind`), and as long as none of its
  writes failed, what it has appended is stored (`StoresAll`). Two clauses, since
  after a failing write the first still holds and the second does not; together
  with `StoredKept` (files that only grow keep what is stored in them) they make
  `[]CommittedIsStored` and `AppendOnly` invariants through kills and a full
  disk. With `NeverHidden`, which kills would break, `CommittedIsFound` follows.
* `WholeInv`: without kills and failing writes the file has no slot that is not
  live, outside a commit the count equals the size, and in a commit the slots
  behind the count are the batch so far. `CountersAgree` follows.
* `EngineImplementsStore` is the refinement of `PropStore`. The mapping takes
  the entries below the count as `store`, the lock as `owner` and the queue of
  the session as `batch` (`RefStore` and `RefBatch` are their names in the
  proof). `OpenLock` is `Acquire`, `AddProp` is `Add`, `CloseHeader` is
  `Commit`, leaving is `Release`; everything else, including every store into
  the file behind the count, is a stutter. `GoodInv`, the conjunction of the
  invariants, gives `PossibleSteps`, so that only these actions remain.

### Several processes: `PropDbNames_proofs`

`OnlyCommittedIsFound` and `NamesAreDistinct`. Neither property is
inductive. `NamesInv` adds where the names in the file come from (`NamesKnown`:
a promise, or the additions the committing session has made so far) and what the
queues of every session know of a file that does not change while they are filled:
what it will add is not in the file (`AddsNew`), what it removes is where
it was found and nowhere else (`RemovesFound`), and nothing is in both
(`QueuesApart`). The lock enters through `NamesWrite`: the files change only
under the one session that commits.

### Transactions: `Transaction_proofs`

A transaction has no database steps of its own, so the proofs of the engine are
used, not repeated: `Dbp` is an instance of `PropDbNames_proofs` on the variables
of `Transaction`, with `Crashable <- Procs`, because a transaction that dies
on an incomplete package leaves the database as a killed process does.
`TransactionsUseEngine` proves that every step of a transaction is a step of
that instance or a stutter; the `Same...` lemmas say that the two instances
`Db` and `Dbp` define the same operators, and `DbAssumptions` that this use of
the engine satisfies its assumptions. The engine's type, lock and init
invariants follow (`EngineInv`).

* `ControlInv` ties the state of the transaction to the label in the engine
  (`At`): which steps of the engine can happen in which state.
* `IndexInv`: a name is in the string table, or queued for it, only if its files
  are in the index; in `WRITE_INDEX` each file is linked or still to link. It
  speaks of the table and not of the slots, because a name is written before
  its slot, and a kill leaves it there.
* `OutcomeInv`: only a transaction that is cleaning up after `ADDPKG` has
  something queued, its own package among it, and keeps it until the commit.
* `NamedStep`: the engine's `NamesInv` again, over the steps of the
  transaction. It could not be taken over as it is, since kills break it in
  general. A transaction dies only before it commits, where the engine's lemmas
  on leaving apply (`NamedLeave`).

### Programs: `PkgDb_proofs`, `CommandLine_proofs`, `MainConf_proofs`, `Nnpkg_proofs`

The three component modules prove that each step of their component preserves
an invariant; `Nnpkg_proofs` extends them all and proves that each step of a program
is such steps joined, hence `NnpkgInv`.

* `DbInv` (`PkgDb`). A database that is not torn is what was promised of it and
  what is being added to it (`Whole`, in `StoredInv`): every property in use is
  such a package as it is stored, each is there once, and all are counted except
  during an addition. The last clause is what a kill behind a property breaks; of a
  torn database only the first clause stays, with the packages that may be
  added in place of those promised. The queues hold what is not in the file
  (`New`), and a commit appends behind all properties, at an end that the count
  it will store has reached (`Ends`), also after a failing write, which moves both on.
  `ProcInv` says which call can be running. A lookup in progress is described
  frame by frame (`LookupInv`): each frame is the dependency the one below it is
  at and the dependencies it is past are found (`Frames`); the packages of the
  tree have all their dependencies in the tree (`Parts`); and in a database that
  is not torn, any set of packages that would serve the request has all that is
  on the stack (`Needed`), which is why the code may give up when one is
  missing; the databases it is past have no such set (`Misses`). The recursion
  of the code is thus treated by its stack, with no induction on depth, for
  cyclic dependencies too. `LookupIsTrue` states the result for the package
  databases by themselves.
* `ParserInv` (`CommandLine`). Between two words all the words before are right,
  and the values are those of the last that counts (`ReadSoFar`).
* `ConfInv` (`MainConf`). `After` is a recursive function of the number of
  values read. That it exists and that it keeps the last value of each field
  needs an induction, which `InductionOnSets` provides over sets of naturals, by
  the well-foundedness of `<`: the library's induction theorem takes a
  predicate, which the provers do not instantiate.
* `ProgInv` (`Nnpkg`): where a program is tells which command runs, that the
  configuration structure is of the file it named, that a transaction has
  exactly one database open and with what in its queue, that while it is closed
  its package is still to be written (`Unwritten`), written behind all that was
  there, or lost (`IsWritten`; all in `OwnInv`), that init is making the
  database that was configured, and that otherwise nothing has changed
  (`OutcomeInv`, whose `Outcome` is what holds from there to the exit).
  `ResultsAreTrue` follows. That no other property of the name was there comes
  from `DbInv`: `PkgAddPackage` looked only at what the header counts, and that
  is all there is unless the database is torn.

What the proofs corrected in the models. The alternatives of `ParseAction`
overlapped for an empty line, whose first word is unspecified; the default
configuration was not among the words; a parse was a fold over the file, about
which nothing could be proved, and is now `After`; and `Transaction` assumed of
its constants less than it used: that the markers of the string table are no
names, that `NoProc` is no process, and that there is a configuration to add.

### Only model-checked

The liveness properties (`CallsReturn`, `CommandsEnd`, `CallsEnd`): fairness and
ENABLED are beyond this prover. The five violations, which are
counterexamples. No other property of a run is without a theorem.

## Plan

1. Done: `PropDbFormat`, `PropDb` with failing writes, `PropStore`,
   `Transaction`, `PkgDb`, `CommandLine`, `MainConf`, `Nnpkg`; every safety
   property of a run proved, and the refinement of `PropStore`.
2. Proofs: `CommittedIsStored` for several processes whose sizes are not stale
   (no `OpenStat` while another has the database open), which separates the
   lost update from the rest.
3. `PropDb`: the two header stores apart, more than one page.

## Not modelled

* The properties of a package configuration file (`PkgReadConf`) one by one:
  they make one package in memory, of which `Transaction` has the outcomes.
* The path buffers and the encoding of file names in `indexMan.c`, the byte
  alignment of the string table and what its `munmap` takes away with it
  (`strtab.c:154`): bytes of one process's address space.
* `numProps` and `numFreeProps` are stored in one step, and the database fits
  one page (above).
* In `Nnpkg`, a name that is not written to the string table while its property
  is; `PropDb` and `Transaction` have it. Files that something else than the
  program removes.
* Out of memory; power failure; partial writes.
* The help text, which offers an action `remove` (`main.c:148`) that the table
  of actions (`main.c:35`) does not have: the command ends with an error.
* Translations, the build, the text of messages, the external libraries.
