# A verification project for libmcs

libmcs gives applications a configuration database: a *domain* (one per
application) of *sections* of `key=value` lines.  An application calls
`mcs_init`, makes a handle of a domain with `mcs_new`, reads and writes values
through it, and destroys it, which saves the domain.  The library dispatches
every call to a backend; the one it ships keeps a domain in a text file,
`$XDG_CONFIG_HOME/<domain>/config`.

This directory holds TLA+ models of that code, the TLC configurations that
check them on small instances, and theorems about them that TLAPS proves for
every instance.

## 1. The system

| part | source | state | operations |
|---|---|---|---|
| keyfile store | `backends/default/keyfile.c` 100-193, 384-452 | the handles (`mcs_keyfile_handle_t`), `config`, `config.tmp` | `mcs_keyfile_new` loads, `mcs_keyfile_destroy` saves |
| in-memory keyfile | `keyfile.c` 37-98, 195-210, 285-306, 366-382 | a tree of sections of lines, on the heap | create section, get, set, unset, free |
| listings | `keyfile.c` 553-589 | none | `mcs_keyfile_get_keys`, `mcs_keyfile_get_sections`: queues of copies |
| keyfile text | `keyfile.c` 100-169 | none | write callbacks, the `fgets`/`strtok` parser |
| typed values | `keyfile.c` 212-283, 308-364 | the process's numeric locale | get and set of int, bool, float, double |
| handle factory | `libmcs/mcs_handle_factory.c` | a handle's class, reference count and backend | `mcs_new`, `mcs_destroy`, dispatch through `self->base` |
| registry, initialisation | `libmcs/mcs_backends.c`, `mcs_init.c` | the dictionary `mcs_backends` | register, unregister, list, select, `mcs_init`, `mcs_fini` |
| directories | `libmcs/mcs_util.c` 90-129 | the file system | `mcs_create_directory` |
| string helpers | `mcs_util.c` 48-78, 141-204 | caller's buffers | bounded copies and concatenation |
| tools | `tools/mcs-*/*.c` | one handle each, or none | list backends; read, set or walk a domain, and destroy the handle |

How they interact: a tool or an application calls the factory, the factory
looks its backend up in the registry and calls through its table, the default
backend keeps the keyfile in memory and meets other processes in the file
system only.  There are no threads, no locks and no callbacks into the
application; what is hard is what happens *between* processes and *between*
system calls: two saves of one domain, a kill or a power loss inside a save, a
call that fails.  `PROJECT.json` lists the hazards line by line.

What makes each part correct:

- store: the configuration file is always one complete save; a save that
  starts lands; a failed one changes nothing; a handle sees the last committed
  configuration; nothing is left behind.
- in-memory keyfile: a set is read back and touches no other line; each heap
  block has one owner, and what the caller was given stays as it is.
- listings: every name once and no other.
- text: what is written is read back as it was.
- registry and factory: a handle keeps the backend that made it, `mcs_new`
  finds a backend between `mcs_init` and `mcs_fini`.
- directories and paths: when the call says so the path is there, in
  directories, which it is but for a file at its last name; the temporary name
  differs from the real one.
- tools: each comes to its end, and those that take turns see all that the ones
  before them were told.

## 2. Modules

`Keyfile` models the in-memory configuration as a value: the set of sections
and, for each section and key, what `mowgli_patricia_retrieve` answers.
`CreateSection`, `SetString`, `UnsetKey` and `GetString` are the functions of
the same names; `PatriciaAdd` keeps libmowgli's refusal to replace a key, which
is why `keyfile_set_string` deletes first.  `Prefixes(kf)` is the set of
keyfiles that a cut text of `kf` can parse to.

`KeyfileHeap` is the same handle one level down: the sections, their names and
their values are blocks that `malloc` hands out, lowest first in the run, so
that a block freed too early soon belongs to somebody else.  `New`,
`LoadSection`, `LoadLine` load; `Set`, `Unset`, `Get`, `Destroy` are the calls
of those names down to each `strdup` and `free`; `GetSections` and `GetKeys`
start a listing, `CollectSection` and `CollectKey` are one call each of
`keyfile_collect_lines_cb`; `FreeFoo`, `FreeGroups` and `FreeKeys` are the
caller, which frees what it was given as `mcs-walk-config` does.  `Contents` is
the `Keyfile` the blocks stand for.

`KeyfileStore` is the store: `pc[h]` is the point of `mcs_keyfile_destroy`
handle `h` has reached, and every system call is an action.

| action | code |
|---|---|
| `New` | `mcs_keyfile_new`, with `keyfile_open` (an `fopen` that fails looks like no file) |
| `Set`, `Unset` | `mcs_keyfile_set_string`, `mcs_keyfile_unset_key` |
| `OpenTmp`, `OpenTmpFails` | `mcs_keyfile_destroy` up to `fopen(config.tmp, "w+b")`, and its failure |
| `Spill`, `SpillFails` | `fprintf` when the buffer of stdio is full |
| `Fsync` | line 188 |
| `Fclose`, `FcloseFails` | line 190, with the text still buffered, then `keyfile_destroy` |
| `Unlink`, `Rename` | lines 443, 444 |
| `Kill`, `PowerLoss` | the end of a process, of the machine |
| `Writeback`, `WriteDirectory` | the kernel's write-back of a file, of the directory |

Files are names with what a reader finds (`file`) and what the disk has
(`disk`).  The code syncs a file, and never the directory: what `OpenTmp`,
`Unlink` and `Rename` do to the names reaches the disk when the kernel writes
the directory, and until then a power loss may undo it.  `past` has what `disk`
was before each of these changes; `PowerLoss` leaves one of those or `disk`, so
that the last changes are lost together, as those of a journal.  A file is the keyfile its text parses to, whether that is the
complete output of one save (`whole`), and whether two saves had it open at
once (`shared`, after which anything may parse out of it).  Descriptors follow
the inode: `fd[h]` is the name of the file `h` writes to, and moves with
`rename`.  `HasThread` says that the saves of one process exclude each other,
because a process calls the library from one thread.

`ConfigDB` is the abstract specification: a database and private copies, a
close commits a copy whole and in one step or drops it.
`KeyfileStoreRefinement` maps the store to it; the commit point is the unlink.
`KeyfileHistory` adds a memory of what went wrong (`blame`), so that a bad
state of the files can be required to have a cause, and of each handle whether
it was edited (`edited`) and whether the configuration is another than the one
it has loaded (`behind`), so that a save of a handle nobody edited can be.  `MCKeyfileStore` and
`MCKeyfileHistory` name the instances.  `KeyfileProofs` and
`KeyfileStoreProofs` hold the theorems, those about `Tools` included.

`KeyfileLoad` takes `New` apart: `LoadOpen` is the `fopen` of `keyfile_open`,
`LoadRead` the filling of stdio's buffer, as often as it takes, `LoadEnd` the
end of the file.  A reader keeps the inode it has opened when a save takes its
name away (`rd`, `inode`), and `seen` is what it has read parts of.

`Tools` composes `KeyfileLoad` with the five `main` functions: `Start`, then
`ListBackends`, or `Make`, `Read`, `Made` (the steps of `mcs_new`), `Ask` or
`Tell`, `Unref` (each step of the destroy), then `Finish`.  Each process runs
one tool after another; two may run at once.  `told` is what the domain should
hold by what the tools were told, while `calm`: no two have run at once and no
call has failed.

`KeyfileText` is the text of the file: `Save`, `WriteSection` and `WriteLine`
print it (in any order, since the order of a patricia tree is its own),
`Open(n)` starts to read the first `n` characters of it, and `ReadHeader`,
`ReadLine`, `ReadNothing` are the branches of the loop of `keyfile_open`, one
`fgets` each, with what `strchr` and `strtok` answer.  After a load the next
handle saves what it has read, and so on.  `Header` and `Line` are the two
formats of `fprintf`.  `Printable` says which keyfiles
the format can hold.  `TornIsPrefix` ties the module to `KeyfileStore`: what a
cut text parses to is one of the keyfiles `Keyfile!Prefixes` allows.

`Values` is the typed calls over one line: numbers are `m * 10^e`, a text is a
number with the form `%d` or `%g` gives it and the character before its
fraction.  `put` remembers what was set, `locale` is the application's.
`Number` gives every number the one form in which `m` ends in no zero, and
`Nearest` rounds to so many digits.  A float or a double is a number of so many
decimal digits: what their binary form rounds is left to the C library.  A
float has a range (`FloatMin`, `FloatMax`): `Narrow`, the assignment of
`keyfile_get_float`, makes what is above it infinite and takes digits of what
is below it.

`Paths` is the file names: strings are sequences of characters, `Strlcpy` and
`Strlcat` cut at `PathMax`, `Strndup` takes the parts of a path.  `New` (with
`Created`, the directories that `mcs_create_directory` leaves behind) and
`Destroy` are one step each here, over the files and directories those names
stand for.  A domain may lie below another one, as a domain with a `/` in its
name does.  Its directory then may be named like the other's file (`InTheWay`)
or temporary file, which stops that one's saves, each in its own way.
Two strings are two files: `a//b`, `./a` or links are left out.

`Directories` is `mcs_create_directory` run by several processes, one `mkdir`
per step: `MkdirMakes`, `MkdirFinds` (EEXIST), `MkdirRefused` (the way is not a
directory) and `MkdirFails` (any other error) for both calls of `mkdir` in the
code, `Return` for its end; `happened` remembers the faults.  `Rmdir` is somebody else's.
The store does not depend on what it answers: `mcs_keyfile_new` ignores it.

`Library` is the registry and the handles of one process: `McsInit`, `McsFini`,
`Register`, `Unregister`, `New`, `Set`, `Destroy` are the functions of those
names, `Get` and `Set` standing for the dispatch of all typed calls.
`accepted` is what owners of backends believe, `lost` remembers the names of
which a registration was lost, to a second backend or to a second `mcs_init`,
until nobody has them; `from` and `base` of a handle are the backend that made
it and the one its calls go to.  A backend's `db` is,
for the keyfile backend, what `ConfigDB` calls its database.

How the modules meet: `Library`'s `New` and `Destroy` through the keyfile
backend are `KeyfileStore`'s `New` and its steps from `OpenTmp` to `Rename`;
`KeyfileStore` works on `Keyfile` values, whose way through a file is
`KeyfileText`, whose strings `Values` makes and reads; `Paths` and
`Directories` say what the store's two names `Loc` and `Tmp` are and where
they lie.

## 3. Runs

| run | instance | shows |
|---|---|---|
| `OneApp` | 2 handles in 1 process, 2 values; `fopen` of the temporary file may fail | `SaveInv`, the inductive invariant; the configuration file is never torn; the store implements `ConfigDB`; a save lands |
| `TwoProcs` | 2 processes, 1 value, every fault | types; a torn file needs two saves at once, a failed write or a power loss; a missing one needs two saves at once, a death between unlink and rename, or a power loss that takes a rename back; a handle nobody edited changes the configuration only if its load failed, fell into another save's window, or was overtaken by one |
| `Texts` | every keyfile of one section with no line or one in strings of up to 3 characters of `[ ] = #`, newline, `a`; keyfiles of 2 sections of up to 2 lines; every file of up to 5 characters after a header; cut everywhere; a buffer of 5 | what is read is what was written exactly when the keyfile is `Printable`; a torn text parses to what `KeyfileStore` assumes; what is loaded from any file can be saved and loaded again |
| `Mkdirs` | 3 processes, paths of 3 names, 2 of them shared; failing calls, removals | an answer of 0 is a path of directories, or one that ends in a file; nobody fails because of another; every call is answered |
| `Registry` | 3 backends, 2 of one name, 2 handles, `mcs_init` and `mcs_fini` at any time | the registry is what owners believe of every name, but those that were registered twice or before another `mcs_init`; a handle is saved where it was loaded |
| `TypedValues` | `%g` to 2 digits, floats of 3, doubles of 4, 14 mantissas, 12 exponents, 2 locales; numbers beyond both ends of a float | values are read back to the digits written, in any locale; no drift, for floats within their range |
| `FileNames` | `PATH_MAX` 9; names with room for the suffix, for just the suffix, for one character of it, for none; domains named like the file of another, and one that is cut to its temporary file | what is saved is found exactly if the name fits and nobody is in the way; a save that cannot write its temporary file takes nothing away; nobody changes what another domain reads; nothing else is left |
| `Heap` | 8 blocks, 2 sections, 1 key, 2 values, any file to begin with | every block has one owner; a listing has every name once; what was handed out stays; the blocks act as a `Keyfile` |
| `Tools` | 2 shells, any interleaving of 3 of the tools, failing `fopen`s | tools that take turns tell each other everything; a load reads one save unless saves overlap; no temporary file stays; every save and every tool ends |

Three runs end in a violation, each of a promise of the documentation:

| run | what happens |
|---|---|
| `PowerLost` | the data is synced before it is written: a configuration with a section is saved, and a power loss after the rename leaves an empty file in its place |
| `QueryTool` | a handle that only reads is made while another process is between unlink and rename; its destroy saves the nothing it has read |
| `FileInTheWay` | a file stands where the last directory of a path should be: `mcs_create_directory` answers 0 all the same (EEXIST, line 119), although its comment has it create a directory |

Where the code promises less than one would expect, and no run ends in a
violation, a property says exactly how much it does promise:

- when two processes destroy handles at once, the second can unlink what the
  first has renamed and find nothing to rename itself (`GoneIsExplained`);
- a full disk leaves a cut configuration, or one with a hole, although
  `keyfile_write` answers `MCS_OK`; a death between unlink and rename leaves
  none at all, nor does a power loss later, when the disk has got the unlink
  and not the rename (`TornIsExplained`, `GoneIsExplained` name these causes
  and no others; `LastSaveRecoverable`: after a death the data is under the
  temporary name);
- a handle whose `fopen` failed, for whatever reason, saves nothing over the
  configuration, and one that has been overtaken undoes the other's save
  (`QueryIsExplained`);
- a key, section or value the format cannot hold, the empty value among them,
  is accepted and read back as something else (`RoundTrip`, `Printable`);
- `%g` keeps six digits of a double (`ReadsBack`), and a double that is read as
  a float and set again stays the same only if a float can hold it (`NoDrift`:
  of 1e300 `keyfile_get_float` makes inf, and of 1e-44 other digits);
- a file name that fills its buffer loses the suffix `.tmp`, and what is saved
  is unlinked at once (`SavedIsFound`, `Fits`);
- a domain below another one's configuration file, or whose own file is the
  directory of another, is not saved, and nobody is told; in the second case
  its temporary file stays (`SavedIsFound`, `InTheWay`);
- a domain whose directory is named like another's temporary file stops the
  saves of that one: the old configuration stays, and nobody is told
  (`SavedIsFound`, `OthersLeaveIt`);
- a file at the last name of the path is all that `mcs_create_directory` takes
  for a directory, not one further up (`ZeroMeansThere`);
- a backend whose name is taken is answered `MCS_OK` and not registered, and
  takes the other one away when it is unregistered, and a second `mcs_init`
  forgets all that were registered (`RegisteredIsListed`);
- a load that reads while two saves overlap may take parts of both
  (`LoadsOneSave`), and tools run at once may undo each other (`InTurn` speaks
  of tools that take turns).

Nor does `mcs_init` load backends from a plugin directory, as its comment
(`mcs_init.c` 51-52) says: it registers the keyfile backend only.  And
`MCS_BACKEND`, of which the README (44-46) says that exporting it selects the
backend, is read nowhere: `mcs_backend_select` answers a constant, `Select`.

**Bounds.**  Two handles are enough for every race of the code: the files are
two, a save touches them through one descriptor, and what a third save could
do, one of the two can do by being made again (handles are made again without
bound).  One section and one key with two values tell an old configuration
from a new one, and the section without its line is a part of a text that
differs from all of it and from nothing.

`TwoProcs` is bounded by two constraints.  `SomethingToLookFor` stops at states
that have a cause for a torn file and one for a missing file in `blame`: the
properties of `KeyfileHistory` are true from there on by definition, and types
are checked beyond in `Tools`, and proved.  `FewWait` lets two changes of names
wait for the kernel, a save's unlink and rename: with more of them a power loss
goes further back, to what an earlier one could leave as well.
`HandleSymmetry` swaps two handles that are each alone in a process; only safety
properties are checked under it.  There is no counter to bound.

`OneApp` leaves kills to `TwoProcs` and to the proofs: a killed save does not
land, and the abstract database knows no kill.  It runs with the history
variables of `KeyfileHistory`, which take no part in what the store does, and
`Tools` meets the saves that overlap, which `TwoProcs` does not follow further.  In `Tools` one key and one value
tell what was told from what was not, and of the tools one lists, one asks and
one sets: `mcs-query-backends` takes the steps of `mcs-info`, and
`mcs-walk-config` those of `mcs-getconfval`, so `Installed` names one of each.

Heap: eight blocks hold a handle, both sections with their names, and three
strings, of values or handed out; a call begins only when `malloc` has what it
needs (`Room`), so that out-of-memory, which the code does not look at, is left
out.  The file may hold any keyfile at the start and is whatever was saved after that.

Texts: the parser looks at the first character of a piece, at `]`, `=` and the
newline only, so one letter stands for all others, and strings up to 3
characters with a buffer of 5 meet each of the limits `Printable` names from
both sides.  `%g` to 2 of 4 digits, and exponents from -8 to 3, meet both
switches of its format and every carry, and the range of a float, from 12e-6 to
99e3, leaves numbers out at both ends; the six and fifteen digits of the code
change only where they lie.  Paths: what counts is whether a suffix fits its
buffer whole, in part or not at all, and which names coincide; the five bases
have each of these, and a cut name that coincides as well.

**Fairness.**  `FairSpec` (`HFairSpec` with the history) is weak fairness of `SaveStep(h)`: once
`mcs_keyfile_destroy` has begun it is straight-line code that waits for nobody.
`Directories!FairSpec` is weak
fairness of the loop of `mcs_create_directory`, for the same reason.
`Tools!TFairSpec` is weak fairness of each tool's next step, as a tool that has
been started waits for nobody, and of `Made`: a load may read any number of
times in the model, but its file has an end.  No tool need be started.
Nothing is assumed of the application: no handle need ever be destroyed.

**Deadlock** is checked in every run: a handle that is closed can be made again,
and a tool that has ended started again.

## 4. Proofs

- `KeyfileProofs`: the operations keep a keyfile well formed; `SetThenGet`,
  `UnsetThenGet`: what is set is read, what is unset is not, and every other
  line stays.
- `KeyfileStoreProofs!TypeCorrect`: `Spec => []TypeOK`, with every fault.
- `KeyfileStoreProofs!NeverTornInOneProcess`: if all handles are of one
  process, writes do not fail and the machine stays up (`Sheltered`), then
  `Spec => []NeverTorn`.  `NeverTorn` alone is not inductive: a
  rename moves the temporary file, of which it says nothing.  `SaveInv` adds
  that one save runs at a time, that its descriptor is on the temporary file
  and nobody else's is, and that the file is complete from `fclose` to
  `rename`; `SavesTakeTurns` states it.  Kills and failing `fopen`s are allowed.
- `KeyfileStoreProofs!NothingLeftOver`: without kills and power losses, a
  temporary file belongs to a save that runs (`Owned`), for any processes,
  overlapping saves and failing writes included.
- `KeyfileHeapProofs` is about one handle with any finite heap, and any
  `malloc` that answers a free block: `HeapTypeCorrect`;
  `NoBlockIsLost`, which is `OneOwner`; `ListingsAreComplete`;
  `StringsAreTheCallers`, the action property `HandedOutStays`; and
  `BlocksActAsKeyfile`: a step of the blocks is a call of `Keyfile` or changes
  nothing that one could tell (`ActsAsKeyfile`).  `OneOwner` counts
  owners, and a count is no help in telling what a `free` leaves behind.  `HInv` has
  instead, for each block in use, the one place that leads to it (`Sound`,
  with `GivenOnce` for what the caller holds): two places that lead to one
  block are the same place, so what is freed through one is not reached through
  another.  `Phases` and `Loading` say what a handle owns between its calls,
  and `ListingHasRoom` that a listing that runs cannot run out of blocks, which
  is what makes it complete.
- `KeyfileTextProofs` is about texts of any characters that include the five
  the parser knows, and buffers of any length above 1.  `LoadsCanBeSaved` is
  `LoadedIsPrintable`: whatever the file, what has been read of it at any
  moment meets every rule of `Printable` but the one about the first character
  of a key (`Readable`), and that one too as long as no piece began with `=`
  (`StartsPlain`).  `WhatIsWrittenIsRead` is `RoundTrip`, both ways: from
  `SavingInv`, the text printed so far is a row of headers and lines in some
  order (`LaidOut`), each line below its section, with nothing of the keyfile
  missing but what is still to print; and from
  `LoadingInv`, the reader stands at the beginning of an item of that row, or at
  the newline that a line as long as the buffer has left over (`At`), and has
  found exactly the items before (`Found`, `Same`).  `PieceIs` is the heart of it:
  what one `fgets` takes of such a text is one item, one newline, or the end of
  a file that was cut.  The positions hold even where `Printable` fails by its
  first characters only, which the other direction needs.
  `WhatIsTornIsPrefix` is `TornIsPrefix`, from the same invariant: an item the
  file ends in is skipped or loses the end of its value (`OneCut`).  It is the
  lemma on which `KeyfileStore`'s torn files stand.
- `KeyfileStoreProofs!NobodyElseTears`, `NobodyElseLoses`, `LastSaveStays` and
  `QueriesAreExplained` are the properties of `KeyfileHistory`, for any
  processes and every fault.  The invariant `HInv` has one conjunct per set of
  events that have not happened: without overlaps one save runs at a time, with
  a temporary file of its own (`Alone`); without failed writes and lossy power
  losses as well `SaveInv` and `NeverTorn` hold again; the two halves about a
  file that has gone rest on those (`Present`, `Recoverable`); and as long as
  nothing has happened, a handle that was not edited and has not fallen behind
  holds the configuration there is, through its load, its text in the
  temporary file, and up to its commit (`Current`).
- `KeyfileStoreProofs!ToolsTypeCorrect`; `LoadsAreWhole`, from `Fresh`: what a
  reader has seen is the text of the inode it has open, under its name or
  without one; and `ToolsTellEachOther`, by an invariant with a conjunct for each
  point a lone tool can be at: before its load the file holds `told`, after it
  the handle does, and the save carries it back through the temporary file.
  `ToolsLeaveNothing` is `NoLeftover` for tools: `Owned` of the store, and
  a handle that is being loaded is closed (`OInv`).
- `KeyfileStoreProofs!StoreImplementsConfigDB`: if all handles are of one
  process and only the `fopen` of the temporary file may fail
  (`Undisturbed`), `Spec => ImplementsConfigDB`.  The invariant gets `Freed`
  on top (a handle that has written its file holds no keyfile), and each
  action maps to an action of `ConfigDB` or to a stutter.
- `DirectoriesProofs!AnswersAreTrue` and `CallersDoNotHurt`: until somebody
  removes something, an answer of 0 means that the path is there, in directories
  but for a file at its last name, and an answer of -1 has a file on the way (or a failed `mkdir`) for its reason.  The invariant says of a call that is
  still running that the names it has dealt with are there, all but the last
  as directories (`Reached`): another caller's `mkdir` keeps it true because
  nodes stay what they are (`NodesStay`).
- `LibraryProofs!RegistryTellsTheTruth`: `RegisteredIsListed` is not inductive, as the delete is by name;
  `Agree` adds that a name stands for a backend that has it.
- `LibraryProofs!SavesGoHome`: from `KeepsMaker`, a handle's table is its
  maker's.

- `PathsProofs` is about any `PATH_MAX` above 1, any domains with different
  bases, and any names `Config` (one `/`, in front) and `Suffix` (no `/`).
  `SavedFound` is `SavedIsFound`, `OthersLeave` the action property
  `OthersLeaveIt`.  Of the names it is enough to know where their last `/` is
  (`Below`): a file or temporary file that fits lies right below the directory of
  one domain, so no two domains share one (`NamesApart`), and a name that does
  not fit is longer than every one that does.  `DirsInv` says that whatever is
  in the way of a domain stays in the way (`InTheWayStays`), and that otherwise
  an open handle's directory is there; `FilesInv` that no file is there but the
  configurations and the `Leftover` ones, each with what was saved last.
  `TemporaryIsApart` is what `KeyfileStore` assumes of `Loc` and `Tmp`: they are
  two names exactly if the path fits.
- `ValuesProofs` is about any integers as mantissas, exponents and ints, and
  any `Sig <= FloatDigits <= DoubleDigits`, and any range of a float.
  `TypedValuesAreRead` is
  `ReadsBack`, `RewritingChangesNothing` is `NoDrift`.  The invariant
  (`LineInv`) only ties the line to what was set last, and what was set as a
  float to its range; the work is in what the
  line then says.  Every number has one form (`NumberIs`, `PlainIsNumber`); a
  number of few digits is the only one nearest to it (`NearestOfShort`); and one
  that has been rounded to few digits has few digits, also where a carry makes
  it a power of ten (`NearestIsShort`).  So each call that reads finds the
  number that `%g` has written, and writing that again writes the same line
  (`LineIsShort`).  That there is a function `TenTo` at all, that it is what its
  definition says, and its laws are inductions: over a set of numbers, by its
  least element (`LeastIs`, `AllOfNat`).

Every assumption the proofs rest on is an `ASSUME` about the constants, which
TLC evaluates in each run, or the named hypothesis of the theorem
(`Sheltered`, `Undisturbed`); that all handles are of one process and that the
machine stays up are necessary, as `QueryTool` and `PowerLost` show.  Of the
heap they are that there are finitely many blocks and names; of the text, that
keyfiles and files are made of characters; of typed values, that a float has no
fewer digits than `%g` writes, and a double no fewer than a float, as with the
6, 6 and 15 of the code.

Every invariant and every action property that a run checks is stated by a
theorem.  Only model-checked is liveness under fairness and `ENABLED`
(`SavesEnd`, `SaveLands`, `ToolsEnd`, `Answered`), which are out of the prover's
reach.

## 5. Not modelled

- Calls of the library before `mcs_init`, and of the registry after `mcs_fini`:
  they use a dictionary that is NULL or freed.
- Memory that runs out: the code looks at no `malloc` but that of `mcs_strndup`.
- The tools' check of their arguments, which ends before `mcs_init`, and their
  printing; so `mcs-getconfval`'s print of a value it did not get is left out.
- `mcs_strcasecanon`, letter by letter: `CanonName` says what it makes of a name.
- libmowgli (patricia trees, objects, queues) and the C library are modelled
  from how the code uses them, and marked external in `PROJECT.json`; the nodes
  of trees and queues are not blocks of `KeyfileHeap`.
- Other orders in which a disk can get the changes of names than that of the
  calls: a journal keeps it.  And data that is written back to a file whose
  name a power loss then takes back: the image in `past` has the data the file
  had when the name changed.
- Binary rounding, the digits of denormal floats (`Narrow` allows any number of
  them), and an infinity or a NaN that is set in its turn.
- Errors of the file system beyond a failing `fopen`, a failing write and a
  `rename` that finds nothing; file modes; Windows.
- The public header, which holds declarations only; build system and packaging.

## 6. Plan

In this order, the most important behaviour first:

1. done: `Keyfile`, `KeyfileStore`, `ConfigDB` and the refinement, with their
   proofs; `KeyfileHistory`; `KeyfileText`; `Directories`, `Library`, `Values`,
   `Paths`.
2. done: `KeyfileHeap`, with the listings and the caller's side; `KeyfileLoad`
   and `Tools`; domains below domains in `Paths`; the proofs of
   `KeyfileHistory`'s explanations, of `NoLeftover`, and of the tools' loads and
   turns.
3. done: the proofs of `KeyfileHeap`, down to `ActsAsKeyfile`, of
   `KeyfileText`, down to `TornIsPrefix`, of `Paths`, and of `Values`.
4. An `Application` module that composes `Library` with two keyfile databases,
   shown to implement an abstract configuration service.
