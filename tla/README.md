# Parcrypt in TLA+

parcrypt is a client-server program that searches a range of secp256k1 private
keys for the one that belongs to a Bitcoin address. A Flask server keeps
*projects* and hands out *work units* (a unit is one block of a project's
keyspace); clients cut a unit into *items*, search the items on their GPUs and
report the unit when all its items are done.

This directory holds TLA+ modules for the parts where order, failure and
arithmetic decide whether a key is searched and a find is kept, TLC
configurations for small instances, and TLAPS proofs for instances of any size.

    tlc -config DBConcurrent.cfg MCBruteForceDB.tla     model-check one run
    tlapm BruteForceDBProofs.tla                        check the proofs

`PROJECT.json` holds the list of runs, the lines of the source every definition
stands for, the mutants that break each property, the findings and the hazards.

## 1. The system

| part | code | state | operations |
|---|---|---|---|
| project database | `server/BruteForceDB.py`, `BruteForceProject.py`, `BTCPubKeyHash.py` | SQLite tables ProjectInfo (`next_block`, `status`, `private_key`), WorkUnits, OutstandingWork | `create_project`, `request_work`, `report_work`, `cleanup_expired`, `set_private_key`, `get_status` |
| HTTP server, registry | `server/server.py`, `ParcryptProject.py` | dictionary `_projects` | load at start, `create_project`, `list`, `status`, `getwork`, `reportwork` |
| project script | `server/make_project.py` | none | one HTTP call |
| work unit | `parcrypt_lib/brute_force_work_unit.cpp` | `_available_work`, `_outstanding_work`, `_completed_work`, `_private_key` | `create`, `load`, `save`, `init`, `get_work`, `report_work`, `available_work`, `done` |
| work unit manager | `parcrypt_lib/work_unit_manager.cpp` | map of units, one mutex, directories `work_units` and `completed_work` | `load_work`, `add`, `get_work`, `report_work`, `get_completed_work`, `remove`, `total_work_available` |
| client threads | `parcrypt/main.cpp` | worker slots, worker states, flags | download, work manager, worker, upload and status threads; CTRL-C |
| HTTP client | `parcrypt_lib/http_client.cpp`, `server_common.cpp` | none | `get_work`, `report_results` |
| device | `modules/btc_pub_key_hash/*` | points and counters on the GPU, `_done`, `_private_key`, a step thread | `init`, `step`, `stop`, `progress` |
| kernels | `secp256k1.cl`, `public_key_hash.cl` | arrays of points | `init_public_keys`, `increment_keys`, `find_public_keys` |
| tuner, settings cache | `gpu/tuner.cpp`, `parcrypt_lib/settings_cache.cpp` | the configuration tried and the best so far; the grids found, per device kind | `run`, `tuning`, `exists`, `get`, `set` |
| integers and curve | `secp256k1/secp256k1.cpp`, `include/secp256k1.h` | none | words, fields, `invModP`, `addPoints`, `multiplyPoint`, `generateKeyPairsBulk`, parsing |
| addresses | `address/` | none | Base58, `from_public_key`, `verify_address`, SHA-256, RIPEMD-160 |
| other libraries | `util/`, `platform/`, `logger/`, `gpu/` | none worth a model | files, text, OpenCL and CUDA wrappers |

How they interact. A client's download thread calls `getwork`; the server runs
each HTTP request in its own thread with its own SQLite connection and no lock.
The unit goes into the client's manager and onto its disk. The work manager
thread takes items out of it and starts one worker thread per free GPU; the
worker drives a device, which steps in a thread of its own, and returns the item
to the manager. The upload thread polls the manager for finished units, calls
`reportwork` and removes them. The manager's mutex is the only synchronisation
between the client's threads on units.

What is hard here:

* concurrent `request_work` handlers that read `next_block` and write it back
  after another commit; three commits per request, with failures between them;
* units that expire while their client still works, go out twice and are
  reported twice or late;
* a crash of the client at any point, a file torn by it, items searched but not
  saved, a report whose answer is lost;
* a mutex locked by hand in methods that can throw;
* ranges of one key, ranges that fill their blocks exactly, 64-bit differences
  of 256-bit keys;
* detached worker threads whose states a status thread reads outside its lock,
  and a `main` that waits for workers by polling the length of their list;
* two requests that create one project, a server that dies while a project is
  made, a creation that fails and is entered in the registry all the same;
* carries and borrows through eight words, a signed 257th bit in `invModP`, one
  inversion shared by a whole batch of points, and kernels that are called dozens
  of times on the points of the search before it starts.

What makes each part correct: the *database* leaves no block out, forgets no
unit it handed out, keeps what it acknowledged and closes a project only on a
find; a *unit* is cut so that its shares cover it, with the same numbers every
time; the *manager and the client* report a unit only when all of it was
searched, with the key if it holds it, and never lose a unit; the client's *threads* use
nothing that has been deleted, and end; the *registry* holds every project that
was created, once; the *device* starts at the first keys of its item, tests every
key of it once and reports what it found; the *libraries* compute what their
names say.

## 2. The modules

| module | models | remarks |
|---|---|---|
| `WorkLedger` | what a project promises of its units: sent before finished, finished for good | abstract specification |
| `KeySpace` | the server's block arithmetic | operators |
| `BruteForceDB` | the tables and the two handlers, statement by statement | implements `WorkLedger` |
| `WorkUnitShares` | `BruteForceWorkUnit::init`: the loop that cuts a block into items | extends `KeySpace` |
| `BruteForceWorkUnit` | a unit in memory: the class's other methods as operators on a record | |
| `WorkUnitManager` | the manager's methods, the map, the disk, the mutex | extends `BruteForceWorkUnit`; no Next of its own |
| `Client` | the threads of the client, crash and restart | composes `WorkUnitManager` with the threads |
| `PointKernels` | what the OpenCL kernels do to a device's points, index by index | operators; a point is the key it belongs to |
| `HashDevice` | a device that searches one item, and the worker that polls it | extends `PointKernels` |
| `ClientThreads` | the lives of the client's threads, of `WorkerThreadState` and of the manager, CTRL-C | the work units of `Client` are a number here |
| `ServerProjects` | the registry `_projects` and the projects on disk | the tables of `BruteForceDB` are a number of rows here |
| `Uint256` | the loops over words of the host's integers, and the methods built from them | operators |
| `ModField` | addition, subtraction and multiplication modulo P and N, roots | extends `Uint256`; operators |
| `ModInverse` | `invModP`, one action per way through its loops | extends `Uint256` |
| `Curve` | the group, `multiplyPoint` and `generateKeyPairsBulk`, a bit at a time | extends `ModField` |
| `Encodings` | numbers, public keys and addresses as texts, and back | extends `Curve`; operators |
| `KeyHashing` | the padded messages that are hashed for an address | operators |
| `DeviceSetup` | how a device is made ready, with the kernels on points of the curve | extends `Curve`, instantiates `PointKernels` |
| `HostLibrary` | one call of a library function, or devices one after the other; reference definitions | composes the seven modules above |
| `MC*` | values of the constants for TLC | |
| `*Proofs` | theorems about the module of that name | |

**BruteForceDB.** SQLite makes a transaction atomic and nothing more, so each
transaction or read of a handler is one action, and actions of different
handlers interleave. `request_work` is `RequestBegin` (`cleanup_expired`),
`ReadProject`, `ReadExpired`, `InsertUnit`, `AdvanceNextBlock`, `Track`,
`Respond`; `report_work` is `ReportBegin`, `MarkOutstanding`, `MarkUnit`,
`SetPrivateKey`, `Acknowledge`. `pc`, `block`, `unit` and `found` are the
handler's program counter and Python locals. A table row whose status is
`"none"` is not there. `Lapse` is ten minutes passing for one unit; `Fail` is an
exception at any statement (a locked database, a full disk), and `Crash` the end
of the server process. Clients are external: they may report any work they
received, any number of times, as a client that misses answers does. They send
the key exactly if the range they searched holds it. Keys are abstracted to
blocks; `Client` is where a report is shown to be a searched one.

**WorkUnitShares.** One iteration of the loop is one `Share` step. The initial
states are every block of every project with keys up to `MaxKey`, also the empty
or one-key range past the last block that `request_work` answers with for a
reissued unit when no block is left, with every set of finished share numbers
that an earlier life of the unit can have left. `to_uint64` keeps the low bits
of the length (`Word`). `shares` is a history variable: the code keeps only the
items that are not finished, the model all of them, to say what numbers mean.

**Client.** A manager method holds the mutex from its first to its last line,
so it is one action. What threads do between methods interleaves. `proc` is the
process; `Crash` ends all threads and loses the memory, `Restart` reads the
directory, or finds a torn file and ends with an uncaught exception. The faults
are: a search that raises (`abort`), a worker that cannot get a GPU context
(`leak`), a report without an answer, taken by the server or not (`noAnswer`),
the answer `ServerError`, which the code ignores (`serverError`), a crash, a
write that fails or is cut off (`torn`), and `create_directories` or `rename`
raising in a manager method with the mutex locked (`throw`). The server is
external: it sends units (perhaps one that the client already has) and answers.
`stored` is a history variable: the units that `add` has put into a file. A unit
whose `add` threw is in the map and has no file (`MapOnDisk` says that this
happens with the mutex locked for good only), and a crash forgets it.

In `Client` an item that comes back as completed was searched as a whole, with
its key; what the device makes of that promise is `HashDevice`.

**HashDevice.** A device's thread calls `step` in a loop, and `btc_pubkey_worker`
polls it every second. The two share `_running`, `_done`, `_found` and
`_private_key` without a lock, so each statement of `step` that writes one is an
action (`RunKernels`, `ReadFlag`, `SetDone`, `SetKey`, `Advance`, `CheckEnd`,
`Loop`), and so is each look of the worker (`Poll`, `CheckRunning`, `Join`,
`ReportStopped`). The two kernels of a step are one action: they run in order on
one queue, and nobody else reads device memory. `TuneSingle`, `TuneDouble` and
`TuneHash` are the calls that the tuner makes on the live points before the
search; `Shutdown` is CTRL-C. `tested` is a history variable, the keys whose hash
was compared. In `PointKernels` a kernel with `dim` threads leaves its first
`dim` points alone (the loop back through a batch stops at `i >= dim`,
`secp256k1.cl:999` and `:1046`), and a batch with a point equal to the
incrementor is garbage afterwards, because the product of its differences is
zero. Left out: a copy of a 256-bit key is one write; when the worker has
returned the device is destroyed, and what its thread does to freed memory is
undefined: the model lets it go on alone, and no property reads what it does to
the item.

**ClientThreads.** What a thread does between two looks at shared state is one
action. `main` is `Configure`, `Watch` (it polls the length of `_thread_states`
without the lock), `Join` for its threads in turn, `DeleteManager`, `Return`.
A worker is `Create`, `AddThread`, `EndSearch`, `ReturnItem`, `RemoveThread`,
`DeleteState`; the status thread is `Lock`, `CheckItem` and `CopyState` for
every state (the pointer `_work_item` is read twice), `Unlock`, and `Report`,
which follows the copied pointers after the unlock. The download thread is
`DownloadLoop`, `Fetch`, `AddUnit`, the upload thread `UploadLoop` with `Collect`,
`Send` and `RemoveUnit`. A request may never end (state `hung`), because
`http_client.cpp:39-45` gives curl no timeout. `AddUnit` and `RemoveUnit` may throw
with the manager's mutex locked (`stuck`), and every action that needs it waits from
then on; `report_work` throws where nothing catches it, which ends the program
(`ReturnThrows`). Whether there is enough work is left open: `have_enough_work`
compares numbers that this module does not have. A use of what does not exist
any more ends the behaviour with `proc = "undefined"` and its `cause`; nothing is
claimed of what comes after. `freed` and `ended` record what was deleted and
which workers ended while the status thread held pointers.

**ServerProjects.** Flask serves every request in a thread, without a lock.
`create_project` is `CreateTest`, `GetProject`, `OpenInfo`, `WriteInfo`,
`MakeDatabase`, `InsertRow`, `Enter`; `Fail` is an exception that
`create_project` of `BruteForceProject` turns into an answer, after which the
project is entered all the same. A request for `*` looks at one project per step,
as the iteration over the dictionary does, and fails when the dictionary's size
changed or a project has no state. `Crash` leaves the disk, `Restart` is
`load_projects`, which raises for an empty `INFO.txt`, so that the server is
`dead`. `raced` is a history variable: names that two requests created at a time.

**Uint256, ModField, ModInverse, Curve, Encodings, KeyHashing.** The library with
words of `WordBits` bits, `NumWords` of them, a prime of the same form as the
program's (`P = M - (Base + C)`, as 2^256 - 2^32 - 977) and a curve of prime order
`N`. The loops over words are operators on arrays; the methods that only call them
are operators on values. `ModField` keeps the widths of the code's temporaries: the
two folds of `multiplyModP`, Barrett's quotient of `reduceModN`. `ModInverse` keeps
the signed words above the two cofactors. In `Curve` the base point of
`generateKeyPairsBulk` is fixed to the generator. In `Encodings` a digit of a
hexadecimal text is one word, and an address is a digit zero, a hash and a checksum;
the hash functions are functions of the configuration, so only what goes into them
is modelled (`KeyHashing`: byte for byte, against the definition of their padding).

**DeviceSetup.** `Begin` is `set_mem_usage`, `parse_target` and the checks of
`init`; `InitPoints` one of its 256 calls of `init_public_keys`; `PointsAreSet` the
sanity check and what follows; `Tune` one call of `Tuner::run`, with any time;
`KernelTuned` the end of `tune_kernel`. A kernel is an operator on all points:
thread `t` of `dim` works on `t`, `t + dim`, ... in one batch, whose differences are
multiplied, inverted once (zero for zero, as Fermat's power is) and taken apart:
`BatchInverses` is the chain of products and the way back, thread by thread. Next to
every point, `keyOf` says which key it should have by `PointKernels`;
`PointsAreKeys` (part of `DeviceIsSetUp`) shows the two equal, garbage apart. That
is what `HashDevice`, which knows keys only, takes for granted. One thing keys
cannot tell: garbage can have the x of the incrementor by chance, and then spoils
its batch like the incrementor itself. `WithoutStrays` gives these points up in
`keyOf`; the small curve of the run is where such a chance is not negligible.
`ItemAssumption` keeps a device below the group order: first key, points, and the
moves of tuning. The program does not check it; at the order, a point and what is
added to it can be opposite, and the kernels' sum is wrong.

## 3. The runs

| run | question | result |
|---|---|---|
| `db_concurrent` | two requests at a time, an expiry, a failure or crash anywhere: are blocks skipped or stranded, units lost, answers forgotten, when has a block two units, when does a finished unit come back; do clients see the ledger? | holds |
| `db_progress` | does the project get done although clients keep units for ever? | holds |
| `db_reissue` | is a finished unit a searched unit? | violated |
| `shares` | do the shares of every block cover it, with stable numbers, does the loop end; do the blocks cover the keyspace? | holds |
| `shares_one_key` | does every unit with keys give work? | violated |
| `client` | is only searched work reported, with its key, and does all of it get done, under two faults of any kind? | holds |
| `client_threads` | with two devices, CTRL-C and the end of any thread at any time: what is used outlives its users, but for workers that end at the wrong moment; does the program end, unless a request never does or the mutex was left locked? | holds |
| `server_projects` | two requests at a time, failed writes, crashes: is a created project there for good, and once? | holds |
| `host_library` | is the arithmetic exact, do inverses end, are keys' points their multiples, are texts read back, and is a device whose `init` returns at its first keys? | holds |
| `device` | on any small item, tuned or not: is every hashed key found, which keys are left out, is an aborted item really unfinished, does the worker return? | holds |
| `device_stripes` | was a completed item searched as a whole? | violated |
| `device_result` | is the key of a report the target's? | violated |

Bounds, and why they are enough.

* `db_concurrent`: two handlers are the smallest number that race, and every
  hazard of the list is a race of two. Three units let two requests insert units
  of one block and one of the other block, and one be given out again; two blocks let
  `next_block` go forward and back. One expiry and one failure can fall on any
  statement. `PoolSuffices` only keeps handlers from running out of unit ids,
  which are UUIDs. Handlers and ids are symmetric; the run has no liveness
  property, so symmetry is sound. The proofs remove all these bounds for every
  property of the run.
* `db_progress`: one handler, three units and three expiries, so a unit can go
  out three times more. The handler is alone because progress is not a question of
  interleaving: `db_concurrent` is about that, and its properties are proved for any
  number of handlers.
* `shares`: keys up to 9, block sizes 1 to 8, shares of 1 to 3 keys and a word
  of 3 bits give blocks that are full, cut off, of one key and past the end,
  shares that divide the block and that do not. The word is as wide as the
  largest block, as in the program, where a block has at most 2^56 keys. The
  proofs remove the bounds, and keep that every block fits the word.
* `client`: two units (three items, one of them with the key, and one item), two
  GPUs, three downloads (so one is a second copy of a unit, before or after the
  first was uploaded) and two faults. Two faults allow a crash after a torn file
  or after a lost answer. Its only bound on behaviour besides these is
  `MaxSends`, which makes the client run dry: hence no deadlock check. The proofs
  remove the bounds of its safety properties.

* `device`: three points, kernels of one or two threads and keys to 10 give items
  of one to four steps, items that end inside a step, items below and above the
  incrementor's key, grids of the two kernels that are equal, smaller and larger,
  and points that lag or are garbage. One call per kernel while tuning is enough
  to move the points. The proofs remove the bounds of its safety properties.

* `client_threads`: two devices and one unit of one item, which a worker that was
  aborted gives back: a worker can end while the status thread reports on it, and
  another one start meanwhile, in the same slot or the other. Two workers that are in
  the list at the same time need a second item (2.4 million states, too many for
  the liveness property); the proof of the safety property removes all the bounds.
* `server_projects`: two names, one of them the literal `name` that `get_project`
  looks up by mistake; two requests are the smallest number that race, and two
  failures and two crashes can spoil a project and the next attempt to make it.
  The proofs remove these bounds.
* `host_library`: three words of three bits (M = 512, P = 499) are the smallest
  numbers with a carry into and out of a middle word, and allow every number as
  argument. The curve y^2 = x^3 + 11 has 457 points, a prime number above M / 2 as
  in the program; below it lie keys that wrap. `multiplyPoint` is called with every
  key, lists of keys have every key next to a small one and one near the order. A
  device has one, three or four points, kernels of one to six threads, and times 1
  and 2, so every order of the configurations can be the fastest; the keys of
  one item contain the incrementor's. `RunsPerConfig` is 2 (10 in the code):
  enough for a point to be moved twice with one grid. The proofs remove the width
  and these bounds for every safety property.

Fairness. In `db_progress` a handler that has started goes on (a thread runs),
clients keep asking, and a unit is reported some day unless its ten minutes have run
out, since its client may be gone. Beginning a request is strongly fair because the
server starts a thread for every request: that others are served does not keep a
request out for ever. In `client` every thread loops, searches end, a request of the
upload thread ends, and a process that died is started again. The code does not
ensure that a request ends: curl has no timeout. `client` asks what happens when it
does, `client_threads` what happens when not. Nothing is assumed of the download
thread, so what a client has must get done without new work. `UnitsGetDone` allows
for the three states from which the code has no way back: the mutex left locked, a
slot lost to a failed GPU context, a torn file at start. Each is a listed hazard. In
`device` both threads run; a CTRL-C may never come. In `client_threads` every thread
that can take a step takes one some day, because the operating system schedules it,
and searches end (`WorkerReturns` of `device`). A thread in a request that never
ends, or behind a mutex that stays locked, has no step to take: `ProgramEnds` names
both (`NoAnswer`, `MutexIsLost`), and claims that nothing else keeps the program
from ending. Nothing is assumed of CTRL-C. In `host_library` the loop of `invModP`
runs.

### What the violated runs show

* `db_reissue`: `request_work` computes the key range from `block_num`, the
  project's next block, also when it gives out an expired unit
  (`BruteForceDB.py:129-170`). The second client of a unit gets another block's
  range (or one past the end); its report marks the unit done, and
  `get_status` counts its block as tested. The block is then never searched
  unless the first client still reports.
* `shares_one_key`: `for(...; key < _end; ...)` gives a range of one key no item.
  `done()` holds at once and the unit is reported as searched. The keyspace of
  the first puzzle preset is one key.
* `device_stripes`: the first stride of points never moves (see `PointKernels`).
  From the second step on `dim` of every `NumPoints` keys are not tested, and the
  item is completed all the same.
* `device_result`: `step` sets `_done` before `_private_key`. A worker that polls
  in between reports the find with the key zero, and destroys the device.

The properties of `device` carry conditions that say where else the key goes
wrong: `FoundIsTarget` asks for `~tuned`, because `init` sets the points anew after
tuning but not the result flag, so a match while tuning is reported with a key
of the first step; and for `NoLag`, because a first step with more threads than
the later ones leaves points behind that later move on, one step late, and a
match among them is reported `NumPoints` too high. `MissedAreFirstStride` also
asks for `NoZeroDifference`: a point left behind at the incrementor's own key
spoils its batch in the next step.

Limits found on the way that no run reports as a violation. Some are conditions
in the properties that hold:

* the number of blocks is computed from `end - start`, one less than the number of
  keys, so the last key of a keyspace that otherwise fills its blocks exactly is in
  no block (`BlocksCoverKeyspace` says that this happens exactly then, to no other
  key);
* a request that dies after its second commit (`BruteForceDB.py:151`) has advanced
  `next_block` and made a unit that has no row in `OutstandingWork`: the unit never
  expires, and its block is never searched. `NoBlockStranded` says that no other
  death does this (`stranded` records it);
* a unit that one request gives out again while its first client reports it can end
  as done in `WorkUnits` and running in `OutstandingWork` (the update at line 161
  does not test the status), expires and goes out once more. `FinishedIsRetired` says
  that only such a unit comes back (`contested`);
* a request that fails between the two updates of a report leaves the opposite,
  done in `OutstandingWork` and running in `WorkUnits`: it was answered with
  `ServerError`, cannot expire and is never counted;
* two requests that read the same `next_block` make two units of one block, and so
  does one that dies before it writes `next_block`; `OneUnitPerBlock` says that
  nothing else does (`disturbed` records the blocks), and the "number of
  completed blocks" of `get_status` counts units;
* a finished item stays in `_outstanding_work`, whose size `available_work`
  subtracts, so `total_work_available` is too small; when it is negative, the
  comparison with a `size_t` takes it for a huge number and the client downloads
  nothing while GPUs are idle. `UnitsGetDone` assumes no download, so what the
  client has still gets done;
* after CTRL-C the program does not end while a request to the server does not
  (curl has no timeout) or when a manager method has thrown with the mutex locked;
  `ProgramEnds` allows for both and for nothing else;
* after a `ServerError` the client removes the unit all the same
  (`ForgottenWasAnswered` says "answered", not "accepted");
* the status thread follows pointers after its unlock, and reads `_work_item`
  twice: a worker that ends in between leaves it with freed memory
  (`LifetimesAreOrdered` says that nothing else can);
* `run` "blocks until all threads have completed" (`main.cpp:408`), but a worker
  that has not yet entered the list when `main` looks at line 426, or has left it
  and not yet ended, is not waited for, and may use the manager after it was
  deleted. A device number equal to the number of GPUs passes the check of
  `main.cpp:508` and is used to index the list;
* a name that two requests create at a time can be given the *project called
  `name`* (`server.py:36` has quotes around the variable), or two rows; a creation
  that failed keeps its name taken and makes every request for `*` fail until a
  restart; a crash between `open` and `write` of `INFO.txt` keeps the server from
  starting; a report for an unknown project is answered `Ok`;
* `invModP` never returns for a multiple of P, and `generateKeyPairsBulk` calls it
  with one if the list holds the key N; `verify_address` and `is_base58` refuse
  nothing for length or characters (`address_hash.cpp:17` has no `return`,
  `base58.cpp:61` compares an unsigned number with zero), so the checksum decides;
* a target without a prefix leaves the compression uninitialised
  (`btc_pub_key_hash.cpp:46`): either value is possible in `Begin`; and the sanity
  check reads 100 points of a device, which fails if it has fewer.

## 4. The proofs

Assumptions: the named ASSUMEs on the constants (`NumBlocks` positive, `KeyBlock` a
block or -1, `NoUnit` not a unit, bounds natural; sizes and `Word` positive; an odd
modulus of the form the code relies on, words wide enough; finite sets of items).
The assumptions about the curve are named below. The sets of handlers, units, names
and devices are arbitrary. One condition is not a constant's assumption but a
hypothesis of the theorems that need it: `BlocksFit`, that every block size fits the
word that a share's number is kept in, as blocks of at most 2^56 keys
(`make_project.py:191`) do.

`BruteForceDBProofs` proves `TypeOK`, `NoBlockSkipped`, `IssuedIsTracked`,
`DoneOnlyWhenFound`, `AckedIsRecorded`, `OwnRangeUntilExpiry`, `NoBlockStranded`,
`FinishedIsRetired`, `OneUnitPerBlock` and that `Spec` implements `LedgerSpec`, all for
any number of concurrent handlers, failures and crashes.
None of the invariants is inductive. `NoBlockSkipped` talks of `next_block`,
which a handler overwrites with its stale copy plus one: what carries it is that
every block below a handler's *copy* has a unit (`Covered(block[h])`) from the
moment it was read, and that the handler has made the unit of the copied block
when it writes (`unitBlock[unit[h]] = block[h]` at `advance`). `IInv` adds these
facts per statement (`RequestOK`, `ReportOK`), and `TrackedIsCreated`. The other
half of the argument is `Persists`: no step takes back a row, an answer or a
conclusion, so what one handler knows survives every step of the others
(`OtherHandlers`); what the handler itself learns is `OwnStep`. `OwnRangeUntilExpiry`
needs one invariant more: as long as nothing has expired, no unit is given out a
second time, so the range in every answer is its unit's block. The refinement
follows from the invariant: only `Respond` adds to `sent`, only `MarkUnit` to
``finished`, and it marks a unit that was issued.

Three more invariants carry the properties about what races and deaths can do.
`KeptInv`: every block below `next_block`, and below a handler's copy of it, has a
unit with a row that can expire, or whose handler is about to write that row, or is
`stranded`. `RetiredInv`: a unit that is not `contested` is given out only while it is
not done and nobody is finishing it, so the update that makes its row running never
meets a done one. `AheadInv`: a block that is not `disturbed` is in one handler's hand
at a time, with the other handlers ahead of it, and its unit is below `next_block`
unless the handler that made it is about to write `next_block`; so no other handler
can insert a second one. The history variables name the race or the death in terms
of what the handlers hold when it begins, not of what goes wrong later.

`WorkUnitSharesProofs` proves `RangeIsShared` and `AvailableIsUnfinished` for
keys, blocks, shares and words of any size, from the invariant that the cursor
is at the end of the shares cut so far and that every key up to it is in one.
`Multiples` says that every share begins at a multiple of its block size, which
is why the number that is computed from its keys is the index it was cut at
(`NumbersAreStable`, `CompletedAreShares`), as long as that size fits a word.
`BlocksCoverKeyspace` needs arithmetic only: a key is in the block of its quotient.

`HashDeviceProofs` proves every safety property of `device`, for any number of
points, any grids and any range. `InRange` and `Order` say what the statements of
the two threads know: a step starts in the range, and the flag, `_found` and
`_done` go up in this order. `PointsOK` is the heart of `FoundIsTarget`: with `NoLag`
a point is garbage, or at the key its index stands for, or it stays behind *and
was tested*. So the step that raises the flag (`FlagOK`) raises it for a point in
place. A point that stays behind was hashed before, and if it were the target's
the flag would have been up then. `ScheduleOK` adds, for `MissedAreFirstStride`,
that a point left behind is never the incrementor's, and that every key before
the step was tested or left out.

`ArithmeticProofs` is about the integers of the host library, for words of any size
and any number of them. It has four parts.

* `invModP` returns an inverse if it returns, for any odd modulus (primality is
  not needed). The invariant is the pair of congruences
  `argument * (x1 + s1 * M) = u` and `argument * (x2 + s2 * M) = v` modulo P, with
  `x1` and `x2` in one number's width: the carries and borrows of the code are
  exactly what keeps it (`CarryOf`, `BorrowOf`), and a halving keeps it because P
  is odd (`Halved`). `Left` adds that the loop ends with `u` or `v` one.
* The five field operations are exact on reduced numbers. The only condition
  beside those on the modulus is `FoldAssumption`, a word that is large enough for
  two folds to suffice: 2^32 and C = 977 are, by far. `FoldTwice` bounds what is
  left after the second fold below 2 M, `Barrett` the error of the quotient by one
  subtraction.
* The loops over words: a carry or borrow that a loop hands on is what is missing
  between the words written so far and the sum or difference of the words read so
  far; a product has the rows added so far. Shifts, bits, comparisons, division by
  one word and powers follow the same pattern.
* The messages that are hashed: an octet of a list of words is found by its place
  (`FlattenSeq` of equally long words), so a block is its octets (`MessagesArePadded`).

A loop over words is a recursive function here, and its theorem an induction on the
number of words. The prover has no induction rule (its theorem has an operator as
parameter), so each induction is done on a *set*: the indices for which the claim
holds contain zero and with each its successor, hence all (`SetInduction`, from the
least element of the complement). That a recursive definition is a function with
its own equation is shown likewise, by the functions that satisfy it up to an
index (`Recursion`, `Iteration`).

`HostLibraryProofs` carries this over to the calls of `HostLibrary`, and proves
`ArithmeticIsExact`, `InverseIsExact`, `KeysAreMultiples`, `TextsRoundTrip` and
`DeviceIsSetUp`, all the safety properties of the run, for
numbers of any width, lists of keys of any length, and devices with any number of
points, threads, sizes to try and calls. Four assumptions are facts of mathematics
about the curve, which TLC evaluates for the small one and which hold of secp256k1:
`FieldAssumption`, P is a prime (every number but zero has an inverse);
`RootAssumption`, P is 3 modulo 4, so that the exponent (P + 1) / 4 of `sqrtModP` is
exact; `GroupAssumption`, the multiples of the generator are a group of N points
under the textbook law `GroupSum`; and `CofactorAssumption`, which only
`TextsRoundTrip` needs, they are all the points of the curve, and none has y zero.
What the proofs add is that the code computes that law: `DoubleIsSum` and `AddIsSum`
show that `doublePoint` and `addPoints`, with their reductions and their tests for
infinity and for opposite points, are `GroupSum`.

* `KeysAreMultiples`: after `i` bits, `sum` is the base times the key's low `i` bits
  and `d` the base times 2^i (`MultiplyInv`); a list has the same invariant point
  by point, with the table of doubled generators, and all slopes of a bit are
  inverted at once (`BulkInverts`). A slope is zero only where a key's low bits and
  the table's power are the same or opposite multiples (`MultipleSameX`): the first
  cannot be, the second is the key N and no other (`SameXOfBit`).
* `TextsRoundTrip`, numbers: a text is written from its last digit and read from
  its first. Every prefix of a written text spells the number without its last
  digits (`Spells`), so no step of a parser overflows, although the parsers do not
  test for it.
* `TextsRoundTrip`, points: the sign byte and x of a compressed key must give y
  again. The product of all units modulo P is also the product of their multiples by
  one of them, so the power P - 1 of a unit is one (`FermatThm`, from
  `FieldAssumption`); `powModP` returns the power (`PowModPThm`); so of a square
  `sqrtModP` returns one of the two roots (`SqrtModPThm`), which differ in parity
  because P is odd, and the sign byte picks the right one (`PointReadBack`). An x is
  refused exactly if no multiple of G has it (`PointOfXThm`).
* `GridsAreBest`: the least time of every configuration that was called is known, the
  tuner has the least of them, and the kernels that were tuned before this one
  have kept what was found (`GridInv`).
* `DeviceIsSetUp`: `PointInv` says that while points are set they are at the low bits of
  their keys; that while the device is tuned every point is at its key by
  `PointKernels` or garbage, and that key has moved by `n` at most once for each call
  made so far (`Moves`), so with `ItemAssumption` it is below the order; and that a
  ready device has every point at its key. `BatchIs` is the heart: one inversion
  and a way back give each factor its inverse, for any stride, unless a factor of
  the same thread is zero. `IncrementIs` and `InitPublicKeysIs` are the three
  kernels on top of it.

`ClientProofs` proves every safety property of `client` for any number of units,
items, GPUs, downloads and faults of every kind. What was accepted says nothing of
how it came about, so the invariant follows an item through everybody's hands: a
unit in memory is `Sound` (what is not left was searched, and the unit has the key
exactly if the item with the key is finished), and so is every file. An item in a
worker's hands is left and marked (`SlotsOK`), so its unit is not finished
(`HeldIsUnfinished`) and neither uploaded nor removed. A result in the upload
thread's hands is that of a unit which is still in the map and still finished
(`BatchOK`, `UploadedOK`): this is why the copy of the list, which the thread works
on without the mutex, does not go stale. `MapOnDisk` holds until a method throws;
with it, `ForgottenWasAnswered` also covers the unit whose `add` threw. That
`get_work` has a lowest item to give out is the lemma `Least`, from the well-founded
order of finite sets.

`ClientThreadsProofs` proves `LifetimesAreOrdered` for any number of devices, GPUs,
units and items. `WorkersAreListed` ties the list to the phase of each worker,
`PointersAreHeld` says what the status thread holds pointers to between which
statements, `MainJoins` in which order the threads are gone, and
`ItemsAreConserved` that no item comes back that was not taken, without which the
number of items would not stay in its type.

`ServerProjectsProofs` proves `CreatedOnce` and `CreatedIsKept` for any number of
projects, requests, failures and crashes. `MakersAreAlone` is what the missing
lock would have to give: a name outside `raced` is made by one request, and is not
registered meanwhile. `StagesAreOnDisk` says what the request has made so far, so
that a crash or failure at any statement leaves a prefix of it, and `RowsAreKept`
that the row is the last thing made.

Only model-checked: liveness, which is out of the proof system's reach: that `invModP`
returns and its result is reduced (`InverseEnds`), and the liveness of the runs
`db_progress`, `shares`, `client`, `client_threads` and `device`.

## 5. What is not modelled, and the plan

Not modelled for good: the rounds of SHA-256 and RIPEMD-160 (a function without a
property to check but its test vectors), the random numbers of
`generatePrivateKey`, JSON, curl, the OpenCL and CUDA wrappers, option parsing,
logging, the config file: no behaviour that interleaving or small instances would
show. The kernels' own 256-bit arithmetic is the host's, unrolled by hand; it is
taken to be exact.

Not modelled of the device: progress and the key rate, and whatever a thread does
in a device that is destroyed. Devices are set up one after the other in
`DeviceSetup`. Two at once share the settings cache, whose `get` and `set` touch the
map outside the mutex: the outcome of that race is not defined in C++ and has no
useful model; the listed hazard says so.

Next: a composition of `Client` and the database over a network that loses answers:
a project without expiry is done only when its keyspace was searched.
