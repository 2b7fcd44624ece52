# Verification of os-concurrency-cryptography

TLA+ models of the concurrent and stateful programs of this repository, TLC
configurations that check them on small instances, and proofs, checked by
TLAPS, of what holds for every instance. Paths below are relative to `src/`.

- [1. The system](#1-the-system)
- [2. Modules](#2-modules)
- [3. Runs](#3-runs)
- [4. Fairness, atomicity, data races](#4-fairness-atomicity-data-races)
- [5. Proofs](#5-proofs)
- [6. Where code and comments disagree](#6-where-code-and-comments-disagree)
- [7. What is not modelled](#7-what-is-not-modelled)
- [8. Plan](#8-plan)

## 1. The system

The repository is a collection of independent C programs. They share no code;
each is a component of its own.

### Garage simulator (`garage-simulator/`)

The largest program. K_CARS vehicles pass through an institute that holds at
most N_CAPACITY of them.

| Part | State | Operations |
|---|---|---|
| `main` (main.c) | semaphores, `pq`, `cars[]` in its frame | initialise, create three threads, wait K_CARS times for `done_sem`, return |
| creator (threads.c:27) | loop count | per vehicle: fill `car_entry`, create a detached `car_thread`; if that fails, post `done_sem` in its place |
| manager (threads.c:58) | its local `car` | wait for `queue_sem`, wait for `slots_sem`, `pq_pop`, post the vehicle's semaphore |
| monitor (threads.c:82) | — | every 0.1 s: lock the queue, raise the priority of overdue vehicles, sort, unlock |
| priority queue (queue.c) | array, size, mutex | `pq_insert`, `pq_pop`, `insertion_sort` |
| `car_thread` (threads.c:122) | `my_mechanic`, `my_tester` | insert itself, wait for admission, mechanic, two tools, transfer queue, tester, payment, leave |
| worker pools (threads.c:21-25) | a semaphore, an availability array, a mutex; twice | acquire by a scan, release by a plain write and a post |

Threads interact only through semaphores, two arrays, the queue and the
priorities of queued vehicles. Hard behaviours: an array entry is written
outside the mutex under which it is scanned; the queue is out of order between
a promotion and the end of the sort; a vehicle is for a moment in neither the
queue nor admitted; capacity slots are taken by one thread and posted by
another; resources are held while waiting for others; thread creation fails; a
vehicle finds no worker and leaves by an error path; `main` counts exactly.
Correctness: no vehicle is lost or admitted twice, capacity is respected, the
vehicle admitted is never outranked by a queued one, workers are exclusive,
everything taken is given back on every path, the program ends.

### Dining philosophers (`concurrent-systems/dining-philosophers/`)

State: `state[]`, one semaphore per seat (`eaters[]`), a binary semaphore
(`mutex`), the loop counter `i` of `main`, whose address every thread gets.
Operations: `take_sticks`, `put_sticks`, `test`. Hard behaviours: a
philosopher is made to eat by its neighbour's thread; wake-ups may precede the
wait; the shared counter, which a thread may read so late that it gets another
philosopher's number, or N; `memset` clears N bytes of N ints, so a status may
be HUNGRY or EATING before anybody sits down. Correctness: critical sections
exclude each other and no seat collects permits, whatever the threads read; as
long as each has its own seat, neighbours never eat at once, no wake-up is lost
and the table never freezes.

### Thread-safe stack (`concurrent-systems/thread-safe-stack/`)

State: `stk[N]`, `idx`, semaphores `isFull` and `isEmpty`, `mutex`.
Operations: `stkPush`, `stkPop` by K threads at random. Correctness: the array
is never overrun, the stack is last-in-first-out for all threads together,
threads block only at a limit (and may all do so, for good).

### file_crypt (`crypto and auth/`)

State: files, two stdio streams, key, nonce, block counter. Operations: checks
of the arguments, `derive_key`, `encrypt_file`, `decrypt_file`,
`chacha20_xor_stream`. Hard behaviours: short blocks, I/O that fails at any
point, buffered output that only fails at `fclose`, an input that is the run's
own output, a counter that wraps, files that survive from run to run.
Correctness: status 0 means that everything readable was masked in order (what
of it can be missing is stated), decryption undoes encryption, no keystream
byte is used twice in a file, a run that cannot read its input spares the old
output.

### Library shells (`proccsses and threads/`)

Processes: `libshell`, one of three second-level shells, one command. State:
who waits for whom, the words left in a shell's stdin buffer, the files.
Hard behaviours: failing `fork` and `exec`, line-wise and word-wise input
from one terminal, commands that fail half way, `run` with a program that does
anything to the files, a file merged into itself. Correctness: one process at a
time in the foreground, no child left behind, each command but `run` changes
what it names and nothing else, a command gives the prompt back unless `run`'s
program goes on or a file is merged into itself.

### SHA-256, the passcode check and ChaCha20 (`crypto and auth/`)

Pure functions on 32-bit words with local state only: `sha256_update` fills a
64-byte buffer, `sha256_final` pads, `verify_passcode` compares digests;
`chacha20_block` turns key, nonce and counter into 64 bytes. Hard: lengths at
which the bytes, the padding byte or the length field just fill a block; and a
wrong block function, which no round trip of `file_crypt` would show, as both
directions share it. Correctness: the published standards' results.

### The small programs (`concurrent-systems/`)

| Program | State | Hard | Correct when |
|---|---|---|---|
| `semaphores/Semaphores.c` | three semaphores, a flag | two posts by B, one for every second wait of C; `main` ends at any point | the letters are A, B, C, C over and over, and do not stop |
| `matrix-threads/matrix_threads.c` | a matrix | a sum replaces an element of the row it sums | the total is that of the matrix printed before |
| `cpu-runtime/CPUruntime.c` | a counter per thread, no lock | `main` frees the counters under running threads | no counter goes back between snapshots, until it is freed |
| `processes-threads/ProccessNTreads.c` | loop variables | `fork` fails | the terms of the sequence, in order, once each |
| `binary-tree/BinTree.c`, `BinTreeChild.c` | a process per node | `fork` and `exec` fail; depth passes through `argv` | no process ends before those below it |
| `file-encryptor/createEncryptedCopy.c` | a directory, a file, two offsets | what an earlier run left; short writes | status 0 means a whole copy |

`shell-scripting` and `garage-simulator/hw3.c`: see section 7.

`PROJECT.json` lists the hazards of every program at the line where each
bites, with the properties that cover it.

## 2. Modules

```
WorkerAssignment  <~implements~  WorkerPool
                                     ^ two instances
                                 Stations ---+
VehicleQueue <--- Admission -----------------+--> Garage
      ^             ~implements~> Institute
      +--- ArrayQueue (computes VehicleQueue's operators)

Philosophers ~implements~> DiningTable     BoundedStack ~implements~> SharedStack
FileCrypt        LibShell

Semaphores  CPUruntime  MatrixThreads  ProccessNTreads  ProcessTree  EncryptedCopy ---+
Words <--- Sha256                                                                     +--> Programs
      <--- ChaCha20 ------------------------------------------------------------------+
```

| Module | Code | Correspondence |
|---|---|---|
| `WorkerPool` | threads.c:144-154, 191-192 (mechanics), 205-217, 234-235 (testers) | `sem`, `available`, `mutex` are the C objects; `stage` is a thread's program counter, `worker` its scan index and then its `my_mechanic` or `my_tester`. One step per array entry scanned, since entries are freed outside the mutex. |
| `WorkerAssignment` | what a pool promises | distinct free workers are handed out and given back in one step each |
| `VehicleQueue` | queue.c | comparison, insertion and insertion sort as operators on a sequence |
| `ArrayQueue` | queue.c, loop by loop | every array write of `pq_insert`, `pq_pop` and `insertion_sort` is a step; on return the array holds what `VehicleQueue` says. That `pq_insert` finds room is not a guard but part of the invariant |
| `Admission` | main.c, creator, manager, monitor, first and last statements of `car_thread` | one step between two accesses another thread could observe; `sort_i > 0` means the monitor holds `pq->mutex` |
| `Institute` | what main, creator and manager promise | vehicles enter while fewer than N_CAPACITY are inside, each once, and the program closes when all have been served or never came |
| `Stations` | threads.c:137-245 | `at` is the program counter between stations; two `WorkerPool` instances, four semaphores, both error paths |
| `Garage` | the whole program | extends `Stations` and instantiates `Admission` as `A`; they share their vehicles: `Enter` is `Arrive`, `FreeSlot` needs a vehicle that is gone |
| `Philosophers` | dining-philosophers.c | one step per access to the mutex, a status or an eater's semaphore; `main`'s loop counter `i`, of which a thread reads whatever value it then has. The history variables `orderly` and `ghosts` record whether each thread has its own seat and which statuses `malloc` left EATING |
| `DiningTable` | what the table looks like from outside | hungry philosophers eat when neither neighbour does, as long as the table is orderly |
| `BoundedStack` | Threads-safe_stack.c | `stk[idx++] = num` and `stk[--idx]` are two steps each |
| `SharedStack` | what the stack promises | one sequence, pushed and popped atomically |
| `FileCrypt` | main.c and file_io.c of `crypto and auth` | a byte carries the set of keystream bytes XORed into it; fread fetches a buffer-full of the file as it then is; fwrite and fclose move bytes from the output stream's buffer to the disk, or fail |
| `LibShell` | libshell.c, reader_shell.c, catalog_shell.c, archive_shell.c | `lib`, `sub`, `cmd` are the three processes; `typed` is the second-level shell's stdin buffer; the copy loop of merge is one step per chunk, of the source as it then is; the program that `run` starts changes any file, any number of times |
| `Words` | common.h | a `uint32_t` is the set of its 1 bits; addition by carries (a recursive function), since TLC's integers have 32 bits with a sign |
| `Sha256` | sha256.c, auth.c | a step per turn of the update loop and per round; the 64-word schedule is a window of 16 words. `compressed` is a history of the blocks transformed |
| `ChaCha20` | chacha20.c | a step per quarter round, then the feed-forward |
| `Semaphores`, `MatrixThreads`, `CPUruntime` | the programs of these names | a step per semaphore operation, array element, or load and store |
| `ProccessNTreads`, `ProcessTree` | ProccessNTreads.c; BinTree.c and BinTreeChild.c | a process of the tree is named by its path from the root; `mDepth` is its own, `Inherited` what it passes through `argv` |
| `EncryptedCopy` | createEncryptedCopy.c | `dir` and `dest` survive from run to run; a write at the file's offset, all of it or less |
| `Programs` | the eight above | `program` says which one a behaviour is a run of; the variables of the others stand still. It brings them into one run of TLC and adds nothing to them |

`MC*` modules hold only constants and symmetry sets for TLC. The theorems about a
module `M` are in `M_proofs`, except that those about `VehicleQueue` are in `ArrayQueue_proofs`,
those about `Stations` in `Garage_proofs`, and those about `LibShell` and the modules of
the small programs in `Programs_proofs` (section 5). Definitions whose comment begins with "mutant of" are single
faults of the named definition; no specification uses them. Each property is
shown to fail when one of them takes the place of the original.

## 3. Runs

Each run is one configuration (`*.cfg`) of one module. The names are those of
`PROJECT.json`, which also lists, for every property of a run, the fault
("mutant of") of the code that the property catches.

| Run | Instance | States | What it shows |
|---|---|---|---|
| `pool` | 4 threads, 3 entries, 2 of them staffed, 3 permits | 1.8k | the inductive invariant `IInv`; `SlotsMatchOwners`; the pool is a `WorkerAssignment`; every search ends (`SearchEnds`). One permit more than workers, so that scans also come back empty |
| `pool_unlocked_write` | 2 threads, 2 workers | — | **violated**: `WritesHoldMutex` (section 6) |
| `queue` | 4 vehicles, arrival times 0..1 | 1.0M | `ArrayInv`, the array write by write: no vehicle is lost or doubled while the array has a gap, no index leaves it, the queue is in rank order between calls; each call computes the operator of `VehicleQueue`; equals keep their order |
| `admission` | 3 vehicles, 2 places, clock 0..1 | 117k | `IInv`: nobody is lost on the way from creation to the stations or counted twice by `main`, capacity slots add up, the queue is sorted whenever its mutex is free; the best queued vehicle enters; `car->priority` no longer changes once it is read outside the lock; the `Institute` is implemented |
| `ageing_threshold` | 1 vehicle, 5 ticks a second, threshold 2 ticks | — | **violated**: `PromotesTheOverdue` (section 6) |
| `stations` | 5 vehicles, the numbers of garage.h but two mechanics of three and one tester of two, symmetry | 98k | every semaphore is accounted for, the workers' too; nobody is between two stations holding neither, or keeps a station it has left; no more vehicles find all entries taken than workers are missing, while others write theirs back unlocked; no deadlock, after the error paths of threads.c:157 and 219 either |
| `garage` | 3 vehicles, 2 places, one mechanic of two, two testers, one of every other resource | 338k | the whole program: only admitted vehicles are inside, it closes clean, it is never that everybody waits (`NeverStuck`), and it always closes, after the error path of threads.c:157 too |
| `philosophers` | 3 philosophers, any of which may read its number late; leftovers HUNGRY and EATING | 74k | critical sections exclude each other and no seat collects permits, always; while each thread has its own seat: neighbours never eat together, no wake-up is lost, the table does not freeze |
| `stack` | 3 threads, 2 slots, 2 values | 810k | the array is not overrun, the stack is one `SharedStack`, a thread is stuck only at the limit it waits for |
| `file_crypt` | up to 4 runs, on their own output too; a plaintext of 6 bytes, nonce 2, block 2, stdio buffer 5, a counter of 2 values | 775k | what exit status 0 is worth; decryption undoes encryption, no keystream byte is used twice in a file, an unusable input spares the old output |
| `shells` | 5 lines typed by the user, files of up to 5 chunks | 403k | one process in the foreground, each command but `run` changes what it names, each gives the prompt back but for the two that may go on |
| `programs` | see below | 142k | `PrintsABCC`, `TotalOfPrinted`, `SnapshotsGrow`, `PrintsDownwards`, `EndsBottomUp`, `CopyComplete`; `OpensToThePasscode` and `MatchesRFC8439` |

Why the bounds are enough:

- **pool.** A search interacts with an owner, a thread inside the mutex and a
  thread waiting for it; four threads and three entries give all of these at
  once. The run has one permit more than staffed entries, so one thread at a time may
  scan in vain, and `OnlyExcessUnserved`, a part of `IInv`, says that a second one does not, whatever is freed
  behind its scan. The theorems of section 5 remove the bound.
- **queue.** Insertion at the front, in the middle, at the back and into the
  last free entry, ties in time and priority, and sorts in which an element moves
  over several others all occur with four vehicles and two arrival times. All
  three properties are proved for every length.
- **admission.** Three vehicles and two places make one vehicle wait for a slot;
  `MaxClock = 1` lets one whole second pass, and the code distinguishes no
  more than "less than a second" and "a second or more" (threads.c:92). All four properties
  of the run are proved for every size.
- **stations.** With five vehicles every station of the program's own
  size (at most three) can be full with somebody waiting in front of it, and
  mechanic, transfer place and tester can be exhausted at the same time. One
  entry of `mechanic_available` and one of `tester_available` is never staffed,
  which the source does not do, so that a vehicle with a permit may find nobody
  and both error paths are taken. `OnlyExcessUnserved` holds these to one vehicle per missing worker: a worker whose
  semaphore is posted before the entry is written would send out a second. Its properties are proved for every size, and so is
  what TLC's deadlock check shows here (`StationsNeverStuck`).
- **garage.** Admission and stations are explored in detail by their own
  runs. This run looks at what only their composition has: the slot given back
  after the last station, and the end of the program. One of most resources is
  the tightest supply. The two testers match their permits, as in the source;
  a second mechanic's permit without a mechanic sends vehicles out by the error
  path of threads.c:157, past all other stations. `MaxClock = 0`: ageing is left to `admission`.
  TLC's own deadlock check is blind here: once the monitor has `pq->mutex` it can always go on,
  whoever else is blocked. `NeverStuck` therefore leaves the monitor out and says with the
  guards of the other threads that one of them can step.
  Section 5 proves the safety properties for every size, and the two facts about single steps
  that `Closes` needs; `Closes` itself rests on this run.
- **philosophers.** Three is the smallest table at which left and right differ. Any thread may read
  its number after `main` has moved on, so two or all three may share a seat, and one may read N.
  `Leftover = {1, 2}` are the two harmful statuses; `memset` clears none of three statuses entirely, but
  the low bytes of the first. That two philosophers eat at once takes four seats; the safety
  properties and the absence of deadlock are proved for every size.
- **stack.** Two slots distinguish full, empty and in between; three threads
  let one be in the array, one wait for the mutex and one be blocked.
- **file_crypt.** A counter of two values wraps after two blocks of two:
  encrypting six bytes takes three blocks, and the four bytes that decrypting the plaintext gives
  are just the length up to which `KeystreamUsedOnce` is claimed. With the nonce the output has eight
  bytes, so a buffer of five is flushed in the middle of a block, and
  a run that decrypts its own output keeps a buffer-full of it, whose last block is short. Two of
  three passphrases derive the same key. Four runs are an
  encryption, a decryption, one of that output in place, and one more that meets what
  is left. Section 5 proves all four properties of the run for every size.
- **shells.** Five lines enter a shell, run a command whose arguments stand on
  the next line, leave words behind and go back. Files grow to five chunks: by two merges of `f` into `g`, or by
  one of `f` into itself that goes on until nothing more can be written. The two invariants are proved for
  every input; `EveryCommandReturns` rests on this run.
- **programs.** Three counting threads and three rows make joining the last one
  something else than joining all. Depths 0 to 4 are every case of the
  recursion: refused, a leaf, and the two parities in which `mDepth` runs out
  (15 processes at most). A second run of the copy meets
  the directory, complete or not; chunks of 1, 2, 3 and 7 bytes of a source of 5
  divide it, leave a rest, or exceed it. Passcodes have the lengths 0, 9, 54 to
  56, 63 to 65, 119 and 120: the padding fits, just fits or needs another block,
  after none, one and two blocks of bytes. The vectors are FIPS 180-4's for the empty and the 56-byte
  message and RFC 8439's of 2.3.2 and A.1. Nine letters are two rounds and one more.
  Section 5 proves five of the properties, and that the letters come in order, for every size;
  also that the blocks hashed are those of the padded message. The digests and the keystream, and that the
  letters go on, rest on this run.

`CHECK_DEADLOCK` is on in every run but `philosophers`, where threads that share a
seat may really all wait for ever (section 4); that this needs a shared seat or a leftover
EATING is what `TableMoves` and `TableNeverStuck` say. Where a program ends, a step `Terminated`
stands for the ended process. In `BoundedStack` threads may all block for good;
the program still goes on to `main`'s return.

## 4. Fairness, atomicity, data races

**Atomicity.** A step is what another thread cannot observe half done. What a
thread does between taking and releasing a mutex is one step only if all
other accesses to the same data take it too: `pq_insert` and `pq_pop` are such
steps in `Admission`, justified by `ArrayQueue`. The monitor's critical section
is *not* one step: the promotions are one, each round of the insertion sort is
another, and whatever does not need the mutex runs in between. The arrays of the
worker pools are written without their mutex, so a scan is one step
per entry. `print_mutex` is held around `printf` only, never while
waiting for anything else, and is left out.

**Data races.** `mechanic_available[i] = 1` races with the read of the scan.
Both are aligned `int` accesses, which the build makes single instructions:
the read gives the old or the new value, and both orders are in the model. The
dining philosophers' race on `main`'s `i` is in the model as it is in the program: `main`
moves `i` on whether or not the new thread has read it, so the thread reads this or any later value,
or the 0 of the join loop. The `usleep` makes that unlikely and no more, as the source's
comment says. Each thread that is late does harm of its own kind. Two threads at one
seat: the second one's HUNGRY is overwritten by the first one's THINKING, and it waits for ever;
when all are left like that, the table is dead. A thread that reads N uses
`state[N]` and `eaters[N]`, which C leaves undefined; the behaviour ends there (`ReadPastEnd`).
The statuses that `memset` does not clear do harm too. A leftover HUNGRY is
taken for a request, and posts a permit with which its philosopher later eats next to an
eating neighbour. A leftover EATING only keeps the neighbours waiting until its philosopher has eaten
once. `orderly` is false from the first thread that reads another's number, and from the start
with a leftover HUNGRY; `ghosts` are the seats of the last kind.

**Fairness.** Every assumption is about the scheduler or a semaphore, never about
users, clocks or failures.

| Specification | Assumed | Justification |
|---|---|---|
| `WorkerPool!FairSpec` | SF of taking the mutex, WF of the other steps of a search and of the release | critical sections are finite, so the mutex is free again and again; a thread that waits for it gets it eventually. An owner's work is a bounded sleep, so it releases its worker. Nothing makes a thread ask for one |
| `Garage!FairSpec` | SF of "one of main, creator, manager, vehicles steps", WF of the monitor's sort and unlock | see the comment at `Fairness`: weaker than one condition per thread |
| `Philosophers!FairSpec` | WF of a meal's steps, SF of locking after eating | as for the pool. Nobody is made to get hungry, and nothing is assumed of `main` |
| `Programs!Spec` | WF of each thread of Semaphores.c | threads keep running until `main` returns, which nothing makes it do |
| `LibShell!FairSpec` | WF of commands other than `run`, of `wait` and of starting a shell | processes keep running; the user may stop typing, and the program that `run` starts need not end |

`Admission`, `ArrayQueue`, `Stations`, `BoundedStack` and `FileCrypt` are checked for safety
only.

## 5. Proofs

Eight modules hold theorems or lemmas; `tlapm <module>.tla` proves all of each. They hold
for every value of the constants that satisfies the module's assumptions, which are
the `ASSUME`s of the modules: sizes are naturals (not 0 where the source has at least
one), sets of threads are finite, no more workers are staffed than there are entries.

```
WorkerPool_proofs ------------------------+
                                          +--> Garage_proofs (Stations, Garage)
ArrayQueue_proofs ---> Admission_proofs --+
Philosophers_proofs    BoundedStack_proofs    FileCrypt_proofs    Programs_proofs
```

### The worker pool (`WorkerPool_proofs`)

For any finite set of threads and any `Size`, `Staffed` and `Permits`:

| Theorem | States |
|---|---|
| `PoolInvariant` | `Spec => []IInv` |
| `PoolTypeCorrect`, `PoolPermitsConserved`, `PoolExclusive` | the type invariant; free permits and permits held are `Permits` in number; nobody shares a worker |
| `PoolOnlyExcessUnserved` | no more threads have scanned in vain than there are permits beyond the staffed entries |
| `PoolNeverUnserved` | if `Permits <= Staffed`, no scan ends without a worker |
| `PoolSlotsMatchOwners` | the entries that are 0, less those never staffed, are as many as the threads between their claim and their write-back |
| `PoolIdleAsStarted` | with no thread at the pool, semaphore and array are as at the start |
| `PoolImplementsAssignment` | the pool implements `WorkerAssignment` |
| `PoolHeldBySomeone` | nobody waits for a permit that no thread holds, or for a mutex that no thread is scanning under |
| `PoolSearchAdvances` | a thread inside the mutex is never blocked, and each step of a search raises its `ScanRank`, which stays in 0..Size + 2 |

*Why `IInv`.* `OnlyExcessUnserved` is not inductive: that a scan at entry `k` will find
something does not follow from where threads are now. `IInv` adds to the types and
the account of permits:

- `MutexInv`: one thread at a time is scanning, and it is the mutex's holder;
- `WorkerInv`: scan index and owned entry are within range, an entry about to be
  claimed is 1, an owned one 0;
- `Exclusive`: owners are distinct;
- `OwnerInv`: a staffed entry that is 0 has an owner;
- `AheadInv`: once as many threads are unserved as there are permits beyond
  `Staffed`, a scan has a free staffed entry at or ahead of its position.

*The argument of `PoolOnlyExcessUnserved`.* A thread that passed the semaphore, the owners
and the threads that scanned in vain are at most `Permits` together. If every staffed entry were 0, `OwnerInv` would give each an
owner of its own, `Staffed` in all; so either there are permits for one more unserved thread, or a staffed
entry is 1 when the scan starts (`FreeEntryExists`, a pigeonhole argument over
the cardinality theorems). During the scan nobody else claims or gets unserved, since both
need the mutex, and releases only add free entries; passing an entry that is 0
leaves the free one ahead. That owners still count as holders of a permit is where
the order of the two statements at threads.c:191-192 matters: the entry is
written before the semaphore is posted.

*Searches end.* `SearchEnds` needs fairness and is TLC's. What it rests on besides is
`PoolSearchAdvances`: no step of a search is blocked but the first, the lock, and there are at most
`Size + 2` of them, whatever others release meanwhile.

### The stations (first half of `Garage_proofs`)

For any finite set of vehicles and any number of workers, tools, places and boxes:

| Theorem | States |
|---|---|
| `StationsOnlyExcessUnserved` | no more vehicles are on an error path than permits are without a worker |
| `StationsNoErrorPath` | with no more permits than staffed entries, every vehicle finds a mechanic; the same for testers |
| `StationsOneAtATime` | a vehicle between first tool and test has a mechanic, a place or a tester, and not both a mechanic and a tester |
| `StationsResources` | every tool, place, box and worker's permit is free or in somebody's hands |
| `StationsReturnEverything` | with no vehicle inside, everything is as at the start |
| `StationsNeverStuck` | while vehicles are inside, one of them is not blocked |
| `StationsAdvance` | each step of a vehicle raises its `Rank`, which stays in 0..MECHANIC + TESTER + 19, and leaves the others' as they are |

The lever is that the steps of a vehicle at the mechanics are by definition those of `WorkerPool`,
and all others leave the pool alone; the same for the testers (`PoolSpecs`). So each pool behaves as
a `WorkerPool`, and the theorems of `WorkerPool_proofs`, instantiated for it
(`MechPool`, `TestPool`), hold without another induction (`PoolsInv`). What remains is the
program counter `at`. `PlaceInv` says at which places a vehicle can be in which stage of each
pool, in particular that it enters a pool only when it is not in it; `Accounts`
says of each semaphore that what it has left and the vehicles at the places
behind it add up. A step moves one vehicle, and `MoveCounts` says what that does to
the number of vehicles in a group of places.

*No deadlock.* `Ready` states the guard of the semaphore or mutex that a vehicle has reached; TLC
found it equal to `ENABLED Step(c)` in every reachable state of `garage`. The argument of
`StationsNeverStuck` follows the resources from the exit backwards: whoever has a tester, a wrench
or a box waits for nothing; so if nobody is ready, nobody is at the cashier
(`NobodyDone`); then nobody has a tester's permit, so one is free and nobody waits
for it in the transfer queue (`NobodyTested`); then a place there and a wrench
are free, and nobody waits for one with a mechanic in hand (`NobodyRepaired`); then tablets and mechanics
are free, and nobody is in the bay (`NobodyInBay`). Each step needs the account of one
semaphore and that its limit is at least 1.

### The queue (`ArrayQueue_proofs`)

For any number of vehicles, of entries of the array, and any priorities and times:

| Theorem | States |
|---|---|
| `ArrayInvariant` | `Spec => []ArrayInv`: no index leaves the array, at every iteration nobody is lost or there twice, and between operations the queue is in rank order |
| `ArrayComputesOperators` | what `pq_insert`, `pq_pop` and `insertion_sort` leave behind is what `VehicleQueue` says |
| `ArraySortsStably` | the sort leaves the same vehicles, in rank order, equals in the order they had |

The module starts with what the operators of `VehicleQueue` do with a queue of any
length: where `InsertSorted` puts a vehicle (the largest element of a set of
positions exists because `<` on the naturals is well-founded, `MaxOfBounded`), that a sorted queue
stays sorted with it (`PlacedSorted`), that one iteration of the sort extends the sorted
prefix by one (`SortStepIs`), and that neither loses or doubles anybody (`PlacedKeeps`,
`StepKeeps`). `OutranksOrder` is what the sort needs of the comparison: that it is
asymmetric, and that "not outranked by" is transitive.

That an insertion finds room (queue.c:46 would drop the vehicle) is part of the invariant, not of the
model: there are no more vehicles than entries, and the one inserted is not in the queue (`RoomForOne`).

*Why `Loops`.* `ArrayInv` counts entries. That nobody is lost in the next iteration
depends on where each entry is, so the inductive invariant `Loops` says, for each
operation, what the array holds at every index: the entries of `before`, moved by
one on one side of the gap (`GapIn`, `Holds`), and that the key outranks all it has passed.
Where the loop stops, the key lands behind exactly the vehicles that it does not
outrank, and a queue is determined by that (`PlacedUnique`, `StepUnique`): so the array
now holds what the operator says.

For the sort, the array between two outer iterations is compared with `Sorted`, the
value of the recursive function inside `InsertionSort`. That this function has the values
its equation gives is itself a theorem (`IterationsAre`): TLA+ defines a recursive function
by `CHOOSE`, so one must exist. If for some n there were none up to n, there would be a least such n, and
the function up to n - 1 extends to n. Stability is an invariant of the iterations too (`StablePrefix`,
`StepStable`). `ArrayInv` follows by matching indices: each vehicle stands at most once in
the queue and at most once in the array outside the gap (`HoldsOnce`, `CountsOnce`).

### Admission (`Admission_proofs`)

`Admission` works with the operators on sequences; the lemmas about them come from
`ArrayQueue_proofs`, instantiated as `Array`.

| Theorem of `Admission_proofs` | States |
|---|---|
| `AdmissionInvariant` | `Spec => []IInv`, the invariant that the run `admission` checks |
| `AdmitsTheBest` | the popped vehicle is outranked by no queued one |
| `PriorityStays` | a priority that is read without the mutex no longer changes |
| `AdmissionImplementsInstitute` | the program implements `Institute` |

*Why another invariant.* `IInv` counts the positions a vehicle occurs at, and
bounds every semaphore. The proof replaces this by `Inductive`, which implies it:

- `Placed` says with membership where a waiting vehicle is: in the queue, with the manager, or
  called by its semaphore, exactly one of the three;
- `StartInv`: nobody is admitted before `main` has started all threads;
- `Accounts`: each semaphore and the vehicles on either side of it add up to a
  constant. This bounds the semaphores;
- `Ordered`: a prefix of the queue is sorted, all of it when its mutex is free.

That `pq_insert` never finds the queue full, where it would drop the vehicle
(queue.c:46), is a pigeonhole argument: a vehicle about to insert itself
is not in the queue, and a queue without repetitions holds at most the
others (`RoomForOneMore`). `BestFirst` follows from `Ordered`, since the manager pops only
under the mutex. For the refinement, a vehicle enters the `Institute` when it passes
its own semaphore, which the manager posted.

### The whole program (second half of `Garage_proofs`)

`Garage` extends `Stations`, so `Spec` is the stations' there and `GarageSpec` the
program's. Under `GarageAssumption`, for all numbers of vehicles, places and resources:
`GarageOnlyAdmittedInside`, `GarageClosesClean`, `GarageNoErrorPath`, `GarageNeverStuck` and
`GarageAdvances`.

`Halves` shows that each step of the program is a step (or a stutter) of
`Admission` and of `Stations`; the theorems of both then hold of the program
(`HalvesInv`). `Together` is the glue: a vehicle is in the stations only between its admission and
its slot being given back. `ClosesClean` then is arithmetic on accounts: when `main`
returns it has counted K_CARS, so all vehicles are gone or never came (`AllOut`), the
stations are empty and everything is as at the start.

`GarageNeverStuck` is the absence of deadlock: until `main` returns, `main`, the creator, the
manager or a vehicle is not blocked, unless the monitor holds `pq->mutex`, and then it is about
to sort or unlock. If `main` cannot go on, it has not counted all vehicles and
all have been created. If none is inside or leaving (`NobodyInside`, from `VehiclesNeverStuck`), some vehicle
still waits (`SomebodyWaits`) and all slots are free (`SlotsFree`). It is in the queue, with the manager, or called:
in the queue it has a token for the manager to take; with the manager there is a slot to take; called, its
semaphore is up.

`GarageAdvances` is the variant. `CarRank` is how far a vehicle is from `CreateCar` to its exit, `MainRank`
how far `main` is, `ManagerRank` how far the manager is with one vehicle; all are
bounded. A step of one of these threads raises the rank of one vehicle or of `main` and lowers
none of them, or leaves them and raises the manager's. The monitor and the clock change none.
So only finitely many steps of `Progress` lie between any state and `main`'s return, and one is always
possible whenever the mutex is free: `Closes` follows by the fairness of section 4. That last,
temporal conclusion is TLC's.

### The dining table (`Philosophers_proofs`)

For any number of philosophers above one, any leftover of `malloc`, and whatever number each thread
reads: `TableInvariant` (`Spec => []TableInv`), `TableHungryForAReason`, `TableNeverStuck` and
`TableImplements` (`Spec => ImplementsTable`).

Two parts of `TableInv` hold of every run of the program. `MutexInv`: critical sections exclude each
other; it makes a status stable between the test and the write. `PermitInv`: a seat has at most one
permit more than there are threads taking its sticks, a status HUNGRY counted as the permit it
leads to. `StepPermit` follows the threads of a seat, of which there may be several: `test` turns HUNGRY into a
permit, and only a thread that comes to take the sticks sets HUNGRY.

The rest is claimed as long as the table is `orderly`, which the program cannot ensure and the model does
not assume: one thread that reads another's number switches it off. Then `OwnSeats` says that
every thread works on its own seat. That neighbours do not eat together is `SticksInv`, which is kept because only
`test` makes anybody eat and it looks at both neighbours. It speaks of
statuses, while the table is about where threads are; `StatusInv` ties the two:
a thread between `sem_wait(&eaters[i])` and `put_sticks` has the status EATING,
and its semaphore is 1 exactly from the moment somebody set that status until it
has passed the wait. Both except `Haunted` seats, whose EATING is `malloc`'s: such a status makes
neighbours wait, and never lets two philosophers eat. `HungryForAReason` is about moments at which the critical
section is empty, so it is not inductive; `HungryInv` also covers the moments inside:
a philosopher that puts its sticks down owes both neighbours a test, and each of the
two tests settles one of these debts (`StepHungry`). `TableNeverStuck` is the absence of deadlock,
and says where the step is that a philosopher can hope for: while it is hungry or eating, it or one of its
neighbours can go on, or only waits for the mutex, whose holder can go on; except beside a seat in `ghosts`,
whose philosopher may think for ever under a status that says EATING. A hungry one
that nobody in the critical section still owes a test has an eating neighbour (`HungryInv`),
and an eater depends on nobody (`EaterGoesOn`). `Circle` has the facts about
left and right modulo N.

### The shared stack (`BoundedStack_proofs`)

For any finite set of threads and any number of slots: `StackInvariant`
(`Spec => []StackInv`), `StackInBounds` (no access to `stk` outside the array),
`StackStuckOnlyAtLimit` and `StackImplementsShared` (`Spec => ImplementsStack`).

`FullInv` and `EmptyInv` are the account of slots: `idx` is what `isFull` promises,
plus the numbers stored and not yet announced, plus those claimed by a pop that has
not moved `idx` yet; and the same for free slots. Each step of a thread moves
it from one of these groups to the next and changes one of `idx`, `isFull`
and `isEmpty` with it (`Counts`, `NextAccount`). A thread that is about to
store is counted as holding a free slot, so `idx < N` (`SlotStored`), and one about to
pop as holding an occupied one, so `idx > 0` (`SlotTaken`). For the refinement, a push takes effect
when `idx` moves and a pop when the number has been read; the mutex keeps
everybody else from the array in between. When nobody can go on, the four groups are empty, so
the account leaves only a full or an empty stack.

### file_crypt (`FileCrypt_proofs`)

For every plaintext, any passphrases and nonces, any size of key, nonce and
block and number of counter values (at least one), any stdio buffer that holds a nonce and a block, and any
file as input, the run's own output included: `FileComplete`, `FileRoundTrip`,
`FileKeystreamUsedOnce` and `FileOldOutputKept`, the four properties of the run. The invariant
`CryptInv` speaks of `Written`, what the run has given to its output stream: the
disk and the buffer together, so that it does not matter when the buffer is flushed.

- `StreamInv`: what the input stream has fetched and not yet handed out is the next part of
  `Readable`: the file as it was opened, or, if opening the output has emptied it, as much as had been
  fetched before: nothing when encrypting, a buffer-full when decrypting, because of the header.
  `BlockIs` and `RestIs` are the blocks that the loop gets out of that;
- `OutputInv`: `Written` is, byte by byte, what `OutByte` says of its position,
  as far as the input has been read; all that is `Readable` once the status is 0. After `fclose`, up to a
  buffer-full of it may be missing on the disk, and nothing is if `fclose` succeeded. So
  `FileComplete` says for every run what its exit status 0 is worth, and `CloseDoes` where the loss is;
- `CounterInv`: the counter is the number of blocks so far, modulo its range, and
  only the last block is short. This ties the loop's counter to the quotient and
  remainder of a byte's position (`PlaceOf`), which the arithmetic at the head of the
  module is for;
- `PlaceInv`: each keystream byte in a file stands at its own position in the body. It
  survives being decrypted, or encrypted again, because neither adding a header nor
  taking it off moves a byte within the body. Decrypting one's own output takes off a header
  that is none and does move them; such files, and what is made of them, are `displaced`, and
  nothing is claimed of them. Two positions of a body no longer than the
  counter's range differ in block or place (`PlacesDiffer`), which gives `KeystreamUsedOnce`;
- `RunInv`: what a run knows at each point, such as that the nonce it decrypts with is the
  header of its input;
- `SealedInv`: the intact encrypted file is its content, masked. `RoundTrip` follows since the
  same XOR twice is none (`XorIs`).

A step that writes may lose the end of what it was given, when the disk is full or the
process is killed, but nothing else (`Keeps`), so `PlaceInv` and `SealedInv` survive failure.

### The library shells (first part of `Programs_proofs`)

For any lines the user types, any names, any files at the start and anything that programs started with
`run` do to them: `ShellForeground` (`Spec => []OneInForeground`) and `ShellEffect`
(`Spec => []EffectAsNamed`).

`OneInForeground` is inductive as it stands. `EffectAsNamed` is not. `Working` says for each stage of a
command's process how the files differ from `before`: not at all before its first step; by the first `copied` chunks
of the source appended to the destination while it copies (`Extended`); and as `EffectAsNamed` says
when it has ended. The source is the one of this moment: of two different files it is what it was, and of a file
merged into itself the chunks read first are those of the old content, so the prefix that was copied is not
disturbed by what is appended behind it (`FirstOfAppend`). That a prefix extended by the next chunk is the next
prefix is `ExtendOne`, the step of the loop `CopyWorking`; that the files are an outcome also in the middle of a
merge, `CopyingEffect`. Of `run` nothing is claimed, and the theorem says of all other commands that they
start from whatever `run` left.

### The small programs (second part of `Programs_proofs`)

For all sizes that `ProgramsAssumption` admits: at least one row, column, thread and
level, matrix elements that are naturals, at most 46 terms (the 47th of the
sequence does not fit an `int`), buffers of at least one byte, a model of the process tree that
is deep enough for the arguments (`MaxLevels`), and candidates for the passcode that are bytes,
fewer than 2^28.

| Theorem | States | Invariant |
|---|---|---|
| `LettersInOrder` | the k-th letter printed is the k-th of A, B, C, C over and over | `Printing` |
| `LettersNeverStuck` | once all threads are created, one of them can go on | `Begun` |
| `CountersSnapshots` | `ProgramsSpec => SnapshotsGrow` | `CountedReg` |
| `TotalIsOfPrinted` | `ProgramsSpec => []TotalOfPrinted` | `Summing` |
| `MatrixJoinsEnd` | while `main` joins the threads of a phase, all exist, and one that has not ended has a column to go | `Crew` |
| `TermsPrinted` | `ProgramsSpec => []PrintsDownwards` | `Computing` |
| `TreeEnds` | `ProgramsSpec => []EndsBottomUp` | `Growing` |
| `TreeNeverStuck` | until the whole tree has ended, some process is not blocked in `wait` | `TreeTypes` |
| `CopyIsWhole` | `ProgramsSpec => []CopyComplete` | `Copying` |
| `HashesThePadded` | SHA-256 stays within its buffer, and what it has compressed when it returns is the padded message, block by block: the first part of `OpensToThePasscode` | `Hashing` |
| `RoundsLoseNothing` | every quarter round of ChaCha20 can be undone: the state before it is the only one that leads to the state after it | `Mixing` |
| `AdditionIsModulo` | `Add` of `Words` gives the word whose value is the sum modulo 2^32 | |

What is claimed of a program is seldom inductive. What each needs besides:

- *Semaphores.c.* Where the number of letters, modulo four, says whose turn it is,
  `Turn` lists what the three semaphores and the three threads may be then: one semaphore is up or one
  thread is between its wait and its post. The only overlap is that C may print
  its first letter before B's second post. `odd`, C's flag, tells the two letters of C apart.
  Whoever's turn it is can go on, once it runs (`Begun`): `LettersNeverStuck`, the part of the letters going on
  that needs no fairness.
- *CPUruntime.c.* As long as the counters are allocated, what a thread has loaded is
  what its counter holds, since nobody else writes it; so a store adds one.
- *matrix_threads.c.* `SumOfRow` says what a row looks like while it is summed: as printed until the
  sum is stored, and `sum` the sum of the columns passed; then its last
  element is the sum of the printed row. Joining all threads makes that true of every row when
  `main` adds up, and `SumsByRow` turns the sum of the rows' sums into the sum of the matrix.
- *ProccessNTreads.c.* A child's `c1` and `c2` are two neighbouring terms, and the number of
  terms written follows from the loop variable and from where parent and child are (`Written`).
- *BinTree.c.* `TreeNeverStuck` is by induction on the level: if every process that has not ended waited for a
  child, there would be one that waits at every level below, and the model's tree has a last one. `Ordered` relates every process to everything below it, not only to its children: a
  process that ends may end first only if one at or below it had a failing fork or exec. `Sized`
  gives the depth of a process by its level, so which processes fork (`Inner`), and `Forked`
  that those past a fork have the child, unless something failed: together they make
  the tree complete.
- *createEncryptedCopy.c.* The file holds the first k chunks, each with the string behind it (`Copied`), when
  the run is at the end of the k-th chunk of its source. That it holds nothing else, of an earlier
  run, is because it is empty as long as there is no directory, and a run that finds one stops.
- *sha256.c.* Between two rounds the buffer holds the bytes of the padded message that follow the
  compressed blocks (`NextBytes`), and where the call is says how many (`Gathered`): all that
  was read, the whole message, more than that with 56 bytes at most in the buffer, all of it. That the
  last block ends with the length is arithmetic on how far the bytes fill their last block, up to 55 bytes or
  more (`PaddedBlocks`), which is the test of sha256.c:100.
- *chacha20.c.* Addition, XOR and rotation each give back one argument from the result and the other one
  (`AddCancels`, `XorCancels`, `RotationCancels`), so half a quarter round can be undone (`HalfRoundUndone`), and
  a quarter round touches four different words (`LanesAre`). An index or an operand mixed up in
  chacha20.c:20-23 or 46-54 would in most cases lose a word, and break the proof. For `AddCancels`
  the addition must be known: the bits that differ and twice those that are in both make up the sum
  (`HighSplits`), shifting the carries doubles them but for the bit that is lost (`CarryDoubles`),
  and after 32 turns nothing is carried (`AddOnceIs`). `Value` is the number a set of bits stands for; words with the
  same value are the same (`ValueDetermines`).

Three of these compare the program with a function that TLA+ defines by recursion: the
terms (`F`), sums over a set (`MapThenSumSet`) and the concatenation of chunks (`FlattenSeq`).
Such a definition is a `CHOOSE`, so its equation holds only once a function that satisfies it is shown to
exist. `Recursion` shows this for a sequence of values each made from the one before;
`FibonacciIs`, `SumsExist` and `FlatteningIs` reduce the three to it, and `AddingIs` the recursion of `Add`. For sums that takes an order of the
elements, and the result must not depend on it: `SumsAre` shows that taking any element out of
a set leaves the sum of the rest.

### What stays with TLC

- *Liveness* (`SearchEnds`, `Closes`, `TableMoves`, `EveryCommandReturns`, the second half
  of `PrintsABCC`) is outside what TLAPS proves, and so is `ENABLED`. The absence of deadlock is proved
  with the guards of the blocking calls written out (`Ready`, `SomeoneReady`, `CanGoOn`, `CanPrintOn`,
  `CanEnd`), and that work gets on with bounded ranks; what is left to TLC is the step from these
  and fairness to "eventually".
- *`MatchesRFC8439`, and `OpensToThePasscode` but for its first part*, compare what the code
  computes with published results: an evaluation of thousands of word operations, which is TLC's work. For
  arbitrary blocks there is nothing to compare with but the same algorithm again. That addition is modulo 2^32
  and that a quarter round can be undone is proved for every word (`AdditionIsModulo`, `RoundsLoseNothing`).

## 6. Where code and comments disagree

Two runs show it (`findings` in `PROJECT.json`):

- threads.c:18 calls the availability arrays "Protected by their respective
  mutexes"; the releases at threads.c:191 and 234 write them without. `pool`
  and section 5 show that the scan is correct all the same.
- threads.c:79-80 and garage.h:30 promise promotion after 0.4 *seconds*.
  Arrival and scan times are `time(NULL)`, so the wait is a whole number of
  seconds: a vehicle can be promoted right after its arrival (a second boundary
  lies in between) or left alone for most of a second.

Met while reading, and visible in the models:

- file_io.c:89 and 117 ignore what `fclose` returns, so "Returns 1 on success"
  (file_io.h:25) also covers a file whose end never reached the disk. `Complete` says how much that
  may be: up to the size of the stream's buffer. `RoundTrip` is stated for runs whose `fclose` succeeded.
- main.c:33-68 takes any file for its input, the one it is about to write too, and file_io.c:76 and 108 then
  empty the file that is being read. Encrypting `encrypted_output.dat` leaves a nonce and nothing else,
  decrypting `decrypted_output.dat` leaves what stdio had fetched with the header, and both exit
  with status 0. `Complete` states both cases; a reader who takes "success" to mean a
  complete output has `Readable` to look at.
- In archive and catalog shell, the words that follow an unsupported command on
  its line are run as commands, and missing arguments are taken from the next
  line.
- `protect` accepts any word: without octal digits it means no permission at all
  (archive_shell.c:138).
- `merge f f` reads what it appends (archive_shell.c:74-77) and ends only when nothing more can be written.
  Until then the shell is blocked, since "parent blocks until child terminates" (README.md:78 of the shells);
  `EveryCommandReturns` excepts it, and `run` with a program that goes on.
- catalog_shell.c:125-129 runs any program with any argument. The shells make no promise about the files then.
- dining-philosophers.c:119-121 says itself that `usleep` does not keep two threads from one seat. Section 4 has the
  consequences, which the comment does not mention. Line 105 means to set all statuses to THINKING and clears a quarter of them.
- createEncryptedCopy.c:53 takes a failing `read` for the end of the file: the copy
  is short and the status 0. `CopyComplete` is stated for runs whose reads
  succeeded. Its comment (line 9) speaks of encrypted data; the bytes are copied as they are.
- BinTree.c:12 asks for "a non-negative integer" and refuses 0. With an argument n of at least 2
  the tree has 2 + n/2 levels, since a BinTreeChild and the child it forks each take one off
  the depth.
- BinTreeChild.c:34 returns without waiting when its second `fork` fails, and leaves
  the first child behind (`EndsBottomUp` excepts it).
- CPUruntime.c:52 frees the counters while all threads run. `SnapshotsGrow` ends there; without
  that condition it does not hold.
- From four philosophers on, one may starve while its neighbours take turns.

## 7. What is not modelled

- `garage-simulator/hw3.c` has no module of its own: its functions are those of main.c,
  queue.c and threads.c, apart from comments, a `printf` and a format, so `Garage` models it
  as well. The Makefile does not build it.
- utils.c formats log lines and draws `is_vip`, which is a choice of `CreateCar`.
- The shell scripts (`lab2_ex1.sh`, `run_lib.sh`), Makefiles and compiled binaries.
- Logging, prompts and messages, except where input is read for them.

Limits of the models that are there:

- *Garage.* All threads end with `main`. Between `main`'s return (its frame is
  gone) and the end of the process, monitor and manager may still touch
  `pq`; that window is undefined behaviour and outside the model. `malloc`
  of a vehicle succeeds. Semaphore and mutex initialisation succeeds.
- *ArrayQueue.* `pq_pop` on an empty queue (queue.c:71-74) is not an operation of the model: the manager passes
  `queue_sem` first, which counts what is in the queue (`Accounts` of `Admission`).
- *Philosophers.* When a thread reads N for its number, it will leave the arrays, and the
  behaviour ends there. An `int` has four bytes.
- *FileCrypt.* The size of a stdio buffer is a constant, at least a nonce and a block; reads of it are
  not short, and a file does not change under a run but by the run itself. A write may fail at
  every `fwrite`, also when stdio would only have buffered the bytes: that adds behaviours. A
  header that has been XORed is some nonce, without saying which. `/dev/urandom` may return any
  nonce, one used before included.
- *Programs.* Arguments are given and in range (a buffer size of 0 or less declares an
  array of no length, which C leaves undefined). The memory of the freed counters may be
  overwritten once, when it is freed. Candidates for the passcode are shorter than
  2^28 bytes. `rand` is any value of a small set.
- *LibShell.* Typed lines are shorter than the buffers, and standard input is a
  terminal. The program that `run` starts changes one file at a time to any of `Anything` and may go on for ever, but does
  not read the terminal and leaves no process behind; the other programs started with `exec` end. Nobody else changes
  the files. A write fails once a file has `FileSize` chunks, and may fail before.

## 8. Plan

Done: the modules of section 2, in the order they stand there, and the proofs of
section 5. Every safety property that a run checks is a theorem, but for the comparisons
with published digests and keystream. The worker pool, the stations, the whole garage, the
dining table, Semaphores.c, matrix_threads.c and the process tree are proved free of deadlock.

Next, proofs:

1. `Words`: that literals, `load32_le` and `ByteAt` convert between bytes and words as their values say, so that
   the feed-forward can be stated in numbers. That needs facts about 2^n and division that the provers
   do not have.
2. `FileCrypt`: an abstract specification, a file sealed or opened in one step or left in part, that
   the four properties of the run follow from, and a proof that `FileCrypt` implements it.
