# blksnap in TLA+

blksnap takes snapshots of Linux block devices. A kernel module attaches a
filter to each original device. While a snapshot is held, the filter copies
every chunk that is about to be overwritten into a *difference storage*
(copy-on-write), and the block device of a *snapshot image* shows each original
device as it was when the snapshot was taken. Independently of snapshots, a
*change tracking* (CBT) map records which blocks were written since which
snapshot. A user-space library drives the module through ioctls.

This directory holds TLA+ models of that code, the TLC runs that check them on
small instances, and TLAPS proofs about them. `PROJECT.json` lists components,
runs, mutants, the source lines behind each definition, findings, hazards and
theorems. Paths below are relative to `src/module` unless they say otherwise.

Contents: [1 The system](#1-the-system) · [2 Modules](#2-modules) ·
[3 Runs](#3-runs) · [4 Fairness](#4-fairness) · [5 Proofs](#5-proofs) ·
[6 Finding](#6-finding) · [7 Deviations](#7-deviations) ·
[8 Abstractions](#8-abstractions-and-what-they-hide) ·
[9 Not modelled](#9-not-modelled)

## 1 The system

| part | state | what makes it correct | hard because |
|---|---|---|---|
| **chunk** `chunk.c` | flags, a binary semaphore, buffer, region, the I/O in flight | the semaphore has one owner; the flags describe buffer and region | a thread takes the semaphore, the completion of an I/O releases it |
| **difference area** `diff_area.c` | the chunks, read and write cache queues, `corrupt_flag`, `pending_io_count` | nothing is overwritten before it is copied; the image changes only by writes to it; failures are recorded | four kinds of actors on the same chunks, each with failure paths |
| **difference buffers, I/O** `diff_buffer.c`, `diff_io.c` | pool of buffers; the bios of a request | a request transfers its region and is notified once | bios end in any order |
| **write filter** `tracker_submit_bio` | a bio, a list of bios on the stack | returns when the copies are done, sends what it created | early returns, `REQ_NOWAIT`, fatal signals |
| **image** `snapimage.c` | queue of bios, worker thread, disk | bios are processed while the area lives, and end | removal while the device is open |
| **difference storage** `diff_storage.c` | blocks, `capacity`, `filled`, `requested`, flags | regions never overlap; space is requested in time | flags and counters changed outside the lock |
| **event queue** `event_queue.c` | list of events | every event arrives | the waiter looks without the lock |
| **CBT map** `cbt_map.c` | two tables with a byte per block, snapshot numbers, generation | a backup finds every change since its base | the number wraps, tables are replaced while in use |
| **trackers, filters** `tracker.c`, `bdevfilter.c` | a tracker per device, extensions, reference counts, release list | freed once, and after the last use | creation, removal, bios and re-plugged devices race |
| **snapshots** `snapshot.c`, `main.c` | list of snapshots, their trackers, areas and images | what is used is live; what fails is undone | partial failure over several devices, concurrent ioctls |
| **library** `src/lib/blksnap` | the session, its watcher thread, files | files outlive the snapshot; sessions end | races of watcher, destructor and module |

`tracker_submit_bio` updates the CBT map, calls `diff_area_copy` for the range
of the write, submits the bios this created, calls `diff_area_wait` and lets
the write go. `diff_area_copy` locks each chunk and schedules loading it; the
completion schedules storing it into a region taken from the difference
storage; the completion of that puts the buffer into the read cache and
releases the chunk. The image's worker locks one chunk at a time, loads it when
it is not in memory, copies data and puts it into a cache. The cache worker,
queued when a cache exceeds its limit, drops clean buffers and stores dirty
ones. The storage asks user space for more space by an event, and the watcher
of the session appends it. Taking a snapshot gives each tracker a difference
area, freezes the file systems, switches the CBT tables, enables copy-on-write
and creates the images.

## 2 Modules

| module | models | state and actions |
|---|---|---|
| `SnapshotImage` | what a difference area promises | the image is the device at the time of the snapshot, changed only by requested writes to it; a snapshot may break and then promises nothing |
| `DiffAreaState` | chunks and area | the variables of `DiffArea`: per chunk `lock`, `state`, `diff_buffer`, `diff_region`, `diff_io`; caches, counters and flags of the area; where each writer, the image's worker and the cache worker are; `orig`, the original device; `unsent`, the chunks whose bios wait in a writer's list |
| `ChunkIo` | `chunk.c`, `diff_area_cache_release` | completions (`DeviceLoad`, `chunk_notify_load`, `chunk_notify_store`, their failures) and the cache worker |
| `WriteFilter` | `tracker_submit_bio`, `diff_area_copy`, `diff_area_wait` | one action per branch: taking the semaphore (`Down`, `TrylockFails`, `DownKilled`), `CopySkip`, `CopyStore`, `CopyLoad`, their failures, `SubmitBios`, `WaitChunk`, `DeviceWrite` |
| `ImageIo` | `snapimage_process_bio`, `diff_area_image_io` | `ImageDown`, `ImageGetCached`, `ImageLoad`, `ImageRead`, `ImageWrite`, failures, `ImageEnd` |
| `DiffArea` | the area while its snapshot is held | composes the three; invariants, fairness, and the refinement mapping `Image` to `SnapshotImage` |
| `CbtMap` | `cbt_map.c`, the CBT part of `tracker_take_snapshot`, `tracker_read_cbt_bitmap` | set, set both, switch with wrap, reset in steps with failures; the reader is a backup that remembers a base |
| `EventQueue`, `DiffStorage` | `event_queue.c`, `diff_storage.c`, the watcher's answers | `diff_storage_new_region` in its locked and unlocked steps, events, appending in ranges |
| `DiffIo` | `diff_io.c` | one request: portions, bios, completions in any order, notification or wait |
| `ImageDisk` | `snapimage_create`, `_submit_bio`, the thread, `snapimage_free` | creation with every failure, queue, stop of the thread, removal |
| `AreaFree` | `diff_area_free` against callbacks and the cache worker | what the chunks are doing at the beginning is any mix (`Leftovers`), with a chunk whose bios were dropped |
| `ImageArea` | `ImageDisk` and `AreaFree` together | the image and the snapshot share the area; whoever drops the last reference frees it |
| `Trackers` | `tracker.c`, `bdevfilter.c`, `tracker_done` | ioctl threads that create and remove trackers of one device number step by step, bios, freezing, the release worker, unloading, unplugging and plugging |
| `Snapshots` | `snapshot.c` and the ioctls of `main.c` | threads in create, take, destroy, append, wait, collect, mark dirty; the list by its links; both ways of freezing (`Sequential`); every failure; writes to the devices |
| `Session` | `src/lib/blksnap/Session.cpp` over `Snapshots` | constructor, watcher, destructor; exceptions |
| `Geometry` | the arithmetic of `diff_area.c`, `cbt_map.c`, `diff_buffer.h`, `snapimage.c` | division of a device into chunks and blocks; the walk of a request over segments, chunks and pages |
| `MC*` | | instances for TLC: symmetry sets and constant functions |
| `*Proofs` | | section 5 |

A code path that runs under a lock or a chunk's semaphore is one step, split
where it waits, where it gives the lock up, and where others can see what it
has done so far. For example, `chunk_store_failed` releases the semaphore
before the area is marked corrupted, so these are two steps.

`Faults` selects what goes wrong. In `DiffArea`: failed allocations (`alloc`),
I/O errors (`io`), a full storage (`nospace`), `REQ_NOWAIT` bios (`nowait`),
fatal signals to a waiting writer (`signal`), writes past the end of the
snapshot because the device has grown (`grown`) and writes the CBT map refuses
(`untracked`). In `Snapshots`: failure of each step of creating and taking.

## 3 Runs

Every passing run finishes within five minutes with two workers, and together
they take every action and disjunct of the next-state relations. For each
property `PROJECT.json` names a mutant of a modelled definition under which TLC
finds the property violated.

| run | instance | what it shows | distinct states |
|---|---|---|---|
| `cow_faults` | 1 chunk, 2 writers, 2 values, reads and writes of the image, cache limit 0, all faults but signals and untracked writes | ownership of the semaphore, cache queues, counters, recorded failures, agreement of the copies, copy before overwrite, refinement of `SnapshotImage`; no deadlock | 575 060 |
| `cow_progress` | 2 chunks, 1 writer, reads of the image; `nowait`, `signal`, `untracked` | `Structure`; writes and reads of the image end | 124 676 |
| `cow_writers` | 2 chunks, 2 writers, no image; `alloc`, `io`, `nospace` | writes of two writers that overlap on two chunks end; no deadlock | 76 488 |
| `cbt_resize` | 1 or 2 blocks, largest number 3, 3 generations | no change is missing from the map a backup reads; a generation has one size; numbers grow | 195 902 |
| `storage` | 2 threads with chunks of 1 and 2 sectors, portions of 4 sectors in one or two ranges, 4 regions | regions are apart; counters add up; the low-space flag is answered and cleared; events arrive | 145 585 |
| `trackers` | 2 ioctl threads that create trackers, one of which also removes them, 1 bio, 2 trackers, 1 re-plugging, 2 snapshots | exact reference counts; pointers are live; unloading leaves nothing and does not get stuck | 2 001 213 |
| `snapshots` | 2 threads, 1 snapshot of 2 devices, 1 write, all faults, sequential freezing | what is used is live; a handler's area is live; file systems run; nothing is left | 530 587 |
| `session` | sessions one after another over 2 devices, the watcher, unloading, all faults, common freezing | files outlive the snapshot; a running session has its images; destructors end | 180 517 |
| `diff_io` | regions of 1 to 10 sectors at 3 positions, pages of 2 sectors, bios of 2 pages | the region is transferred exactly; errors are seen; the request ends | 7 976 |
| `image_area` | 3 bios, 2 chunks, cache limit 0, pool limit 0, time-outs | bios are processed while the area lives; bios end; the removal ends; freed things are unused; `diff_area_free` returns | 119 672 |
| `geometry` | 11 capacities, 3 sizes of I/O, requests of 1 to 3 segments at every position | a request transfers exactly its bytes, and ends | 34 774 |
| `snapshot_lost` | 2 snapshots of one device each | violated: section 6 | |

**Bounds.** One chunk and two writers give every interleaving of the five kinds
of actors on one chunk, which is where ownership can go wrong; two chunks add
loops, bios of several chunks, and holding one chunk while waiting for another.
A cache limit of 0 makes the cache worker run at once. Two values tell old data
from new. A largest snapshot number of 3 reaches the wrap, and 3 generations
suffice because only the current one and the base's are remembered. Portions of
4 sectors and chunks of 1 and 2 leave tails that are too small. Two ioctl
threads and two trackers reach every race of creation, removal and a filter
that is there already (`-EBUSY`). Two devices are needed for undoing a take
half-way. Data values, writers, generations and trackers differ only in name,
so the runs without liveness use symmetry.

Deadlock is checked in `cow_faults` and `cow_writers`. Elsewhere the system may
stop: a request or an unloading ends, the machine oopses, and in `cow_progress`
a chunk whose bios were dropped can block everybody (section 7).

Properties that say "unless" name what the code does not meet: `WritesComplete`
and `ImageCompletes` (the bios of a chunk were dropped), `PointersLive` and
`UnloadedClean` (`early`: a tracker removed before its creator had a reference),
`UnloadNotStuck` (a re-plugged device), `FileSystemsRun` (a device whose submit
lock was kept), `BiosEnd` (an image being removed), `FreedIsUnused` (`missed`:
the wait was given up or the worker stored behind it), `FreeReturns` (dropped
bios). Section 7 has each of them.

**Checked outside the runs**, because they cost too much or belong to no
question above; they hold:
`ImageCompletes` with reads and writes of the image (`cow_progress` with
`ImageOps = {FALSE, TRUE}`: 562 857 states, 9 min);
`UnloadFinishes` under `Trackers!FairSpec`, the liveness form of
`UnloadNotStuck` (two creators, one of which removes, no re-plugging: 561 997
states, 4 min; one thread with re-plugging: 205 673 states);
`session` with `Sequential = TRUE`;
`Coherent` with `Sequential = FALSE` and no failing freeze;
`ListSafe` (`storage`), `UnloadedFree` (`snapshots`), `BuffersFreed`
(`image_area`), `ChunksTile` and `BlocksCover` (`geometry`), `DoReturns`
(`diff_io`).

## 4 Fairness

* `DiffArea`: weak fairness of device completions, the cache worker, the steps
  of writers and of the image's worker, because the kernel runs what is
  runnable and devices complete or fail their I/O; strong fairness of taking a
  chunk's semaphore, because kernel semaphores serve waiters in the order of
  arrival. Nobody is obliged to submit a bio.
* `DiffStorage`: weak fairness of the library's thread, which waits for events
  in a loop, and of a thread that is inside `diff_storage_new_region`.
* `Session`: strong fairness of each thread inside the kernel (locks are handed
  on), weak fairness of writes in progress, of the watcher, of the destructor
  and of a constructor that has begun.
* `ImageArea`: weak fairness of threads in the kernel, callbacks and queued
  work; a user that waits for no bio closes a device that is dead.
* `DiffIo`, `Geometry`: weak fairness of the one request.
* `Trackers!FairSpec` (only for `UnloadFinishes`): weak fairness of every thread
  inside the kernel, of bios in progress and of the release worker.

## 5 Proofs

TLAPS proves the following for every value of the constants, from the named
`ASSUME`s of `DiffAreaState` and `CbtMap` alone. Each is also checked by TLC.

**Difference area** (`DiffAreaProofs`, over any number of chunks and writers, any
data, cache limit and kind of image request):

* `StructureInvariant`: `Spec => []Structure`, with every fault enabled.
  `Structure` is the conjunction of the types, `LockDiscipline` (who owns a
  semaphore), `DeadBranches` (flags agree with I/O, buffer and region),
  `CacheExclusive`, `CopyProgress` (what a writer has established so far),
  `HoldersConsistent` and `FailureRecorded`. None of them is inductive alone:
  the owner of the semaphore decides who may change the flags, the flags decide
  which branch the owner takes, and the branch decides who owns the semaphore
  next. `TypeCorrect`, `LocksOwned`, `InvalidStatesUnreachable`,
  `CachedChunksIdle`, `WaitFindsSaved` and `FailuresFlagged` follow.
* `DataInvariant`: without fatal signals and untracked writes,
  `InductiveInvariant` holds: `Structure` with `CopiesAgree` (buffer, region and
  device agree while nobody was entitled to make them differ) and
  `CopiedBeforeOverwritten`. Both assumptions are needed (section 7).
  `CopiesHoldImage` and `CopyOnWrite` follow.
* `Refinement`: `Spec => ImplementsImage` under the same assumptions. The image
  of a chunk is its buffer if ready, else its region if stored, else the
  original; each step is a step of `SnapshotImage` or a stutter.

`ChunkIoProofs`, `CacheWorkerProofs`, `WriteFilterProofs` and `ImageIoProofs`
have one lemma per action for `Structure`, on facts in `DiffAreaStepProofs`;
`DiffAreaDataProofs` has what each action does to the data and to the image. The
step from a writer's last `WaitChunk` to its write is where `CopyProgress` is
used: all chunks below `cur` are saved and nobody takes that back.

**CBT map** (`CbtMapProofs`, any number of blocks and any largest number):
`MapMissesNoChange`, `SizeOfGeneration`, `NumbersNeverDecrease` and
`TypeCorrect`. The inductive invariant relates both tables to the set of blocks
changed since the base: a block changed since then has a number above the
base's in the table the backup will read, or the map is corrupted or of another
generation.

Only model-checked: liveness under fairness, which is out of the prover's
reach; `CountersExact`; and the properties of the other modules.

## 6 Finding

`snapshot_lost` (`CreatedIsListed`, `snapshot.c:360`). `snapshot.h:41-43` says
"Several backup sessions can be performed at the same time, which means that
several snapshots can exist at the same time." `snapshot_create` calls
`list_add_tail(&snapshots, &snapshot->link)` with its arguments swapped: this
moves the head into the list of the new snapshot, and snapshots that were there
before are found by no ioctl any more. A session's destructor then does not
release its snapshot either, although `src/doc/blksnap.md:97` says "The snapshot
is released when this object is released."

## 7 Deviations

What the code does not meet. Each row names a definition of the models that
states the expectation; added to the configuration in the second column, or with
the change given there, TLC shows a behaviour that violates it. Rows with "in"
are the exceptions that a passing property names.

### Copy-on-write

| definition | configuration | what happens |
|---|---|---|
| `CopiedBeforeOverwritten` | `cow_progress`, `Faults = {"signal"}` | `src/doc/blksnap.rst:148` says "the execution of this I/O unit will be delayed until the overwritten chunks are copied to the difference storage". `diff_area_wait` uses `down_killable` (`diff_area.c:446`); when the writer is killed there, `tracker_submit_bio` logs the error and returns false (`tracker.c:171-179`), and the write is executed while the chunk is still being read. |
| `CopiedBeforeOverwritten` | `cow_progress`, `Faults = {"untracked"}` | When `cbt_map_set` fails, `tracker_submit_bio` returns before it looks at the area (`tracker.c:128`): the write overwrites chunks that were never copied, and the area is not marked corrupted. |
| in `WritesComplete`, `ImageCompletes` | | `tracker.c:165-166`: "If a new bio was created during the handling, then new bios must be sent and returned to complete the processing of the original bio". When `diff_area_copy` fails with `-EAGAIN` on a later chunk of a `REQ_NOWAIT` write (`tracker.c:142`), the bios queued for the earlier ones are not sent; their chunks stay locked, and later users of those chunks wait for ever. |
| `ImageErrorReported` | `cow_faults` | `diff_area.h:61` says of `corrupt_flag` "an error will be generated when reading from the snapshot image". `snapimage_process_bio` leaves its loop on an error but ends the bio without storing a status (`snapimage.c:34`). |
| `NoBufferLost` | `cow_faults` | The warning at `diff_area.c:407`, "Chunks buffer has been lost", asserts that a chunk about to get a buffer has none. A failed synchronous load for the image (`diff_area.c:569`) leaves its buffer attached, and the next request attaches another. |
| `CachesTrimmed` | `cow_progress` | `diff_area.h:49`: "This worker limits the number of chunks that store their data in RAM." The worker stops when the chunks it looks at are locked (`diff_area.c:194`), and nothing queues it again when they are released. |

### The end of an area, the image, the I/O

| definition | configuration | what happens |
|---|---|---|
| in `FreedIsUnused` | `image_area` with `~ used` instead | `diff_area.h:64-65`: `pending_io_count` "Allows to wait for all I/O operations to be completed before releasing this structure." `diff_area_free` gives up after about five seconds (`diff_area.c:111`); and it flushes the cache worker after the wait (`diff_area.c:118`), so that the worker may start a store which nobody waits for. |
| in `FreeReturns` | | `chunk_free` waits for the semaphore of a chunk whose bios were dropped for ever (see above). |
| in `BiosEnd` | | `snapimage.h:26` calls the list "A queue of I/O units waiting to be processed." The thread tests `kthread_should_stop` after it found the queue empty (`snapimage.c:60`); a bio queued in between, or before a thread that is stopped ever ran, is never ended. |
| `AreasReleased`'s exception | | `snapimage_create` takes a reference to the area before `add_disk`; the path of its failure does not drop it (`snapimage.c:263`). The memory checker then reports "%d not released objects found" (`memory_checker.c:92`). |
| in `DoReturns` | | After the last bio was submitted, `diff_io_do` reads `is_sync_io` from the request (`diff_io.c:218`), which the callback of an asynchronous one may have freed by then. |

### Change tracking, storage, events

| definition | configuration | what happens |
|---|---|---|
| `WrapReported` | `cbt_resize` | `src/doc/blksnap.rst:122`: "knowing the number of one of the previous snapshots and the number of the last snapshot, one can determine from the change map which blocks have been changed." At the wrap (`cbt_map.c:165`) the map gets a new generation, but `read_map` keeps the numbers of the old one: a backup based on that snapshot misses later changes, whose numbers are small. |
| `ReadsAtOffset` | `cbt_resize` | `blksnap.h:250`: "Offset from the beginning of the CBT bitmap in bytes." `cbt_map_read_to_user` copies from the beginning whatever the offset is (`cbt_map.c:260`). |
| `TablesPresent` | `cbt_resize` | `cbt_map.h:19`: "Locking for atomic modification of structure members." `cbt_map_reset` frees and allocates the tables without the lock (`cbt_map.c:107`), and `cbt_map_set_both` can find none. |
| `RequestedExact` | `storage` | `diff_storage.h:34`: "The number of sectors already requested from user space." `diff_storage_event_low` adds to it without the lock (`diff_storage.c:73`); of two additions one can be lost. |
| `FilledWithinRequest` | `storage` | After a lost addition user space has appended more than `requested` says; `filled` passes it, the unsigned difference in `is_halffull` wraps (`diff_storage.c:323`), and no more space is requested. |
| `FlagSaysLow` | `storage` | `diff_storage.h:36-37`: "The flag is set if the number of free regions available in the difference storage is less than the allowed minimum." `diff_storage_append_block` tests and then clears the flag without a lock (`diff_storage.c:260`); an allocation in between sends no request. The next one makes up for it. |
| `ListSafe`, with a second waiter (not in the model) | | `event_queue.h:41`: "Spinlock allows to guarantee safety of the linked list." `event_wait` tests `list_empty` without the lock and does not test again under it (`event_queue.c:69`): of two waiters that saw one event the second takes the list head for an event. The library has one waiter per snapshot. |
| not in the model | | `blksnap.h:554`: "Timeout for waiting in milliseconds." `ioctl_snapshot_wait_event` copies only the identifier from the caller (`main.c:398`), so the wait does not last. |

### Trackers and filters

| definition | configuration | what happens |
|---|---|---|
| in `PointersLive`, `UnloadedClean`, `UnloadNotStuck` (`early`) | `trackers` with `early = {}` instead | `tracker.c:542-544`: "It is normal that the new trackers filter will have a ref counter value of 2." The second reference is taken after the filter was attached (`tracker.c:546`). A removal in between drops the only one, and the creator goes on with a released tracker. |
| in `UnloadNotStuck`, `UnloadFinishes` | | `tracker.c:446-449`: "Waiting for all trackers are released." When a device was plugged again and attached anew, the extension of the old device is dropped without detaching its filter; that tracker is never released, and unloading waits for ever (`tracker.c:456`). |
| `TakenAttached` | `trackers` | `tracker_remove` refuses only trackers with `snapshot_is_taken` (`tracker.c:597`). A removal between the creation and the taking of a snapshot detaches the filter, and nothing is copied for that device. |
| `DetachFindsFilter` | `trackers` | `bdevfilter.c:266` warns "the filter was not found." A removal has found the tracker, the device is plugged again and attached anew, which drops the extension, and the removal finds no filter to detach. Two removers of one device get there as well. |
| `DetachedIsSilent` (an action property) | `trackers` | `src/doc/bdev_filter.md:70`: "after completing the execution of the bdev_filter_detach() function, the filter will no longer receive I/O requests for processing." A bio that has its reference calls the filter later (`bdevfilter.c:262`). |
| `FreedAfterRelease` | `trackers` | `tracker.h:25-27`: "the trackers are queued for release in the worker thread." `bdev_filter_free` calls the release and then frees the submit lock inside the tracker (`bdevfilter.c:168`), which the worker may have freed. |
| `ExtensionsLive` | `trackers` | `bdevfilter.c:277`: "Necessary to lock list of filters". The lock is released after the search, and the extension used after it (`bdevfilter.c:316`), while an attachment to a new device with the same number frees it. |
| not in the model | | `blksnap.h:168`: "Return: 0 if succeeded, negative errno otherwise." `tracker_remove` assigns `ret` on its failing paths only (`tracker.c:559`, `tracker.c:624`). |

### Snapshots and sessions

| definition | configuration | what happens |
|---|---|---|
| `Coherent` | `snapshots` | `src/doc/blksnap.rst:92`: "A snapshot is created simultaneously for all block devices for which a backup is being created, ensuring their coherent state." With `BLK_SNAP_SEQUENTALFREEZE`, which `Makefile-standalone:82` defines, each device is frozen, captured and thawed before the next (`snapshot.c:457`). |
| `LocksReleased` | `snapshots` | When `cbt_map_reset` fails, `tracker_take_snapshot` returns with the submit lock (`tracker.c:396`); `blksnap.h:429` promises "Return: 0 if succeeded, negative errno otherwise", but writes to the device and the release of the snapshot wait for that lock for ever. |
| in `FileSystemsRun` | | In the sequential variant the same failure leaves the loop without thawing the device (`snapshot.c:489-493`). |
| `FileSystemsRun` | `snapshots`, `Sequential = FALSE` | Two takes of one snapshot share `is_frozen` of the tracker: the file system is frozen twice and thawed once. |
| `ImagesCurrent` | `snapshots` | Two takes of one snapshot both find `is_taken` clear (`snapshot.c:649`); the second gives the trackers new areas while the images of the first keep the old ones. |
| `FailedIsListed` | `snapshots` | A take that fails deletes the snapshot from the list although a destroy may have done so already (`snapshot.c:722`). |
| `NoNullPointer` | `snapshots` | `snapshot_mark_dirty_blocks` follows the image pointers of snapshots that were created and not taken (`snapshot.c:883`). |
| `AreasReleased` | `snapshots` | An area is still referenced when the module is unloaded, because two takes replaced each other's. `diff_area_new` also loses the area it has built when the storage is empty (`diff_area.c:272`). |
| `DeviceInOneSnapshot` | `snapshot_lost` | `blksnap.h:347-348`: "one block device can only be included in one snapshot." Neither creating nor taking looks for another snapshot of the device (`snapshot.c:346`). |
| not a definition | | A constructor of a session that throws after the snapshot was created leaves it in the module (`src/lib/blksnap/Session.cpp:449`), until unloading. |

### Arithmetic

| definition | configuration | what happens |
|---|---|---|
| `BlockSizeReported` | `geometry`, `IntBits = 4` | `blksnap.h:189`: "Block size in bytes." `cbt_map_calculate_block_size` doubles the shift instead of incrementing it (`cbt_map.c:46`); 16 becomes 32, and `cbt_map_blk_size` shifts an `int` by it. |

## 8 Abstractions and what they hide

* The data of a chunk is one value; a partial write yields another value. Cache
  queues are sets: any chunk may be the one released. A new buffer or region
  holds `Junk`, which covers pooled buffers.
* In `DiffArea` queueing the cache worker is atomic with the `up()` before it,
  and `pending_io_count` is decremented in the step of the `up()`; `AreaFree`
  separates them, where it matters. The storage answers with a region or an
  error. The WARN branches for a chunk that is already cached or already has an
  I/O are not transitions: `CacheExclusive` and `DeadBranches` show that they
  are not reached.
* `AreaFree` begins with any mix of chunk states, more than `DiffArea` can leave
  behind. `ImageArea` picks the mix when the last reference is dropped.
* In `Snapshots` the waits of `snapimage_free` and `diff_area_free` are single
  steps (`FreeImages`, `ReleaseDrop`); whether they end is a question for
  `ImageArea`. `diff_storage` and the event queue are reduced to their outcomes.
* The event queue has one waiter, the library's thread.
* `Trackers` has one device number. Return values of ioctls are left out. A
  snapshot is a reference with a flag and a freeze; `Snapshots` has the rest.
* `TakeOops` of a NULL area needs two live snapshots that share a device.
* In `CbtMap` a write covers a set of blocks, and a byte has `MaxNumber + 1`
  values. In `Geometry` sectors, pages and chunks are small powers of two.
* `diff_area_throttling_io` only delays; `copy_page_to_iter` and
  `copy_page_from_iter` make progress. The image's worker calls `schedule()`
  without changing its task state, so no wake-up can be lost there.
* The default build is modelled: differences are stored on block devices, not
  in memory. The standalone filter is modelled, not the patched kernel.

## 9 Not modelled

The list of snapshots and of tracked devices that ioctls return, version
queries, the log file, the memory checker, the command line tool and `Service`
have no state that a snapshot depends on. `diff_storage_free` and
`event_queue_done` drop everything when no user is left. The patching of
`submit_bio_noacct` by livepatch or ftrace is the kernel's. `components` in
`PROJECT.json` has the list.
