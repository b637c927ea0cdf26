# TecnicoFS and its message broker: TLA+ models and proofs

This directory models the C programs of the repository's two course projects. `ProjetoSO/` is
TecnicoFS, an in-memory file system used as a library by threads, with a lock per inode and
per table ("v1" below). `ProjetoSO2/ProjetoSO/` is a message broker built on a second version
of the file system, with one mutex for everything ("v2"), and a producer-consumer queue.
Paths below leave out `src/`.

## The system

| Part | State | Operations | Speaks to |
|---|---|---|---|
| v2 file system: `fs/operations.c`, `fs/state.c` | inode table, `freeinode_ts`, `fs_data`, `free_blocks`, the root's directory entries, `open_file_table`, `free_open_file_entries`, `g_library_mutex` | `tfs_init`, `tfs_destroy`, `tfs_open`, `tfs_close`, `tfs_write`, `tfs_read`, `tfs_unlink` | called by the broker's main thread and its workers |
| Queue: `producer-consumer/` | ring of pointers, head, tail, size, five mutexes, two condition variables, the global `g_value` | `pcq_create`, `pcq_destroy`, `pcq_enqueue`, `pcq_dequeue` | main enqueues registrations, workers dequeue them |
| Broker: `mbroker/mbroker.c` | `userarray` and `sessions`, `boxarray` and `n_boxes`, `threads_used`, one mutex and condition variable per worker, one receive buffer in `main` | register publisher or subscriber, create, remove and list boxes, the worker's session loops, the SIGINT handler | clients through named pipes; queue; v2 file system |
| Clients: `publisher/`, `subscriber/`, `manager/` | their pipes | send one registration or request, then copy messages | broker |
| v1 file system: `ProjetoSO/fs/` | as v2, and per inode a reader-writer lock, a link count, a symbolic-link flag and target; `inode_table_lock`, `dir_lock`, `open_file_table_lock` | as v2, and `tfs_link`, `tfs_sym_link`, `tfs_copy_from_external_fs` | threads of the caller |

What is hard in it: v1 gives up every lock between the steps of a call, and its allocators
and `tfs_read`/`tfs_write` take none; handles outlive the files they were opened on in both
versions; sizes are unsigned and are subtracted; the queue's waiting conditions test a counter
that is neither emptiness nor fullness, and a thread that waits keeps a mutex; failures in
the middle of creation, linking and truncation. What nobody does here: persist anything (so no
crash recovery) or retry. Every hazard is in `PROJECT.json`, at its line, with the properties
that cover it or a note saying why none does.

What would make each part correct: v2, names and live files correspond, live files have blocks
of their own, limits are exact, a reader gets what was written; queue, first-in first-out and no
lost wake-up; broker, each registration is served once by one worker, one publisher per box, counts
that follow the registrations, sessions that lose no handle and no message; messages, the broker
serves what a client asked; v1, the same as v2 under any interleaving, link counts follow the directory, and
every call returns.

## Modules

| Module | What it is |
|---|---|
| `MonitorFS` | v2 file system, one step per call |
| `FlatStore` | what v2 promises: named byte strings, handles with positions, exact limits |
| `MonitorFSRefinement`, `MCMonitorFS` | the mapping from `MonitorFS` to `FlatStore`; the TLC instance |
| `TableLemmas`, `MonitorFS_proofs` | proofs about `MonitorFS`, for any client and for clients that leave open files alone |
| `MonitorFSRefinement_proofs` | proof that for those clients `MonitorFS` implements `FlatStore` |
| `PcQueue` | the queue, one step per lock operation |
| `BoundedFifo` | what a bounded queue promises |
| `PcQueue_proofs` | proofs about `PcQueue` |
| `Broker` | the broker's main thread and workers up to their sessions, over an instance of `PcQueue` |
| `Broker_proofs` | proofs about `Broker` |
| `Sessions`, `MCSessions` | the workers' sessions, the clients at the other end, and main creating and removing boxes, over an instance of `MonitorFS` |
| `Sessions_proofs` | proofs about `Sessions` |
| `Wire`, `MCWire` | clients' messages and how main cuts the registration pipe into requests |
| `ThreadedFS`, `MCThreadedFS` | v1 file system, one step per lock operation or unlocked access to a shared table; the calls threads make in each run |
| `ThreadedFS_proofs` | proofs about `ThreadedFS`: locks, handles, types and hangs |
| `ThreadedFSRaces_proofs` | proofs about `ThreadedFS`: names, link counts and blocks, as long as no race has happened; clients that complete none |

### MonitorFS

`g_library_mutex` is held from the first to the last access of `tfs_open`, `tfs_close`,
`tfs_read`, `tfs_write` and `tfs_unlink`, so each call is one action and `Next` is any
interleaving of calls of any threads. Variables have the names of `state.c`. `fs_data` is one array
of bytes indexed by block number times block size plus offset, as in the code, so a wrong block
number or offset hits another block in the model too. The root directory is inode 0 with block 0,
which `tfs_init` gives it. Each action is a disjunction of the ways out of its function, early
returns first; helpers such as `add_dir_entry` are operators. A failed `ALWAYS_ASSERT` sets
`status` to "panic"; an access outside `fs_data` sets it to "fault", or, for a read, may return
arbitrary bytes. The assertions of `data_block_free` are among them (in `OpenExisting` and `Unlink`), and
`OnlyReadsPanic` shows that they hold. Two details of the code matter and are kept: `inode_delete` and truncation leave
`i_data_block` (and deletion `i_size`) as it was, and `to_read` and `to_write` are subtractions of
`size_t` that wrap at `SizeModulus`.

`Spec` is any client. `DisciplinedSpec` is a client that never truncates or unlinks a file
that is open; `FlatStore` is promised to those only, and the finding below shows why.

### PcQueue

Both operations take `pcq_current_size_lock` first and release it last. Inside, what happens
between two locking steps is one action; locking, the test of `g_value`, sleeping and waking are
actions of their own. `pthread_cond_wait` releases the mutex of the condition variable and no other,
and may wake for no reason (`SpuriousWake`). The size wraps at `SizeModulus`. `pushes`
and `pops` are history. An element is the pair of its producer and the number of its call.
`reserving`, chosen once and for all in `Init`, says whether callers start a call only with a slot
or element set aside for it (`MayCall`) or whenever they like; the queue is first-in first-out only
for the former.

### Broker

`Broker` composes main, the workers and `Q`, an instance of `PcQueue` with one producer (main) and
the workers as consumers; the capacity is `max_sessions`, the number of workers. A request is one
action up to where main can wait: inside `pcq_enqueue`, whose steps interleave with everything
(`Enqueue`), and in the `open` of the client's pipe (`Answer`). Main enqueues the address of its
receive buffer. The model keeps that: an element that a worker takes is a place, and
`CopyCode` and `CopyBox` read what is in `buffer` *then*, in two steps, between which main may
receive the next request. `worker[w].own` is history and says whether what was read is what was
enqueued. Each worker calls `pcq_dequeue` when it starts; with an empty queue this returns at once,
with the memory that `pcq_create` allocated (`Junk`). `userarray` is indexed with `sessions`
without a check, as in the code; an index that no entry of the model has is also one no request
can reach (`Indices`). The array is allocated with the size of a static `fs_params` that nothing
sets, so all of its entries are outside: each access is like one to memory, or ends the process
(`ProcessEnds` in `Register`). The file system is the set of boxes with a file, at most `MaxFiles`, and the
count of handles that main never closes; besides, each worker in its session has a handle or none at the
moment main opens a box (`HeldBySessions`). `Sessions` has the real one. `atoi` reads on behind the one
digit it is given, and a `uint8_t` keeps 8 bits of the number: the codes of `Requests` are what main makes of
the digit, and a worker may make something else of it (`CopyBox`; `Misread`).

`threads_used` and the workers' condition variables are left out, and not by choice: a worker waits
on its own only when `pcq_dequeue` returns NULL, which it never does here. So a worker serves one
registration, if it gets one, for good: its session never ends.

### Sessions

A publisher's worker opens the pipe, reads, opens the box for appending, writes, closes both, and
begins again; a subscriber's opens the pipe and the box, reads and sends until the box has no more,
closes, and begins again. Each of those calls is an action, on `F`, an instance of `MonitorFS`.
A session may begin without a pipe at all ("none"): no program of the repository makes the clients' pipes,
and registration does not look for them. `open` then returns -1, which the worker does not test: a publisher's
worker goes round for ever, a subscriber's ends the broker when it has something to send. A read of a pipe
takes 1024 bytes at most, so it may leave messages there, or the end of the last one it took (`Unread`), which
the close of the pipe loses when the publisher is gone (`AfterClose`).
A client can quit at any moment (`Quit`), also between a worker's read and its `send_msg`: SIGPIPE
then ends the broker ("killed"). A publisher that writes while the worker has the pipe closed
between two rounds is ended by SIGPIPE itself, and what is in a pipe that nobody has open is lost.
Main creates and removes the boxes at the same time; `remove_box` is two steps, an open that
creates and an unlink, and neither it nor `create_box` closes the handle (`leaked`). A unit of
data is one message of 1024 bytes, the block size that `tfs_init(NULL)` gives, so a box holds one
message. What a worker reads from a pipe and stores as one is a batch, numbers `from` to `to`.
`send_msg` stops at a zero byte, so a send may deliver nothing.

### Wire

Clients copy code, pipe name and box name to offset 0 of the message, one over the other, and
`send_msg` writes up to the first zero byte: what is sent is the box's name (`Message`), or
the pipe's for a listing. Main reads up to `ReadMax` characters of whatever the pipe holds and takes the
first for the code; the digit is written through a pointer that is never set, so main may also read
another number behind it or end (`Serve`). `pub.c` calls `signal(EOF, ...)`, which fails,
and exits before it opens anything (`PublisherExits`). Registration in `Broker` and publishing in
`Sessions` therefore begin where these faults end: with a request that main has got as it was meant,
and a publisher that reaches its loop. What they show is about the code behind.

### ThreadedFS

`me[t]` is thread `t`'s position and locals in its current call. Between two actions another
thread may interfere. `inode_table_lock` and the inode locks are variables; `dir_lock` and
`open_file_table_lock` are taken and released within one action, because nothing blocks while they
are held. A lock that the code takes only to read one table entry (`inode_get_secure`) is a step
that waits for the lock. An inode's lock admits readers while writers wait, as glibc's default
does. `inode_alloc` and `data_block_alloc` test an entry in one step and take it in a later one.
`malloc` leaves a symbolic link's target unset until `FillTarget`; a `Follow` in between finds any
path or none. File contents are left out: `MonitorFS` has them, and v1 copies them the same way.
`races` is history: which of seven kinds of race between two calls have been completed (`RaceKinds`):
an inode or block is taken that another call has taken since the scan, a name is added that another
call has added, a `tfs_unlink` overlaps a `tfs_link` or `tfs_unlink` of one of its names, two
`tfs_unlink`s find the count at zero, a block is freed in the middle of a write or truncation, a file
is used after its inode was deleted or before the next one is set up in it, and a symbolic link is
linked to or deleted while it has its name and is not yet a link.
`Menu` is the list of calls each thread may make; a thread uses the handle its last `tfs_open`
returned.

## Runs

Properties are documented where they are defined. Each passing property has a mutant of a mapped
definition that breaks it. Every bound is a constant in the configuration.

| Run | Question | Bounds and why they suffice |
|---|---|---|
| `monitor_any` | Whatever clients call, also on files that are gone: are the tables consistent, which assertions can fire, does any write reach the directory's block, or another file's? Also checks the inductive invariant that the proofs use. | Two files, two handles, one byte per block, two values of a byte, since overwriting a byte by itself would not show, reads up to two bytes past the end: enough for a handle on a deleted file whose inode and block were reused. |
| `monitor_handles` | Do files behave as byte strings through two handles, with exact limits (`RefinesFlatStore`), no leaked block, no offset past the end, no assertion? | Three names that fit, one that does not, a directory of two entries, smaller than the inode table, so creation fails after the inode was taken; two handles, two-byte blocks, transfers of two bytes; one content block, so one file's block is the other's refusal. |
| `monitor_read_past_size` | Refuted, see findings. | |
| `queue_any` | Who has which mutex; what head, tail and size mean; a thread waiting inside the queue stops it for good, and nothing else keeps a call from returning; with reservations no call hangs and the queue is first-in first-out (`RefinesBoundedFifo`). | Two producers, two consumers, capacity 2, three calls each: the ring wraps, and it fills and empties in any order. |
| `queue_sleeper` | Refuted, see findings. | With one producer and capacity 2 the fourth enqueue is the first that can sleep; five calls leave room for it and for a dequeue to begin. |
| `threads_any` | Two threads, any two calls each on the same two names: lock discipline, handles handed out once, the complete list of reasons for a hang, and of reasons for a wrong link count and for a block that two files share. | Directory and blocks are small enough to run out; all actions fire. |
| `threads_links` | Two threads link and unlink names of their own, a third truncates, writes and appends: link counts, no assertion, every call returns. | Three calls each; the unlink that follows a link is the interesting step. |
| `threads_create_unlink`, `threads_copy_race` | Refuted, see findings. | |
| `broker_any` | Can a worker or main hang inside the queue? When do two workers publish to one box? Does `sessions` cover the entries in use, and is one of them ever overwritten? Does every worker end up in a session? | Two workers, so capacity and `max_sessions` are 2; five requests of any kind: the fourth registration is the first that can make main wait, and a removal and a new registration fit besides. One box suffices for a second publisher; handles run out after four, or earlier when sessions hold some. A directory that is full needs a second box, with which the run takes too long: `MaxFiles` is 1 and its limit is met in the proofs only. |
| `sessions_any` | Do sessions keep account of their handles, send in order and nothing twice, keep what a box has, take every message; when do they fail to open their box; what ends the broker? | A publisher of two messages (the second finds the box full, or made anew, and is read with the first or after it), a subscriber, one box, two requests of main (remove and create), four handles: main uses up three of them, so sessions fail to open too. Either client may be without a pipe. |
| `wire_format` | Refuted, see findings. | One client of each kind and a box name of two characters; main reads three characters at a time, so that it cuts messages and joins them. |

The configurations that allow the system to stop say so: threads run out of calls (`MaxCalls`,
`Menu`), clients stop or quit, a process can abort. `monitor_handles` checks deadlock. Valid
names and bytes are interchangeable in it and in `monitor_any` (`Symmetry`); neither checks liveness.
`monitor_any` takes states that differ only in what the last call returned as one (`TablesView`):
no guard reads `last`, and the action properties read the value a step gives it.

**Fairness.** Weak fairness of each thread's steps inside a call (`Step(t)`); starting a call and
spurious wake-ups have none. It says that the scheduler runs every thread that can run. It
does not say that a thread wins a lock it competes for: calls are bounded, so in the
end nobody competes. In `Broker`, main serves and enqueues what it has received and every worker goes
on, but nothing makes a client send a request or open the pipe on which main waits. In `Sessions`,
every worker goes on when it can; nothing makes a client write, stay or go, and main's requests
need not come.

To repeat one: `tlc -config MonitorFS_any.cfg MCMonitorFS`, the module being the one `PROJECT.json`
names for the run; `tlapm MonitorFS_proofs.tla` for the proofs.

## Findings

- `monitor_read_past_size`: `tfs_read` computes `i_size - of_offset` without a sign. After a
  truncation through another handle it is huge, and the read returns bytes past the file.
- `queue_sleeper`: a thread that sleeps in the queue keeps the size lock, which every operation
  takes first. So a consumer that has called `pcq_dequeue`, which would make the space the producer waits for,
  never gets to do so (`SleepersWake`, which says nothing of a sleeper whom nobody would wake).
- `threads_create_unlink`: `tfs_unlink` waits for `inode_table_lock` with an inode's read lock,
  `inode_create` for that inode's write lock with the table lock: both wait for ever. This
  takes two creations that `inode_alloc` gives one inode.
- `wire_format`: a subscriber of a box called `5a` makes main remove a box, because the message begins
  with the box's name and not, as `sub.c:72` says, with the code.
- `threads_copy_race`: the assertion of `tests/TestThreads.c` can fail, because a name is looked up,
  its inode allocated and its entry added with nothing held in between.

`HangHasCause` (run `threads_any`) adds two more ways to hang, and `HangsHaveCause` proves that there is no fourth:
`tfs_link` returns with its read lock when the directory is full (`LockLeaked`), and `inode_create`
calls `inode_delete`, which takes the table lock, with that lock held when no block is free
(`SelfLocked`). Three disagreements have no run: a first dequeue from an empty queue does not
wait (`g_value` is 0) and a full enqueue may overwrite, both visible in `RingArithmetic`, which
counts modulo the ring and nothing better; `tfs_copy_from_external_fs` opens without
`TFS_O_TRUNC`, so the tail of a longer destination stays.

What the causes in the other properties are, each reached in its run but that of `OverwriteHasCause`:

- `OnlyMainHangs`: the dequeues at start make the size of the queue wrap, so it is never empty for a
  worker again; but main, more than `max_sessions` registrations later, can find it equal to the capacity
  and wait with the size lock. The broker then serves nobody.
- `TwoPublishersHaveCause`: two publishers get one box although `register_publisher` looks for the
  first one: when a worker runs on a request other than its own or misreads its code, when the entry lies behind those that are
  searched, or after a removal has cleared or moved entries.
- `OverwriteHasCause`: `remove_box` subtracts from `sessions` what it clears, but later entries stay where
  they are, so the next registration may overwrite one (create two boxes, register for both, remove the first,
  register again: one request more than the run has). Nothing else brings `sessions` back to an entry in use.
- `ForeignWriteHasCause`: a write changes another file's bytes through a handle whose file is unlinked, because
  `inode_delete` leaves size and block in the freed inode and the block may be another file's by then.
- `OpenFailsHasCause`: main keeps a handle for every box it creates or removes; once fewer are left than there
  are sessions, `tfs_open` fails in a session, and the message it was about is lost without a word.
- `PanicHasCause`: after `remove_box` a session still has the file open; when the box is made again
  the session's handle leads to the new file, at an offset of the old one, and `tfs_read` asserts.
- `LinksWrongHasCause`, `SharedBlockHasCause`: the seven races above, and the proofs show that there is
  no eighth. The last two were found by the attempt to prove it, since they take longer calls of more
  threads than a run has time for: an inode that is truncated or written before it is set up keeps or
  gets a block that another file has, and `tfs_link` of a symbolic link that is not yet one adds a name that its
  deletion leaves behind. In particular, two `tfs_unlink`s of
  the two names of a file both see a count of zero (`operations.c:318-324` of v1) and delete the
  inode twice, and truncation frees a block before it resets the size, so that a write in between uses
  a block another file may get.

## Proofs

All are for every value of the constants that satisfies the named assumptions of the module; TLC
evaluates those in every run.

**MonitorFS** (`MonitorFS_proofs`): `Invariant`, `Spec => []IInv`, and from it type correctness,
`DirectoryConsistent`, `BlocksNeverShared`, `OnlyReadsPanic` and the action properties
`DirectoryBlockIsolated` and `ForeignWriteHasCause`. The latter two rest on `OtherBlocksKept`, that a write
leaves every block but the one it goes to alone; for the second, `BlocksNeverShared` says that a live file's
block is another handle's only if that handle's inode is freed. `IInv` adds to the properties what they need to be preserved:

- `RootIntact`: no inode but the root's refers to the root's block, freed inodes included. Without
  it a write through a handle whose file is gone could not be kept out of the directory.
- `SizedHasBlock`, also for freed inodes: such a write uses `i_data_block` as it was left.
- `HandlesOnFiles`, `SizesBounded`, `OffsetsBounded`: offsets grow past sizes only up to
  `OffsetBound`, so with `ModulusAssumption` a wrapped `to_write` is longer than any buffer
  and cannot pass for a real count.

There is a lemma per action. `WriteBytes` is split into its effect (`WriteBytesEffect`, what changes
where) and the invariant. `TableLemmas` has the facts about scans for a minimum (`MinIn`: `Min` is
a `CHOOSE` whose witness exists because the naturals are well ordered) and block addresses
(`BlocksDisjoint`: different blocks never share an address). The last part of the module says what
each call does to its caller (`OpenOutcome`, `WriteOutcome`, `ReadOutcome`, `UnlinkOutcome`); the
modules about clients rest on it.

**Disciplined clients** (the last part of `MonitorFS_proofs`, over `DisciplinedSpec`): `OffsetWithinSize`,
`NoBlockLeak` and `NeverAborts`. Each is inductive only with the others and `IInv` (`DInv`). An
offset stays inside because the file of an open handle is live and nobody truncates it; so
`i_size - of_offset` and `block_size - of_offset` never wrap (`ReadNeverWraps`, `WriteNeverWraps`),
which is why no assertion fires. No block leaks because a write gives a block only to a live file
of size 0, and that it keeps the block until it is truncated or unlinked, both of which free it.

**What TecnicoFS promises** (`MonitorFSRefinement_proofs`): `ImplementsFlatStore`,
`DisciplinedSpec => RefinesFlatStore`, over `DInv` and `EntriesNamed`, by one lemma per way out of
each call. Three facts carry it:

- Names and live files correspond one to one (`NameLeads`, `FileNamed`), so the name of a handle is
  well defined and stays until its file is unlinked, which a disciplined client does not do.
- The limits are exact. Names, entries and live inodes are equally many (`NamesCounted`), and so are
  files with contents and blocks in use but the root's (`FilledCounted`, from `NoBlockLeak` one way and
  `BlocksNeverShared` the other); so `FullIs` and `OutOfContentsIs`: the allocators fail exactly
  when the abstract store is full.
- A write changes its own file only, at the handle's position (`BytesWritten`, with
  `BlocksDisjoint`), and a read returns that part of the contents (`PartIs`).

**PcQueue** (`PcQueue_proofs`): `IInv` is types, `LockDiscipline`, `RingArithmetic` and
`CallsStarted`. `LockDiscipline` needs `TypeOK` only; `RingArithmetic` needs `LockDiscipline`,
since a thread that stores must be alone in the queue. `WedgeIsPermanent` follows: the waiting thread
has the size lock, so every other thread is before it, and no step before it changes the size or
`g_value`. `ImplementsFifo`, `Spec => RefinesBoundedFifo`, needs one more invariant, `Reserved`: the
producers at work are at most as many as the free slots, the consumers at work at most as many as the
elements. Then `g_value` and the size never make anyone wait or overwrite, `move` is the abstract
operation, and every other step stutters. The abstract sequence is the ring read from its head.

**Broker** (`Broker_proofs`), for any number of workers, boxes and requests:

- `EntriesCovered`. The invariant `CoverInv` adds `NamedIsLive` (an entry is in use exactly
  when it has a box's name): what `remove_box` subtracts from `sessions` is the number of entries it
  finds by name, and only with that is it the number of entries that it takes out of use.
- `TypeCorrect`, by `BInv`, which adds the queue's own invariant and the correspondence of counters:
  every push is a registration that main has made, every pop a worker that has dequeued. The lemmas of
  `PcQueue_proofs` are used through an instance; that the broker's steps are steps of the
  queue is `QueueStep`.
- `PublishersHaveCause`, by `PInv`. `NumbersDistinct`: no two workers take the same registration,
  because there are as many slots as workers. `EntriesInv`: until a removal the k-th registration has entry
  `k - 1`, and a worker that copied its own request goes by what is there.
- `OverwritesHaveCause`, by `NextIsFree`: until a removal every entry in use is below the index of the next.
- `OnlyMainSleeps`, by `HangInv`: a worker that is past the test of `g_value` goes on, because
  `g_value` stays below 1 until `max_sessions` registrations have come, and by then each worker has
  dequeued or finds an element. It is under `Width`: `SizeModulus` is more than all requests and more than twice
  the workers. With `size_t` of 64 bits that is no restriction, but without it the size
  could wrap once more and pass for empty, and the claim would be false.

**Sessions** (`Sessions_proofs`), for any number of sessions, boxes and messages. The lemmas about
`MonitorFS` are used through an instance, for which `LimitsFit` discharges their assumptions;
`SameOpen` and its like say that the calls of the two instances are the same.

- `TypeCorrect` and `HandlesReturned`, by `SInv`: the file system's invariant as long as it runs, and
  `HandlesHeld`, that a handle in use is leaked or belongs to exactly one session. Without it two sessions
  could close the same handle.
- `PanicsHaveCause`, by `PanicInv`: until a box is removed under a session, every session's handle
  is on the file its box's name leads to and inside it (`OnBoxes`). This is the discipline of
  `DisciplinedSpec` as far as sessions can keep it, and main's `create_box` and leaked handles are
  shown not to break it.
- `NothingOutOfOrder`, `SentInOrder` for any number of boxes, publishers and subscribers, removals included, by
  `SentInv`: what a publisher has in its pipe was written after everything of its that is in a block or that
  a subscriber's worker has read (`Numbered`); a file whose size is not 0 has a message in its block, the
  others have no block (`Filled`); and what a subscriber's handle would read next is new to it (`Ahead`). The
  last holds because `tfs_open` with `O_APPEND` puts a handle at the start only if the file is empty, and
  what is written there afterwards is in nobody's hands.
- `OpensFailForCause`, from `HandlesHeld`: `tfs_open` of a box that is there fails only when all handles
  are taken, and those that main has not leaked belong to other sessions, one each.
- `MessagesStay`, by `StoredInv`: a publisher that is about to write is at the end of its file
  (`AtEnd`). This is false with two publishers for one box: both open at the end of the
  empty file, and the second write replaces the first (TLC finds it at once). So the theorem assumes
  `OnePublisher`, which is what `register_publisher` enforces up to the causes that
  `TwoPublishersHaveCause` names.

**ThreadedFS** (`ThreadedFS_proofs`), for any number of threads and any calls: type correctness,
`LockDiscipline`, `HandlesExclusive` and `HangHasCause`. `IInv` adds what a thread's locals are at each
position (`LocalFits`, with `OpsAt`: which calls get there), that a writer stays inside its block,
since nobody else moves its handle (`OffsetFits`, which needs `HandlesExclusive`), and that a thread
that has an inode for writing is past the point where it waits for it (`WriterPast`). `HangsHaveCause`
says that `threads_any` found all the ways to hang: if nobody can go on, follow the locks; every chain of
waiting ends in a leaked lock, in a thread that waits for itself, or in the two that wait for each other.

**Races of ThreadedFS** (`ThreadedFSRaces_proofs`): `LinksRight` and `BlocksApart`, that is
`LinksWrongHasCause` and `SharedBlockHasCause`, for any number of threads, any calls and any limits.
Both invariants hold until the first race (`races = {} => ...`) and are preserved by every step that
completes none (`Calm`).

- `LinksFit` first says what names are (`NamesFit`): a name has one entry (`NamesUnique`); of two
  calls that overlap one has only just looked its name up (`NoOverlap`), so that what `tfs_link` and
  `tfs_unlink` have found still leads there (`NamesFound`). Then what counts are (`CountsFit`): an inode
  that is being created is one thread's (`CreatorAlone`), and `n_links` is the number of `Settled` names,
  those that no call is about to count or has discounted (`Counted`). `LinksCounted` states it the other
  way round, by adding the calls to the count; that the two agree is `PendingCount`, and needs that
  pending calls have different names (`PendingApart`). What `tfs_unlink` deletes has no other name
  (`LastName`): here the proof has to know that of several `tfs_link`s that have added a name and not
  yet counted it, one had its target from before all of them (`SomeOld`).
- `BlocksFit`: the inodes that are in use and have contents, or a writer past its allocation, are owners
  (`Owner`); each has a block that is taken and its own, and so has a thread between `TakeBlock` and
  `SetBlock` (`SettersApart`). `i_data_block` of any other inode means nothing, which is why stale ones
  do no harm until a race gives such an inode a writer. `UsesFit` says that only files in use are
  written, and that one thread at a time truncates a file. Deletion needs `LinksFit`: what is deleted
  is not being set up.

`OwnNamesCounted` and `OwnNamesNeverAbort` turn to clients for which nothing has to be excepted:
`LinksCounted` and `NeverAborts` hold for any number of threads if `KeepApart` does. It is a condition on the
menus alone, and the menu of `threads_links` is an instance: threads give the files they find names of
their own and take these away again, they create nothing, and at most one of them opens and
writes (it may truncate). `ApartInv` holds together with `LinksFit` and `BlocksFit`, and says why no race is left:

- Every name leads to a file that still has one of its first names (`Lasting`). By `LinksFit` its
  `n_links` counts that one, so no `tfs_unlink` finds zero (`NeverLast`) and no inode is ever freed.
- A name that `tfs_link` has not found does not appear before it adds it, and the block that
  `data_block_alloc` found is still free when it is marked (`LooksKept`): nobody else has that name, and
  nobody else allocates (`OneEditor`).
- Handles stay on files and inside the block (`FilesKept`).

Each kind of race fails to apply (`ApartCalm`), no step fails an assertion (`ApartRuns`), and so
`StepLinks` and `StepBlocks` apply to every step.

**Model-checked only.** Liveness (`CallsReturn`, `CallsReturnOrWedge`, `WorkersSettle`, `Taken`), which
needs fairness and ENABLED, and the violations, which are a matter for runs. Facts by induction over
data are out of the provers' reach here; no module uses a RECURSIVE operator.

## Not modelled

`tfs_init` and `tfs_destroy` (their effect is `Init`; called twice they misbehave, a listed hazard),
`pcq_destroy` and the SIGINT handler (it joins workers that never return, so nothing after that
runs), what answers contain (every field is copied to the start of the answer, and no client
parses one with success), what `userarray` and `boxarray` overwrite (they lie outside the memory
allocated for them), the listing's fields, logging, the sizes of `malloc` in `tfs_sym_link`,
delays that simulate storage, tests and build files.

## Plan

1. Done: both file systems, the queue, the broker, its sessions and its messages; proofs about all
   of them but the messages.
2. `Sessions` with two boxes: after a removal the next box gets the inode, and a session of
   the one reads the other. It needs smaller sessions to stay within minutes.
3. Life cycle: `tfs_init` and `tfs_destroy` as actions, twice and in between. v1: properties of
   concurrent writers to one block and of the moment a symbolic link becomes visible.
