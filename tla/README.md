# TLA+ models of the repository's concurrent and distributed programs

The repository is a collection of C and C++ server programs: course projects, samples,
libraries that were copied in, and exercises. This project models the parts of it that
carry logic of their own and are hard to test: a lock-free ring buffer with the program
that exercises it, a coroutine runtime with the echo server that runs on it, the CGI
programs of a cloud disk over the stores they share, and a server and clients that
connect each other over UDP. Source paths below are relative to `src/cpp/`.

## Inventory

### ArrayLockFreeQueue (`myvsc/cas_queue/ArrayLockFreeQueue.h`, `ArrayLockFreeQueueImp.h`, `atom_opt.h`)

- State: the slots, a counter, a write index, a read index and the read limit
  (`m_maximumReadIndex`); the indices run freely and are mapped to slots by `% Q_SIZE`.
- Operations: `enqueue`, `dequeue`, `try_dequeue` (the same as `dequeue`), `size`. Any
  thread may call any of them at any time.
- Hard: the full test compares indices read at different times; producers store in
  another order than they reserve; `dequeue` reads a slot before it owns it; the counter
  is updated after the element is visible; the indices wrap.
- Correct when: the indices keep their order and their distance, elements come out in
  order and once, reservations are owned, the counter follows the indices, and the whole
  is a bounded FIFO.

### SimpleLockFreeQueue (`myvsc/cas_queue/SimpleLockFreeQueue.h`)

- State: nodes with an item and a `next`, linked from `head` to `tail`; a bit of `head` that
  says whether the item of the first node is consumed already; a list of free nodes. Nodes are
  named by an index with a version, increased when a node is used again.
- Operations: `enqueue` and `try_dequeue`, by any thread; the free list's push and pop inside them.
- Hard: the tail is moved before the link is stored; head and free list are changed by CAS on
  values read some steps ago, while nodes are freed and used again; the last item is consumed
  by a flag while its node stays in the queue.
- Correct when: items are consumed once and in order, each consumer gets the item it consumed,
  no node is lost or used twice, and what is enqueued is consumed in the end.

### Queue test program (`myvsc/cas_queue/4_test_lock_free_queue.cpp`)

- State: two shared counters, and a loop per producer and consumer thread.
- Interaction: producers and consumers call a queue; consumers stop when a counter says
  that everything was taken; `test_queue` joins all threads.
- Hard: termination of everybody by a counter that is changed after the operation it counts.
- Correct when: no consumer leaves elements behind, and all threads end.

### NtyCo runtime (`jiagoushi/chap2.7/NtyCo/core`)

- State: a ready queue, a tree of coroutines waiting for a descriptor, a tree of sleeping
  coroutines ordered by wake-up time, the running coroutine, the events epoll reported.
- Operations: create, resume, yield, sleep, renice, exit and free; the wait inside every
  socket call; the scheduler loop (expired sleepers, one pass of the ready queue, epoll).
- Interaction: one thread; control moves between the scheduler and a coroutine at yield
  and resume; the kernel delivers events and time.
- Hard: a batch of events is handled while the coroutines it resumes change the trees;
  sleepers are found by keys of earlier sleeps; a coroutine is freed inside `resume`;
  fairness between coroutines that keep themselves ready, sleepers and I/O.
- Correct when: no coroutine is lost, queued twice or freed while queued; no assertion
  fails; sleepers leave on time; ready coroutines run, sleepers wake, events are served
  (the first and the last with a proviso each, see Fairness); the loop ends only when every
  coroutine has.

### NtyCo echo server (`jiagoushi/chap2.7/NtyCo/sample/nty_server.c`)

- State: per coroutine the place in its function and its descriptor; the accepting
  coroutine's `cli_fd`, whose address every reader gets.
- Hard: the variable is overwritten by the next accept; failed accepts and failed reads
  are not looked at; one thread serves all.
- Correct when: each connection has exactly one reader, accepting and reading go on, and
  no assertion fails. The last does not hold after a second failed accept (see Findings).

### Cloud disk (`lingshengxueyuan/HuLianWangYunPan/0voice-cloud-disk`)

- State: MySQL tables of stored contents with a reference count, of users' files, of users'
  numbers of files and of shares; two Redis keys with the shared files; FastDFS.
- Operations: ask for a content by its md5, upload, share, delete, cancel a share, save
  somebody's share, count a download, show the ranking. Each is a sequence of SQL statements
  and Redis commands in one of five programs, one process each.
- Interaction: only through the stores, without a transaction; `fcgi.sh` kills with `-9`.
- Hard: counts are read, changed in the program and written back; what is shared is kept in two
  places that are compared now and then; a kill leaves a request half done.
- Correct when: counts agree with the rows they count, a content is removed only when nobody
  refers to it, a row always names a stored file, and a file has one sharer.

### P2P server and client (`jiagoushi/chap4.4/p2p`)

- State: the server's table of logins; each client's mode and list of peers; where its
  receiving and its sending thread are.
- Interaction: login and its acknowledgement, a connect request, the notification of the other
  client, a connect between the clients and its acknowledgement, all in UDP datagrams.
- Hard: datagrams are lost, repeated and reordered, and nothing is sent again; the table is
  searched by a function that leaves out the newest row and may end without a result; the
  two threads share the list without a lock and copy its addresses byte by byte.
- Correct when: only clients that were introduced become peers, peers know each other or a
  datagram was lost, and the sending thread only uses entries that exist and addresses that
  are complete. The last holds for the first peer only.

### Other parts

| part | why it is not modelled |
|---|---|
| BlockQueue and the other threads of the test program | the loops of `ArrayQueueBench` around a mutex, a condition variable and library code |
| ypipe, yqueue (`myvsc/cas_queue`) | copied from 0MQ, used with a writer and a reader that poll |
| Thread pool (`jiagoushi/chap2.7/c1000k_test-master/server_mulport_epoll.c`) | dead code: the submission of jobs is under `#if 0` and `workqueue_shutdown` is never called, so the workers only wait |

Left out for good: the reactor and connection-count servers, the asynchronous HTTP and DNS
clients and the other NtyCo samples (handlers that mostly do I/O), the memory pool, trees,
timers, sorting and other exercises (sequential data structures, better unit-tested), the
user-space IP stack and the DPDK programs (packet layout, drivers), nginx modules and Lua
programs, and the vendored code (Linux 0.11, Lua, nginx, redis, brpc, protobuf, zookeeper,
fuse and others). `PROJECT.json` lists all of them with the reason.

## Modules

| module | what it is |
|---|---|
| `BoundedFifo` | abstract: a FIFO of limited capacity, `Put` and `Get` |
| `ArrayLockFreeQueue` | the queue, one action per access to a shared member |
| `MCArrayLockFreeQueue` | threads that enqueue and dequeue at will |
| `ArrayQueueBench`, `MCArrayQueueBench` | the test program's threads composed with the queue |
| `ArrayLockFreeQueueProofs` | theorems about the queue |
| `ArrayQueueBenchProofs` | theorems about the test program, on top of those |
| `SimpleLockFreeQueue`, `MCSimpleLockFreeQueue` | the linked queue with its free list |
| `SimpleLockFreeQueueProofs` | theorems about it |
| `NtyCo`, `MCNtyCo` | the runtime, with coroutines that do anything |
| `NtyCoProofs` | theorems about the runtime |
| `NtyServer`, `MCNtyServer` | the echo server composed with the runtime |
| `NtyServerProofs` | theorems about the two together |
| `CloudDisk`, `MCCloudDisk` | the CGI programs, the stores they share, browsers and kills |
| `CloudDiskProofs` | theorems about the cloud disk with requests that overlap |
| `CloudDiskCountsProofs` | theorems about its counts, one exchange at a time |
| `P2P`, `MCP2P` | server, clients with two threads each, and an unreliable network |
| `P2PProofs` | theorems about them |

### ArrayLockFreeQueue

The members keep their names. `pc[t]` is the place of thread `t` inside `enqueue` or
`dequeue`; `cw`, `cr` and `data` are its locals. An action is one shared access with the
local computation after it: `EnqReadWriteIndex`, `EnqReadReadIndex` (with the full test),
`EnqReserve` (CAS on the write index), `EnqStore`, `EnqCommit` (CAS on the read limit;
the `sched_yield` loop is the action being disabled), `EnqCount`; `DeqReadReadIndex`,
`DeqReadMaximum` (with the empty test), `DeqLoad`, `DeqTake` (CAS on the read index),
`DeqCount`. Index arithmetic is modulo `IndexMod`, for 2^w. `log` and `out` are history
variables: values in the order of reservation and of removal. Memory is sequentially
consistent: the indices are volatile, all updates are full barriers, and elements are `int`.

`ImplementsFifo` maps the committed part of `log` to `BoundedFifo` with `Q_SIZE - 1`
places: `EnqCommit` is `Put`, the successful `DeqTake` is `Get`, all else stutters.

`ArrayQueueBench` puts the loops of `arraylockfreequeue_producer_thread` and
`arraylockfreequeue_consumer_thread` around these actions. `lxx_atomic_add` is two steps
where its result is used, as in the code: the add, then a separate read. The queue's own bound on
enqueues is assumed not to be below what the producers' loops ask for, so that it stops nobody.

### SimpleLockFreeQueue

The members keep their names; an index is a pair of node and version, `head` a record of index
and flag. `pc[t]` is the place of a thread, `mine` its `nodeIdx` or `head_`, `seen` the head of the
free list or the tail it has read, `nxt` a `next` it has read, `consumed` the flag of `rawHead_`.
As above, an action is one shared access: `EnqReadList`, `EnqReadNext`, `EnqPop` take a free node,
`EnqReset` and `EnqItem` or else `EnqNew` prepare it, `EnqTail` and `EnqLink` append it;
`DeqReadHead` and `DeqReadNext` look at the head, `DeqFlag` and `DeqTake` consume the last
node's item, `DeqMove` and `DeqItem` remove a node, `DeqReadList`, `DeqLink`, `DeqPush` free it.
The loop around the CAS of `tail` is one action, since a failed pass has no effect. The four levels
of blocks in which nodes lie are abstracted: a new node is a new number. A weak CAS fails only when the
values differ, and memory is sequentially consistent, as on x86. `log`, `claims` and `frees` are history variables:
nodes in the order of the tail, in the order in which they were consumed, and those of the free list
from its last to its head (that the `next` of the nodes agree with it is part of `OnePlace`).

### NtyCo

`ready`, `waiting`, `sleeping`, `curr_thread`, `spawned_coroutines`, `eventlist` are the
fields of `nty_schedule`; `status`, `sleep_usecs`, `ops` those of `nty_coroutine`; `polled`
says which descriptor's `nty_poll_inner` a coroutine is inside. `pc` is the place in
`nty_schedule_run`, or `co` while a coroutine runs; `ret` and `last_co_ready` are where the
loop goes on. `Loop` to `EventsDone` are the loop's steps in order, `Create` to `Exit` the
operations of coroutines, each with every change the function makes. Details of the code
that the model keeps: the constants or-ed into the status are bit numbers, not bits; a
coroutine is searched in the sleep tree by its old key before it is inserted; colliding
keys are increased; `desched_wait` clears the status before it is looked at; a positive
`nty_coroutine_sleep` does not yield. The wait's timeout is left out, as all callers pass
the value that sets no timer. A step that fails an assertion or follows a null pointer goes to the place
`abort`. External: the clock (`Tick`), epoll readiness (`Arrive`: what is pending for
a descriptor in the set, where a hang-up stays, and what a batch in hand says does not change), and the program, which may take any
operation at any time but waits only for descriptors nobody else waits for.

`YieldAfterSleep` says whether programs call `nty_coroutine_yield` themselves after a
positive sleep. With FALSE the runtime is taken as its API suggests, and the run
`ntyco_sleep` shows what happens; everything else is checked and proved with TRUE.

### NtyServer

The places of `server()` and `server_reader()` are `step`; `cli_fd` is the variable whose
address is passed; `fd` a reader's copy. Each action is the code between two socket waits.
A failed `accept` is `AcceptFails`; descriptor -1 is `BadFd`, a key of the wait tree like any
other. The second reader of -1 fails an assertion of the runtime, and the process ends (`Aborted`). One of the 100 identical listening coroutines is modelled.

### CloudDisk

Tables are functions from their keys to rows: `file_info` to a sequence of rows per md5 (the
column is not unique), `user_file_list` and `share_file_list` per user and file,
`user_file_count` to one row at most (its key is unique). `run[p]` is the request of program
`p`: the statement it is at, and its local variables. An action is a procedure of the
code, its disjuncts are the statements in their order, each one atomic because the server
executes it so; `UNCHANGED` names what the statement leaves alone. `AddFile` is the end that three
programs have in common. The errors that the code's own logic produces are kept: a count without a
row ends the request, an `INSERT` that meets a unique key ends it (in `deal_md5` with the answer to upload
the file), a member that Redis does not have
ends `cancel_share_file`. That a server refuses or loses a statement is left out. Details
the model keeps: `process_result_one` looks at the first row only, an update
changes all rows of an md5; `del_file` takes a file for shared when anybody shares it and changes the
number of shared files then; `zlexcount`, which is defined for equal scores only, may miss
a member when there are others. External: FastDFS, which makes up a new id for every upload,
and the browser, which asks for the md5 before it uploads and offers what its page shows (with
`Stale`, anything). Registration, login, tokens and the pages that only read are left out, as
are the numbers of downloads. The properties count the rows of a table as the members of a set
(`ListRows`, `ShareRows`), repeated rows included.

### P2P

The network is the set of datagrams ever sent; any of them may arrive at any time, again, or never.
Datagrams that their receiver ignores are left out (messages, heartbeats, which no client
sends). `ServerLogin` and `ServerConnect` are the server's handlers, `RecvLoginAck` to
`EnterP2P` the receiving thread, where the stores to `p2p_count`, to each byte of the entry's address
(`StoreByte`) and to `status_machine` are steps of their own, and `king_send_connect`, `ReadCount`, `ReadByte`,
`SendToPeer` the sending thread, which reads the address byte by byte and uses it later. A byte of an address is
the client whose address it is a byte of, or zero. `get_index_by_clientid` without a result is any row.

Outside the model: the login after the last row and the connect after the last entry of `p2p_clients`, neither
of which the code refuses, so that it writes behind the array (the model stops at `KING_CLIENT_MAX` rows and `MaxPeers`
entries); a result of `get_index_by_clientid` beyond the table; and a failing `cmpxchg` in the server's login, which
takes a second thread, or other bytes than zero behind the 4-byte counter it compares as 8 bytes.

## Runs

| run | checks | shows |
|---|---|---|
| `array_queue` | `TypeOK`, `IndexOrder`, `Fifo`, `ReservationsOwned`, `CountAgrees`, `IInv`, `ImplementsFifo` | the queue is safe with three threads that do anything |
| `array_queue_bench` | `NothingLeftBehind`, `OwnValuesGrow`, `Finishes` | the test program hands everything over and ends, and each producer's numbers grow |
| `simple_queue` | `TypeOK`, `ClaimsInOrder`, `Linked`, `OnePlace`, `MovedIntact`, `Drained` | the linked queue's nodes are used and consumed in order, once, and in the end |
| `simple_queue_reuse` (violated) | `FlaggedIntact` | an item is read after its node was given to somebody else |
| `ntyco` | `TypeOK`, `Accounted`, `NoAbort`, `StopsWhenAllExited`, `SchedulerInv`, `SleepersLeaveOnTime` | no coroutine is lost, duplicated or used after free |
| `ntyco_live` | `ReadyRuns`, `SleepersWake`, `IoServed` | sleepers wake; ready coroutines run and events are served, each with its proviso |
| `ntyco_sleep` (violated) | `SleeperSuspended` | a positive sleep does not suspend |
| `nty_server` | `OnlyBadFdAborts`, `OneReaderPerConnection`, `ConnectionsAccepted`, `ReadersServed` | the server serves all, until a second failed accept ends it at an assertion |
| `cloud_disk` | `TypeOK`, `ZeroMeansUnreferenced`, `RefCountsAgree`, `UserCountsAgree`, `ShareCountBounded` | one exchange at a time, reference counts and users' counts agree with the lists after every sequence of requests; the number of shared files is only bounded from above |
| `cloud_disk_overlap` | `UniqueSharer`, `RowHasFile` | what holds when requests overlap, pages are old and programs are killed |
| `cloud_disk_race` (violated) | `ZeroMeansUnreferenced` | two requests at a time lose an update of the reference count |
| `p2p` | `TypeOK`, `Introduced`, `Mutual`, `SenderSafe` | peers are introduced, and mutual unless a datagram is lost; the sending thread uses an entry that exists, and the first peer's address in full (a later one may be incomplete) |

### Bounds, and why they are enough

- `array_queue`: three threads, three slots, two values, four enqueues. Three threads are
  what a stale test needs (one is delayed between its reads, one fills, one empties); four
  enqueues on a ring of capacity two make every slot be reused and the ring full and empty
  more than once. `IndexMod` 16 is more than the enqueues, so that no index wraps here, while
  the counter does pass below zero.
- `simple_queue`, `simple_queue_reuse`: two producers, two consumers, three enqueues: a node is
  removed, freed and used again while another consumer still has its index, which is what the
  versions are for (without them `OnePlace` fails within these bounds); about 500,000 states.
  `VersionMod` 4 is not reached: a version that comes back after 2^24 uses is outside the model.
- `array_queue_bench`: two producers, two consumers, two values each, on a ring that holds
  one element: producers meet a full ring and consumers an empty one.
- `ntyco`: three coroutines and two descriptors (two events in one batch while a third
  coroutine runs); a millisecond of two microseconds and a clock up to 5, so that keys
  collide, are increased, and pass. Coroutines and descriptors are interchangeable.
- `ntyco_live`: three coroutines, one descriptor, sleeps of one millisecond, without symmetry. `MaxTime` 2 does not
  end time here: `LiveSpec` has the step `Rebase`, by which the origin of time moves on when no sleeper's key is in the
  way, so that the bound is on how far clock and keys are apart and coroutines go on sleeping for ever; about 170,000
  states.
- `nty_server`: two accepts that fail, as the second one is what can end the process; the acceptor, three
  readers, two connections at a time, -1 and the listening descriptor. No coroutine of the server sleeps, so that the
  clock stands still. About 145,000 states.
- `cloud_disk`: two users and three files, two of which are one content under two names, so
  that one reference count covers rows of different users and of different files; twelve requests,
  one exchange (a request, or an md5 request with the upload it asks for) at a time; about 550,000
  states. Twelve are enough for both users to add, share, save, cancel and delete.
- `cloud_disk_overlap`: one file, since the properties are about one file or one content; three
  exchanges at a time, which is what a look-up, an insert and a removal in three programs need; five
  requests, any of them from an old page, and one kill; about 700,000 states.
- `p2p`: two clients, three logins (so that one is repeated), two entries of a list (a repeated
  connect, and an entry that is added in p2p mode), addresses of two bytes (so that one can be read half stored), and
  one notification, about any rows; about 1,240,000 states.

Deadlock is checked except where the system may simply stop: threads that no longer call the
queue at the bound `MaxEnqueues` (the `array_queue` runs other than the test program), browsers
at `MaxRequests`, and clients whose datagrams were all lost.

### Fairness, and why the code justifies it

- Test program: weak fairness of each thread: the kernel keeps scheduling runnable threads.
  A failed CAS is followed by another try, so that no stronger assumption is made.
- SimpleLockFreeQueue: weak fairness of each thread's steps; consumers call again and again, as in
  the test program, while nobody has to enqueue.
- NtyCo: the scheduler's loop is one thread that goes on; the clock goes on; and a running
  coroutine gives up control some time (cooperative programs). Nothing is assumed of which
  coroutine is chosen. `IoServed` has the premise that the ready queue drains again
  and again, since `nty_schedule_epoll` does not look at descriptors while a coroutine is ready. `ReadyRuns` has
  the premise that the scheduler comes to the ready queue again and again: the loop over expired sleepers
  (`nty_schedule.c:315-317`) goes on while any is due, and coroutines that take turns running longer than the
  other sleeps are due for ever. Without the premise the run shows that.
- Echo server: scheduler and program go on, and the kernel reports a listening socket with
  connections. `ConnectionsAccepted` and `ReadersServed` end with the process.
- Cloud disk and P2P: none, and no liveness is stated. No request is taken up again after a
  kill and no datagram is sent again, so nothing is guaranteed to come to an end.

## Findings

- `try_dequeue` of SimpleLockFreeQueue sets the consumed flag and reads the item afterwards. If an
  enqueue has linked another node by then, a second consumer moves the head on and frees the node, and a
  producer overwrites the item: one item is returned twice and one is lost. The test program counts items
  and does not look at them, so it cannot notice.
- `nty_coroutine_sleep` of a positive time puts the coroutine into the sleep tree and returns.
- The programs of the cloud disk read the reference count, change it and write it back. Two of
  them at a time lose an update, and `del_file` removes a stored file that, by its own
  comment, nobody refers to, while a user's list has it.

Not stated as violated properties, but part of the models:

- `nty_server` does not look at a failed accept: a reader for descriptor -1 waits for ever, and a second one fails
  `assert(co_tmp == NULL)` (`nty_schedule.c:172`). `EMFILE` fails again at once. The run `nty_server` has such behaviours
  (there `NoAbort` is false), and `OnlyBadFdAborts` says that nothing else ends the process.
- A P2P client that gets a second peer can send a message to an address that is partly zeros, since `p2p_count` and
  the address are read while they are written, and it does so even when the entry is complete by then. `SenderSafe` says what
  is left.
- The ready queue of NtyCo can starve behind expired sleepers (see Fairness).

One more is behind a bound of the runs. `ARRAY_LOCK_FREE_Q_DEFAULT_SIZE` is 65535, said to be 2^16: where the free-running indices wrap, two
outstanding ones would have the same slot. A 64 bit build never gets there; runs and proofs are about indices
that do not wrap.

## Proofs

All theorems hold for every value of the constants, under the assumptions on them that are
stated with the constants.

### ArrayLockFreeQueueProofs

Hypothesis `NoWrap`: fewer enqueues than 2^w - 1 (with a 64 bit index, any real run).
`InductiveInvariant` establishes `IInv`: besides types, index order and FIFO, it says that the
indices count the histories, that committed slots hold their value until they are read, and what a
thread inside an operation knows of the indices it has read. The point of the strengthening is the stale
tests: at `e_reserve` the thread knows an old read index that is not above the current one, and
an old write index close to it; if the CAS succeeds the write index was not stale, and a read
index that only grew leaves the room that the test saw. At `d_take` the value is right
if the read index has not moved. From it follow `TypeCorrect`, `NeverOverrun`
(`IndexOrder`), `FirstInFirstOut` (`Fifo`) and `ImplementsBoundedFifo`: every step maps to a
`Put`, a `Get` or a stutter.

`EveryReservationOwned` (`ReservationsOwned`) is inductive together with `IInv`, which has it that no two
threads hold the same index (`OneOwner`): a reservation adds an index at the upper end and a commit takes one away
at the lower, so that what is held leaves no gap. `CounterLags` (`CountAgrees`)
needs finitely many threads, because it counts them: each action moves at most one thread into or out of the
two sets, and the indices or the counter by as much, modulo 2^w.

### ArrayQueueBenchProofs

Hypothesis `NoWrap` again. The loops only take steps of the queue, so its invariant and its counter carry over;
`BenchInvariant` adds `BenchInv`, in which the counter a consumer tests is tied to the indices: the write
index is the number of pairs of a producer and a turn of its loop that has got a slot (`Reservations`), it is
ahead of `s_count_push` by the producers that have not added yet, and the read index is ahead of `s_count_pop` by such
consumers. `AllHandedOver` (`NothingLeftBehind`) follows by squeezing: a consumer is done when `s_count_pop` is at least
`Total`, and `s_count_pop` cannot exceed the read index, nor that the read limit, nor that the write index, nor that
`Total`. `ProducersValuesGrow` (`OwnValuesGrow`) is an action property: between the add and the second read the counter
is above the producer's last value, and it never falls.

### SimpleLockFreeQueueProofs

Hypotheses: fewer enqueues than there are versions (`NoVersionWrap`), and finitely many producers.
`InductiveInvariant` establishes `IInv`. What has to be shown is that a CAS on an index read some steps ago
succeeds only when nothing relevant has changed, and that needs the place of every node: `IInv` says that there
are functions `kind`, `at` and `ver` which assign every node its kind of place (not used yet, queue, free list, with a
thread), the position or the thread, and its version, such that

- queue, free list and threads have exactly the nodes assigned to them (`QueuePlaced`, `FreePlaced`,
  `HeldPlaced`, `FreshPlaced`), so that a node is in one place;
- an index ever enqueued has at most the node's version, and a smaller one once the node was taken up again
  (`VersionsGrow`), so that no index is enqueued twice;
- a thread that is popping from the free list has seen an index that is there still, with the `next` it
  has read, or whose node has a larger version now (`EnqueueKnows`): the ABA argument;
- a thread in `try_dequeue` has a head that is the current one or was passed, and in the first case the `next` it has
  read is the next one of the chain (`DequeueKnows`);
- versions and nodes are used up by calls of `enqueue` only (`Counted`), hence no version wraps.

There is one lemma per action, and for each the new functions are given. From the invariant follow
`TypeCorrect`, `ConsumedInOrder` (`ClaimsInOrder`), `QueueLinked` (`Linked`), `NoNodeLostOrShared`
(`OnePlace`) and `MovedItemIntact` (`MovedIntact`). The counterpart of the last for a thread that has set the flag,
`FlaggedIntact`, is false (see Findings).

### NtyCoProofs

Hypothesis `YieldAfterSleep`, which the lemmas about steps need only while somebody sleeps, so that they
hold for the echo server as well; that no two coroutines wait for one descriptor is in the
specification of the program. `Invariant` establishes `SchedulerInv`. None of the properties is
inductive alone: that no assertion fails needs that status bits are clear outside a wait
(`StatusClear`); that events find their coroutine needs that the events in hand are for
distinct descriptors whose coroutines still wait and are not running (`EventsAwaited`,
`WaitingPolled`); that nobody is taken out of the sleep tree needs that the keys of coroutines
outside it have passed and keys inside are distinct (`Keys`), for which `FreeKeyIsFree`
shows that increasing a key ends at a free one. There is one lemma per action. From the invariant
follow `TypeCorrect`, `NeverAborts`, `StopsLast`, `AllAccounted` and `SleepersOnTime`.
`EpollInTime` is the arithmetic of the epoll timeout: it never exceeds what is left until the first sleeper.

### NtyServerProofs

`ServerInvariant` establishes that `ServerInv` holds until the process ends at the assertion, and `AfterAbort` from then on,
however often accept fails. `ServerInv` is: the runtime's `SchedulerInv`, nobody
asleep, and of the program that each coroutine polls its own descriptor (`PollsOwn`), that readers share no
descriptor but -1 (`OwnDescriptor`) and that every open connection has one (`AllServed`). The part that makes it
inductive is `NewReaderFirst`: as long as a reader has not copied `cli_fd`, the server is not
resumed from a wait for connections, as there is no event for it in hand and the scheduler polls for new ones only
after a pass over the ready queue, where the reader is. That the server polls before it accepts
is therefore what protects the shared variable. The steps of the runtime are covered by the lemmas of
`NtyCoProofs`, as each socket wait is one of its actions. A wait is refused only where
`waiting` has the descriptor already, which by `OwnDescriptor` is -1, of two readers. From it follow `AbortsOnlyOnBadFd` (`OnlyBadFdAborts`) and
`EachConnectionServed` (`OneReaderPerConnection`), for any number of coroutines and connections.

### P2PProofs

`Invariant` establishes `IInv`, of `TypeOK` and four parts: what each datagram in the network
says about the past (`NetInv`: a connect is only on its way between clients of a notification, an
acknowledgement only from a client that has stored its peer), what the receiving thread knows while it
stores a peer (`RecvInv`), that an entry has the bytes of one introduced client, and zeros only when it is the last one and
being stored (`EntryInv`), and what the mode and the bytes read so far promise the sending thread (`SendInv`): p2p mode is
entered when the first entry is complete, so that only later ones are met half stored. The argument is
that the network and the lists only grow (`NetGrows`, `PeersGrow`), so that what a datagram said when it
was sent still holds when it arrives late or again. From it follow `TypeCorrect`,
`PeersIntroduced`, `PeersMutual` and `SenderIsSafe`, for any number of clients, rows and entries and
for every result of `get_index_by_clientid`.

### CloudDiskProofs

`Invariant` establishes `IInv`, for any number of users, files, overlapping requests and kills.
`RowHasFile` alone is not inductive: a removal could hit the file of another row or of an upload on its way
to its row. The invariant adds that rows name different files (`DistinctIds`), that an upload
holds a stored file no row names (`UploadHolds`), and that the id `del_file` has fetched is named
only by the rows it is about to remove (`DiscardNamed`), later by none (`DiscardUnnamed`).
`UniqueSharer` needs that nobody shares the file between the look-up and the insert of `share_file`
(`ShareInv`), which holds because only that program, one process, inserts shares. Almost all
statements leave the ids, the storage and the shares alone or only remove shares; they are `Ordinary`, and
`OrdinaryKeeps` covers them at once. From the invariant follow `TypeCorrect`, `OneSharer` and
`RowsHaveFiles`.

### CloudDiskCountsProofs

Hypothesis `OneAtATime`: exchanges do not overlap, browsers act on what their page shows, no program is killed,
and users and files are finite sets. These are the settings of the run `cloud_disk`; `cloud_disk_race` shows that
with two exchanges at a time a count is lost. The number of requests is any. The counts agree only between requests, so
`CountsInvariant` establishes `CountsInv`, which says what is true after every statement: there is one program
that may be at work (`Alone`), and each count is right up to what that program has in flight at the statement it is
at: a reference counted for a row that is not there (`InFlight`), a row the user's count leaves out (`Uncounted`), a share
counted too many or too few (`Slack`), a stored file without a row (`Loose`). What it has read (that the user has the file,
or shares it, the counts, the id) is still so when it writes (`KnowsList`, `KnowsShare`, `KnowsCount`,
`KnowsInfo`). A pending upload is part of this: its content is still missing when it arrives. Numbers of rows are
cardinalities, and the lemmas `AddedIn` and `DroppedFrom` say how they change with a row. From the invariant follow
`DiscardedIsUnreferenced` (`ZeroMeansUnreferenced`), `ReferencesCounted` (`RefCountsAgree`), `UsersCounted`
(`UserCountsAgree`) and `SharesCounted` (`ShareCountBounded`).

### What TLC said of the inductive invariants

`IInv` of the ring buffer and `SchedulerInv` are checked by the runs. `IInv` of SimpleLockFreeQueue, `BenchInv`,
`ServerInv \/ AfterAbort`, `IInv` of P2P and `CountsInv` were checked with the constants of the runs `simple_queue`,
`array_queue_bench`, `nty_server`, `p2p` and `cloud_disk` before they were proved.

### Only model-checked

The liveness properties: `Finishes`, `Drained`, `ReadyRuns`, `SleepersWake`, `IoServed`,
`ConnectionsAccepted` and `ReadersServed`; liveness under fairness is out of the prover's reach. The three
properties expected to be violated have counterexamples and no theorem. All other properties of the runs are proved.

## Not modelled

By far most of the repository's lines (more than 99 %) are vendored: redis in several versions, protobuf,
nginx, Linux 0.11, brpc, Lua, zookeeper and fuse. They are other projects' code, and the lines the map
covers are a small share of the whole for that reason. Of the repository's own programs, those with shared
state, messages or failures of their own are modelled; what is left does I/O in one process, is
sequential, or is listed under "Other parts" above.

## Plan

All safety properties of the runs are theorems. What could follow:

1. SimpleLockFreeQueue as an implementation of an abstract queue whose `Put` is the CAS of the tail and whose `Get` is the
   CAS of the head or of its flag, from the invariant that is proved.
2. The cloud disk's counts with kills instead of overlaps: which of them may then be too high, and that none is too low.
3. The pair that the P2P server introduces is the pair asked for, provided that both had a row before the newest one.
