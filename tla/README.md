# Verification of the pc02 access-control gateway

The repository is the C program of a door-access gateway that runs on a MIPS
board under OpenWrt: it talks to card readers over USB, to a server over TCP,
and keeps its timing in a software timer service of its own. This directory
holds TLA+ models of its core logic, the TLC runs that check them on small
instances and TLAPS proofs for all instances.

## Inventory

| component | source | state it keeps | operations |
|---|---|---|---|
| timer service | `osal/linux/os_timer.c` | 256 timer slots, 16 thread nodes, the free and active lists, one sorted queue, `current_timer` and condition variable per service thread; one global mutex | `os_timer_add/del/start/stop/reset/settime`, `thread_func` |
| osal timer wrappers | `osal/osal_timer.c` | a malloc'd cell holding the id | create, delete, start, stop, reset, change |
| osal queues | `osal/osal_queue.c`, `osal/linux/os_core.c` | a descriptor and a message size; the queue itself is the kernel's and outlives the program | create, delete, send, recv, with and without a timeout |
| osal semaphores | `osal/osal_sem.c`, `osal/linux/os_core.c` | the count, the deadline of each wait | take, release |
| osal threads | `osal/osal_thread.c`, `osal/linux/os_pthread.c` | a `thread_info_t` that is handed from the creator to the thread | `osal_task_create` |
| osal mutexes, spinlocks, debug output | `osal/osal_mutex.c`, `osal_spinlock.c`, `cv_osal_dbg.c` | none of their own | lock, unlock; print |
| network client | `app/sys/eg_net.c` | `sockfd`, `net_state`, receive buffer | `eg_net_init`, `reconnect`, `eg_tcp_send`, `net_thread_entry` |
| USB to 322 bridge | `app/sys/eg_usbto322.c` | table of readers `usb_ccid_322`, one thread and one stopped timer each | `eg_usbto322_init`, `eg_usb_thread_entry`, `alloc_322_index` |
| key list, TLV box | `app/sys/key_list.c`, `app/sys/tlv_box.c` | a linked list of key/value nodes; the cached serialized buffer | add, get, edit, delete; put, serialize, parse |
| start-up | `app/sys/main.c` | the globals | `global_init`, `main` |
| configuration | `app/sys/eg_9531.c` | configuration records | `cfg_reader_RD` (never called) |

Interaction: application threads call the osal wrappers, which call the timer
service. The service runs one thread per timer priority; that thread calls the
application back (the timer handler) without holding the global mutex, and the
handler may call the timer API again. The USB threads and the network thread
share no lock: a reader's thread is given its slot of the table while `main` goes
on filling others, and senders and the receiver share the globals of `eg_net.c`. `main` starts the USB bridge only; the network client is compiled
in but not started.

What is hard here is concentrated in the timer service: three kinds of threads
(callers, service threads, handlers) interleave over one mutex that is released
in the middle of almost every operation, slots are recycled while calls on them
are in flight, and two different kinds of waiters share a condition variable.
That is why it is modelled first. The hazards, each at its line and with the
properties that would catch it, are listed in `PROJECT.json`. Elsewhere it is
partial reads and state that is never restored after an error (network client),
timeouts, signals and crashes around a queue that is persistent (osal queues),
two clocks of which one may be set, and carries at a second's end (timed waits),
threads that start while their data is being set up (USB bridge), and list
corruption (key list).

## Modules

* `TimerService` - what the timer service promises, without mutex, queues and
  condition variables; `OsTimer` - the timer service and its wrappers as they are.
* `MCOsTimer` - names the clients as model values and gives the symmetry set.
* `OsTimerProofs` - type correctness of `OsTimer`, the lemmas on lists, that the
  lists stay exact, and what service threads rely on: sorted queues, wakeups,
  periodic timers and threads; `OsTimerOwners` - who owns the slots, when timers are
  served, and that `OsTimer` implements `TimerService`.
* `KeyMap` - what the key list promises, a table; `KeyList` - the list at the
  level of its links, which implements it; `KeyListProofs` - its invariants and the
  proof that it does.
* `EgNet` - the TCP client: connecting, sending, and the receiving thread's framing;
  `MCEgNet` - frames of `eg_net.c` for the run; `EgNetProofs` - its theorems.
* `TlvBox` - the boxes that are put together, serialized and parsed;
  `TlvBoxProofs` - that sizes are exact and the receiver reads what was put.
* `OsalQueue` - the message queues, with signals, crashes and restarts;
  `OsalQueueProofs` - that no message is duplicated or silently lost.
* `OsClock` - the arithmetic on timespecs; `OsWait` - the waits that use it, of a
  service thread and of a task that takes a semaphore; `OsWaitProofs` - that the
  arithmetic is exact, and what follows for the waits.
* `UsbTo322` - start-up, the USB bridge and the creation of its threads;
  `MCUsbTo322` - the ports of an instance; `UsbTo322Proofs` - its theorems.

### How OsTimer corresponds to the code

| variable | code |
|---|---|
| `clock` | `CLOCK_MONOTONIC`; milliseconds and timespecs are counts of ticks |
| `timer` | `__timer_array`; `interval` is `value.it_interval`, `event` the client whose handler the slot carries |
| `node` | `thread_array`, with the program counter and locals (`now`, wait deadline, client whose handler runs) of the thread it describes; `pc = "none"` is a node on the free list, any other is one on `thread_active_list` |
| `timerFree`, `threadFree` | `timer_free_list`, `thread_free_list` |
| `call` | the API call each actor is in: the step it is about to take and its locals |
| `id` | the variable in which a client keeps the id of its timer |

Everything between a lock of `__timer_mutex` and the unlock, or the
`pthread_cond_wait` that releases it, is one action. What the code does outside
the mutex is a separate action, because other threads run in between:

* `os_timer_add` is `Add` (`__timer_create`), `AddRecord` (type and period),
  `ReadClock`, one of the `Settime` actions, `Wakeup` if the timer became the
  head of the queue, `AddStore` (`*timerid = tid`);
* `os_timer_start`/`os_timer_reset` are `Start`, then `ReadClock` and so on;
  `os_timer_stop` is `Stop`, then `ReadClock`; `os_timer_settime` is `Period`;
* `osal_timer_change` is `Change` (stop), `ChangePeriod`, `ChangeStart`, and
  goes on whatever each call returned;
* `os_timer_del` is `Delete`, or `Delete` and `DeleteResume` each time the
  waiting caller is woken, then `Forget`, the caller's `timerid = 0`;
* `thread_func` is `Run` (clock read afresh, first due timer or wait),
  `CallHandler` (`timer->event` is read after the mutex was released),
  `HandlerReturn` (the inner loop goes on with the time read earlier) and
  `Timeout`; `SpuriousWakeup` is what POSIX allows a condition variable.

Data is abstracted: the handler and its argument are the client they belong to,
and `list_links` pairs are sequences. `list_unlink_ip` is `Without`, the
identity when the node is on no list; a slot has one pair of links, so taking a
slot off "whatever list it is on" is modelled on the queues and the free list
alike. The loop that skips missed periods is `NextExpiry`, in closed form.

Clients follow the notes of the API (`os_timer.c:1102-1112`): they create a
timer only while their id variable is 0 and clear it after a delete. A handler
acts on the id variable of the client that created its timer, as application
code does with a global; so a client and the handler of its timer race on it.
A call with an id of 0, or with a period of 0, returns an error at once, changes
nothing, and is not an action; neither is an `os_timer_add` that finds the pool
empty.

`TimerService` is what an application sees. A timer is free, idle or running, and
running means due at some time with some period (0 for a one-shot timer); a thread
serves a timer or none. In the mapping (`SlotView`, `ServingView`) a timer runs while it
is on a queue, and a thread serves from the moment it takes a timer as due until its
handler has returned. `Serve` says that the timer is due, that no other of the thread is
due earlier, that a one-shot timer is then idle and a periodic one due again a whole
number of periods later (`NextDue`); `Delete` says that nobody serves the timer. There
is no action for stopping, and none for a handler that deletes its own timer: what the
code does then is no simple service, as the first finding shows.

### How KeyList and TlvBox correspond to the code

Both are sequential: a function is an action, and a call that returns -1 changes
nothing and is none. In `KeyList`, `list` is the `key_list_t`, `heap` maps every
allocated address to its `key_list_node_t`, and `owner` is a history variable:
who has to free each value. The caller hands over a value it owns; the releaser
makes it freed; `key_list_edit` makes the old one dropped, because the code does
not release it. The refinement mapping `MapOf` is what `key_list_get` answers.

In `TlvBox` a box is its list of tlvs (newest first, as `key_list_add` leaves
them), `m_serialized_buffer` and `m_serialized_bytes`. Values are bytes; `Load`
and `Store` are a variable's memory under the host's byte order and `Hton` the
conversion, so that a missing or doubled conversion shows. Types of a message
stand for what the two ends agree on, since the buffer carries no data types; a
type that holds a box holds nothing else (`AgreementAssumption`), because
`tlv_box_get_object` parses whatever it finds. `Wire` is the loop of
`tlv_box_serialize`, `ParseTlv` one round of the loop of `tlv_box_parse` and
`ParseLoop` all of its rounds.
`tlv_box_parse` is applied to buffers that some box was serialized to: the code
checks neither lengths nor types. `short` lengths are not exceeded (`MaxBytes`).

### How EgNet corresponds to the code

`sockfd` and `net_state` are the globals of `eg_net.c`; no lock protects them, so
`reconnect` is one action per access: `Socket` assigns `sockfd`, `Connect` reads
it again (another caller may have replaced it), `Connected` or `ConnectFails` is
the outcome. `eg_net_init` takes the same steps as `Main` and ends with `Spawn`,
after which there may be no thread: then `osal_assert` fails or, in a release build,
is empty and the program goes on. `eg_tcp_send` is `SendReconnects`, or `Send` (the
test of `net_state`), `SendOn` (`send` reads `sockfd`) and `Sent` or `SendFails`.
`net_thread_entry` is `RecvHead`, `RecvBody` (with `eg_tcp_main_proc`, recorded in
`handled`), `RecvError` (-1) and `RecvHeadEnd` (0).

The stream is a sequence of units, each a character of a frame: 14 for a header, two
for each byte of data and 8 for a trailer. A unit says which character of which frame
it is, and `Digit` which hexadecimal digit it stands for, so that `HeadMatches`
compares the digits of the magic and `HeadLength` reads the digits of the length
wherever the 14 characters come from. That matters after a cut: the magic `01010101`
overlaps itself if the command that follows it is `01`. A `CONNECT_ACK_STR` of which
the first two characters arrive alone is read again two characters later as a header
with length 0100, and `HeadersGenuine` says that this is the only kind of frame that
can be misread. `Messages` are the messages of the server; `MessageAssumption` says
that they have at most 256 bytes of data, `DataAssumption` that the data does not
contain the magic. `Arrive` delivers whole frames or cuts the stream anywhere; the
history variable `cut` records that it did, and `InOrder` and `AllHandled` are about
runs without a cut. What was not received when the connection is reset is lost.
No caller in the repository starts the client: `Senders` are the threads from which
`check_IDcard` was called.

`getByte[2048]` and `array_data[256]` have no size in the model. A frame within
`MessageAssumption` fits; the length of a header that was misread may not, and what
`recv` and `StrToHex` then write to is not modelled.

The properties say what the code does achieve. What it does not is visible in
the model: a frame that is received in parts is lost with some that follow it, a
closed connection makes the receiver spin, and after a failed connect `net_state`
stays 0 for good. If there is no receiver, because `eg_net_init` could not connect or
the thread could not be made in a release build, a caller that was past the test of
`net_state` sends on a connection that somebody else's `reconnect` has made, and
nobody reads the answer; `AnswersAreRead` is about the time in which the receiver
runs. No text in the repository promises otherwise, so these are
listed as hazards and not as findings.

### How OsalQueue corresponds to the code

`mq` is the kernel's queue (its `mq_msgsize` and messages), `queue` the program's
handle, `call` the call that each task is in. A call enters (`Send`, `Recv`), the
kernel lets it go on (`SendPuts`, `RecvTakes`) or fail (`SendFails`, `RecvFails`),
a signal interrupts it (`SendInterrupted`, `RecvInterrupted`), and it returns
(`SendDone`, `RecvReturns`); between taking a message off the queue and returning
it the program may crash. `Crash` forgets the handle and the calls and keeps the
queue; the next `Create` opens it again, with the size that it had. `sent`,
`received` and `lost` are histories. What the kernel does is external and taken
from POSIX; the message that comes first is left open, which covers every
priority. Messages of length 0 are in: a timed receive takes them for a timeout.

### How OsClock and OsWait correspond to the code

The operators of `OsClock` have the names and the carries of the C functions, with
their literal constants. A clock is a number of nanoseconds; `clock_gettime` and
`gettimeofday` convert it. In `OsWait` a service thread goes through the end of
`thread_func`: `Loop` compares, `ReadMono` and `ReadWall` are the two readings,
with time passing and the wall clock being set between them, and `Wake` ends the
wait at any moment, which covers the deadline, a broadcast and a spurious wakeup.
`due` and `slack` are histories. The queue and the mutex, which `OsTimer` models,
are left out: one timer is enough for the conversion. `TakeBegins` is `os_sem_wait`
up to the wait, with the deadline that the queues compute in the same way.

### How UsbTo322 corresponds to the code

`GetList` is the call of `luareader_get_list` and the loop that cuts its output,
byte by byte, into names; `FillSlot`, `TaskAttr`, `TaskInfo`, `TaskCreate` and
`CreateTimer` are one round of the device loop with the calls it makes, each of
which may fail; `Start`, `Connect` and `Out` are the thread. `release` is whether
`osal_assert` is compiled in. Slot -1 is the memory before the table, which
`alloc_322_index` gives to a port it does not know. The library `luareader` is
external: it lists each reader once, in any order, and a connect may fail.

## Runs

Bounds are chosen so that the smallest instance in which the hazard can occur is
included; every run is exhaustive. `MaxTime` stops the clock, which is the only
unbounded counter: periods are 1 or 2, so with 2 or 3 ticks a periodic timer
fires, is requeued, misses a period and fires again. Clients are symmetric in
the safety runs; the liveness runs use no symmetry.

| run | instance | checks |
|---|---|---|
| `timer_queue` | 2 timers, 1 thread, 2 clients that add and start, 2 periods | `TypeOK`, `QueueSorted`, `NoLostWakeup`, `ServesDue`, `ImplementsService`: clock reads, insertions and broadcasts in any order |
| `timer_ops` | 1 timer, 2 clients that add, stop and change, a handler that starts, changes and deletes its timer | `ListsExact`, `PeriodicQueued`, `PoolConserved`, `IdsLive`, `TimersReachable`: calls that come too late do no damage, and no timer is lost to its owner |
| `timer_threads` | 1 timer, 2 clients that add and delete, a handler that restarts its timer; 3 priorities for 2 thread nodes, `pthread_create` may fail | `OneThreadPerPrio`, `ServicedIntact`, `ImplementsService`: a slot is not recycled under its running handler |
| `timer_live` | 1 timer, client and handler start and delete it, fair | `DueIsServed`, `DeleteReturns` |
| `timer_delete_stopped` | 2 timers, clients add, stop and delete | `ServicedIntact` is violated |
| `timer_delete_twice` | client and handler delete the same timer | `PoolConserved` is violated |
| `net` | 2 frames, each `CONNECT_ACK_STR` or `HBM_REC`, whole or cut anywhere, or 2 senders and 3 sockets (`Apart`), fair | `InOrder`, `HeadersGenuine`, `AnswersAreRead`, `AllHandled` |
| `key_list` | 3 keys, 4 values, 3 cells | `TypeOK`, `WellLinked`, `ValuesOwned`, `ImplementsTable` |
| `tlv_box` | 2 boxes, a type of each kind, little-endian | `SizeExact`, `RoundTrip` |
| `osal_queue` | 2 tasks, depth 1, 2 sizes, 3 lengths, 2 timeouts, 2 messages, 1 crash, fair | `TypeOK`, `ExactlyOnce`, `TimedCallsReturn` |
| `os_wait` | 1 task, periods and timeouts of 1, 400 and 1000 ms, a wall clock that starts near a carry and is set once | `TypeOK`, `NotEarly`, `OversleepBounded`, `TakeDeadline` |
| `usb_bridge` | 2 ports with a slot and 2 without, up to 3 listed, fair | `OwnReader`, `WithinTable`, `InfoHandedOver`, `AllServed` |

Three cells let a node be removed at the front, in the middle and at the end, and
the fourth value is one that replaces another. With 20 bytes a box holds three
numbers or a box in a box in a box. A little-endian host is the one on which the
conversions do something (the target is big-endian).

In `net` the frames are characters, and two of them have a state for every way in which
the stream can be cut: one message is the one whose header can be misread, the other has
no data. Two senders are enough for one that is past the test of `net_state` and one
that reconnects and replaces the socket under it. `Apart` keeps the two questions apart:
in a behaviour either the server sends or senders do, because the receiver and the
senders have only `sockfd` in common, which senders do not write while there is a
receiver; the proofs cover both together, for any number of each.

A queue of depth 1 is full after one message and empty after one receive; two
messages let one pass the other by way of a crash. In `os_wait` the wall clock
starts 400 ms and 400.0005 ms before a second's end, so that sums hit the carry
exactly and miss it by less than a microsecond; the proofs cover all values. With
two slots and three readers the table is full while readers are left over.

The two violations are findings:

1. `__timer_delete` waits for a running handler only if the timer is armed
   (line 854). After a stop it is not, so the slot is freed, and may be reused,
   under the handler. The comment at line 861 promises the wait.
2. A deleter that has slept does not check `timer_valid` again (line 863). If
   the handler deleted the timer meanwhile, the reference count goes to -1 and
   the slot is lost: the pool shrinks by one each time.
Observed, but contradicting nothing that the repository states: the timer is armed
before `*timerid` is stored (line 1170), so a handler may find no id to delete its
timer by; `TimersReachable` shows that the id is stored in the end.
`osal_sem_take` reports a timeout as `ERROR_UNDEFINED`: the branch for `TIMEOUT` is
dead. A reader on a port without a slot is written to memory before the table.
Memory is leaked when a put is refused (`tlv_box.c:111`), when `key_list_edit`
replaces a value and when a thread cannot be created (`osal_thread.c:36`). Queue
names are cut at 31 characters (`os_core.c:284`), and a nested box of 32768 bytes
or more would have a negative length (`tlv_box.c:166`).

`ServicedIntact` is not checked where handlers delete themselves: there the
slot may of course be recycled before the handler returns, and the code says so
(line 432).

### Fairness

`FairSpec` asks for weak fairness of the steps of a call in progress, of the
service threads and of the clock, and strong fairness of the return of a
handler, which may make any number of calls before it returns. The code's
threads are POSIX threads that are never suspended, all waits are bounded or
signalled, and a handler that never returns would block its priority by design.
No client is obliged to make a call, and no spurious wakeup is assumed.
Weak fairness of a single critical section takes the mutex to be handed to every
thread that keeps asking for it; with a bounded clock a service thread cannot
monopolise it, which an endless stream of handlers with a period shorter than
their running time could do.

`FairSpec` of `EgNet` asks that `eg_net_init` runs to its end, that what was sent
arrives unless the connection is reset, and that the receiving thread runs; `Apart`
restricts none of these steps. The run of `EgNet` does not check for deadlock: once
`eg_net_init` has failed and nobody sends, nothing happens.

`FairSpec` of `OsalQueue` asks that tasks inside a call run when the kernel lets
them and that time passes; signals may come at any time and need not. That of
`UsbTo322` asks that `main` and the reader threads run; its run does not check for
deadlock, because everything sleeps in the end. Neither asks for fairness between
threads: every wait is for the kernel or for nobody.

## Proofs

`OsTimerProofs` proves, for any number of slots, thread nodes, clients,
priorities and periods (under `SizeAssumption`, `ClientAssumption`,
`PeriodAssumption` and `OpsAssumption`, which say that there is at least one
slot and one node, that clients and nodes are different things, that periods are
positive and which calls exist):

* `TypeCorrect`: `Spec => []TypeOK`. `TypeOK` alone is not inductive: a step
  deep inside a call uses locals that an earlier step set. The invariant
  `TypeInv` adds that each step finds them (`CallLocals`, `ServiceLocals`), that
  a timer in use or on a queue has a thread and a client's handler
  (`HandlersKnown`), and that the free list of thread nodes holds nodes without
  a thread, once each (`FreeThreads`), without which spawning a thread could
  overwrite one that is running a handler. The lemmas say what removing from and
  inserting into a queue returns (`RemoveAtLemma`, `InsertAtLemma`,
  `QueuePosLemma`, `WithoutLemma`), what each helper does to a record, and one
  lemma per group of actions shows `TypeInv` preserved.

* `ListsCorrect`: `Spec => []ListsExact`, for every choice of the calls that
  clients and handlers make, the double deletes of the second finding included.
  The invariant needs `RefsExact` with it: `timer_delref` puts a slot on the free
  list when the count reaches 0, so one has to know that outside the mutex the
  count of a slot in use is 1, of a free one 0, and of one that was deleted twice
  negative. Lemmas say what each list operation does to the set of elements and
  that it keeps them distinct (`WithoutSet`, `InsertSet`, `AppendSet`, `TailSet`);
  a lemma per group of actions then shows the invariant preserved.

`OsTimerProofs` also proves, under the same assumptions and for every choice of calls,
`QueuesSorted`, `WakeupsKept`, `PeriodicTimersQueued` and `ThreadsByPriority` (the
properties `QueueSorted`, `NoLostWakeup`, `PeriodicQueued` and `OneThreadPerPrio`).
They are one invariant, `ServiceInv`, on top of types and exact lists, because they
need each other: that no wakeup is lost is said of the first timer of a queue, so one
has to know what the first one is after an insertion, a removal or a requeue, which
is what a sorted queue tells; a queue stays sorted only because an expiry is changed
while the timer is off every queue, which is what exact lists tell. Each action is
followed by what it does to the first timer of each queue: it stays, it goes and the
next one is later, or an earlier one comes and the caller goes on to `Wakeup`.

`OsTimerOwners` proves what the code does not promise to every application and names
the condition. `OneDeleter` says that handlers do not delete timers, or that clients
do not and all timers have one priority (then no two threads delete at a time); it
holds in the instances `timer_ops` and `timer_threads`. Under it `PoolKept`,
`StoredIdsLive` and `NoTimerLost` prove `PoolConserved`, `IdsLive` and
`TimersReachable`. Without it the second finding breaks them: `timer_delete_twice`.
The invariant `OwnerInv` adds to the three properties what is under way: a call of
`os_timer_add` holds a live timer of its own that no variable names yet (`AddsOwn`), a
deleter that waits holds the timer its owner's variable names, and once it was
deleted its owner has no other until the variable is cleared (`DeletesOwn`).
`NoStops` says that handlers do not delete and nobody stops or changes a timer; under
it `ServicedKept` proves `ServicedIntact`, by way of `ServicedInv`: the timer whose
handler a thread is about to call or runs is live, that thread's and armed
(`ServesLive`), so that a deleter waits for it; no call other than `os_timer_add`, on a
timer that was never armed, passes a zero value (`CallsLive`, `HasPeriod`). With stops
the first finding breaks it: `timer_delete_stopped`.

`ServedWhenDue` (`ServesDue`) needs none of these conditions. `thread_func` goes on after
a handler with the time it read before, so the invariant `NowKnown` says that this time
is not in the future; the sorted queue (`ServiceInv`) makes the first timer the one
that is due first, and `NextExpiryDue` shows, for every period and every delay, that the
loop that catches up leaves out periods that are over and no others.

`ServiceImplemented` puts the parts together: under `NoStops`, `Spec` implements
`TimerService` (`ImplementsService`). There is a lemma for each kind of step that an
application can see, with the invariants that make it one: `SeenCreate` (a spawned
thread had no timers, because live timers belong to running threads), `SeenStart` (the
call is about a live timer, and a zero value never reaches a running one), `SeenDelete`
(nobody serves the timer, by `DeleteUnserved`), `SeenServe` (by `DueStep`) and
`SeenFinish`. `SeenNothing` covers the steps that change nothing an application sees:
clock readings, records of periods, broadcasts and wakeups.

`EgNetProofs` proves `AnswersCorrect`: `Spec => []AnswersAreRead`. The invariant
`NetInv` explains why the unprotected globals do no harm: a sender is inside
`reconnect` only if `net_state` is 0 (`SendersIdle`), which means that
`eg_net_init` has given up and there is no receiver and never will be
(`Disconnected`, `AfterInit`). So while `net_state` is 1 no socket but `sockfd` was ever
opened (`OneSocket`), and what was sent went out on a socket that was opened
(`AskedOpened`); when the receiver runs, `net_state` is 1. No assumption is made on
when a sender that has passed its test goes on.

`HeadersCorrect` (`HeadersGenuine`) holds however the stream is cut, from
`MessageAssumption` and `DataAssumption`. `HeaderInv` says that each unit of a
connection, received or on its way, is followed by the rest of its frame as far as the
stream goes, and that a stream that was not reset ends with a frame (`StreamsRun`), so
the 14 characters that `HeadMatches` looks at are consecutive in one frame until that
frame ends. `MagicLemma` says where eight digits of a frame, or as many as are left of
it, can agree with the magic: at the first character, or, if the command is
`CMD_CONNECT`, at one of the next eight; from the tenth on `DataAssumption` excludes it.
`ReceiverReads` carries this over from the first `recv` to the second.

`FramesInOrder` (`InOrder`) needs more: as long as nothing is cut, what is in the socket
and on its way are whole frames, consecutive from the one the receiver expects
(`InStep`), and nothing is sent before a connection is made (`NothingSent`).
`WholeHeader` says that the header of a frame passes the test and that the length that
is read from its digits is the number of characters that follow.

`OsWaitProofs` proves for all periods, timeouts and clock values (under
`WaitAssumption`, which says that these are natural numbers) `NeverEarly`,
`SleepBounded`, `DeadlineCorrect` and `WaitTypeCorrect`, the four properties of the
run `os_wait`. The lemmas `AddExact`, `SubExact`, `CompareExact`, `MillisExact`,
`ClockExact` and `DeadlineExact` say that each C function computes the sum, the
difference, the order or the deadline exactly and leaves `tv_nsec` in range. The
inductive invariant adds that the timespec of the first timer is the time it is
due (`ExpiryExact`) and that between its two readings the thread holds the time
that was left at the first one (`LeftExact`). C integers are taken to be unbounded
here: a 32-bit `time_t` overflows in 2038 and a timeout is less than 25 days.

`OsalQueueProofs` proves `ExactlyOnceCorrect` (`Spec => []ExactlyOnce`) and
`QueueTypeCorrect` for any number of tasks, messages, sizes, timeouts and crashes,
under `QueueAssumption` (the numbers are natural, the depth and the sizes positive,
and no task is one of the three other places of a message). `ExactlyOnce` is not
inductive, because it says nothing of a call that is under way. The invariant `QInv`
adds that each call of `osal_queue_send` has a message of its own (`Sending`), which
is nowhere before the kernel took it and somewhere afterwards, even if a receiver is
faster than the sender's return (`Put`); that a task about to return from
`osal_queue_recv` holds a message (`Taken`); that the kernel's queue has no message
twice (`UniqueIds`); and that a message is never in two places (`Located`). One lemma
per kind of step then follows the one message that moves and shows that no other does.

`UsbTo322Proofs` proves for any table of ports and any finite set of readers (under
`PortAssumption`: no port is twice in the table, and a name is one character that is
not NUL) `ReadersOwn`, `InfoOwned` and `TableKept`, the properties `OwnReader`,
`InfoHandedOver` and `WithinTable`. `UsbInv` adds that the slot of a device is filled
before its thread exists and keeps its name until the thread has connected
(`SlotsFilled`), for which `IndexInjective` shows that another reader with the same
slot is the same reader; and that devices to come have no thread (`NotYet`). For
`TableKept` the lemma `SplitCorrect` shows that the loop over the output of
`luareader_get_list` cuts it into exactly the names in it, up to the size of the
table, for lists of any length; `TableInv` adds that init is at one of them.

`KeyListProofs` proves for any keys, values and finite memory (`NullAssumption`)
`ListTypeCorrect`, `LinksCorrect`, `ValuesCorrect` and `ListImplementsTable`: the three
invariants of the run `key_list`, and that the list implements `KeyMap`. `WellLinked`
speaks of walks and is not inductive as it stands; the invariant `ListInv` says instead
that there is an order of the nodes (`IsOrder`) in which each one's `next` and `prev`
are its neighbours, and that keys are unique. Each operation is followed by the new
order: one node more in front, one left out. `WalkInOrder` then says what the walk, a
recursive function, computes, `ViewsHold` what the search for a key finds, and
`TableViewHolds` which table that is. Create is a step that leaves the table alone,
destroy is `Clear`, and the others map to the action of the same name.

`TlvBoxProofs` proves `SizeIsExact` (`SizeExact`) and `ReadsWhatWasPut` (`RoundTrip`)
for any boxes, any types and numbers within a positive `short`, any size that a
`short` length can state, both byte orders, and messages that are nested and passed on
any number of times. It goes up in layers. On numbers: `NumberDigits` and
`DigitsNumber` say that two or four bytes and the number they stand for determine each
other, `LoadStore` and `StoreLoad` the same of a variable's memory, and `NetworkOrder`
that what is stored after `htons` or `htonl` is in network order on either host. On
bytes: `EncodeFacts` says what the bytes of one tlv are, `WireFacts` that the tlvs of a
list lie in the buffer one after the other at the offsets that `IsOffsets` adds up,
`WireSize` that the buffer's length is `TotalSize`. On parsing: `ParseTlvFacts` says
that a round that starts at the offset of a tlv reads that tlv and stops at the next
offset; `ParseWire` concludes that the loop makes of `Wire(l)` the list `Received(l)`,
which is `l` in reverse order, numbers in network order, and nothing but bytes; and
`ReadReceived` that the get functions read from it what was put into `l`. The two
properties are not inductive, for two reasons. The list of a box that was parsed is
not the one that was serialized, so the invariant says that a buffer is `Wire(l)` for
some list `l` that the box holds either as it was put or as it was received. And
`tlv_box_get_object` parses bytes out of a message that was parsed itself, at any depth,
so `Inv` says that there is a set of messages, closed under taking a box out of a
message (`Closed`), in which every buffer and every nested box is.

Induction is by `LeastNumber` (a set of numbers that is not empty has a least element),
derived from the library's theorem that finite sets are well-founded under strict
inclusion: the library's own induction rules take a predicate as a parameter, which the
provers cannot instantiate, but a set of counterexamples is a first-order thing. It is
used for the walk of the key list, the flattened list of names, and the folds and loops
of the TLV box (`FoldExists` says once that a fold over a sequence has the values its
steps give it).

Every invariant, every action property and both refinements that the runs check are
proved: `ServicedIntact`, `ImplementsService` and the three properties of ownership under
the conditions that `OsTimerOwners` names, the others from the assumptions on the
constants alone. Only model-checked are the liveness properties
(`DueIsServed`, `DeleteReturns`, `AllHandled`, `TimedCallsReturn`, `AllServed`): fairness
is defined by `ENABLED`, which is out of the prover's reach.

## Not modelled

In the network client SIGPIPE, and the sizes of its buffers, as said above. In the USB
bridge a port's name is one token: `device_str[32]` and `usb_port[16]`, into which
names are copied, have no size in the model. The TLV box has numbers from 0 to 32767
and boxes of up to 32767 bytes.

In the timer service `thread_cleanup` (service threads are never killed by this
program), `reinit_after_fork`, the signal thread, absolute times and
`overrun_count` (written, never read). In the USB bridge the state machine of the
reader threads, which is compiled out (`#if 0`), `timer_usb_callback`, whose timer
is never started, and the entries `eg_usb12_thread_entry` to
`eg_usb15_thread_entry`, which nothing starts. Mutex and spinlock wrappers are one
POSIX call each and have no caller. `cfg_reader_RD` and the ubus client of
`eg_9531.c` are not called. Debug output, demos, headers that declare other
products' modules (`cv_*.h`) and third-party headers hold no logic of this
program; the last are most of the repository's lines (`sqlite3.h` alone is nearly
half), so a share of all lines says little about how much of the program's own
code is modelled.

## What is left

1. `TimerService` with stopping and with handlers that delete their own timer. Both
   need the two findings to be repaired first; then `NoStops` can be dropped and the
   actions added.
2. A stream of frames that the receiver of `EgNet` implements while segments are
   whole; `FramesInOrder` states the part of it that matters most.
3. The liveness properties stay with TLC.
