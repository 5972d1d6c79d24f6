# EtcPal in TLA+

EtcPal is ETC's platform abstraction library: one C interface (and a C++ one
above it) to threads, locks, queues, sockets, timers, logging and network
interfaces, on Linux, macOS, iOS, Windows, FreeRTOS, MQX, Zephyr and lwIP. This
directory holds TLA+ specifications of its stateful and concurrent parts and of the
conversions they rest on, configurations that check them with TLC, and proofs that
TLAPS checks.

Paths such as `etcpal/queue.c` are below `src/src/`, and `cpp/log.h` is
`src/include/etcpal/cpp/log.h`. `PROJECT.json` maps every definition to the lines
it models, and lists runs, mutants, findings, hazards and theorems.

## The system

| Component | State | Operations | Hard part | Modelled in |
|---|---|---|---|---|
| Queue, `etcpal/queue.c` (Linux, macOS, Windows) | ring of size + 1 nodes, `head`, `tail`, `queue_size`, three semaphores | create, destroy, send, receive (blocking, timed, from ISR), reset, four queries | three semaphores must agree with the ring between any two steps | `Queue`, `BoundedFifo` |
| Queue, `os/{freertos,zephyr}/etcpal/os_queue.c`, `cpp/queue.h` | the kernel's queue | the same | hand-over between waiting threads, interrupts, reset | `KernelQueue` |
| Read-write lock, `os/{freertos,mqx,windows}/etcpal/os_rwlock.c` | one semaphore, a count of readers | read and write locks (blocking, try, timed), unlocks | readers leave without the semaphore while the writer spins | `SpinRwLock`, `RwLock` |
| Read-write lock, `os/zephyr/etcpal/os_rwlock.c` | two semaphores, an atomic count | the same | the last reader out and the first one in | `ZephyrRwLock` |
| Event groups, `os/{linux,macos,windows,zephyr}/etcpal/os_event_group.c` | bits, mutex, condition variable | wait, timed wait, set, clear | wake-ups, signal against broadcast, time-outs | `EventGroup` |
| Signals, `os/*/etcpal/os_signal.c` | flag, mutex and condition variable, or a kernel object | create, destroy, post, wait, try, timed wait | coalesced posts, spurious wake-ups | `Signal`, `AutoReset` |
| Threads, `os/*/etcpal/os_thread.c`, `cpp/thread.h` | handle, join signal, callable | create, join, timed join, terminate, move | who frees what, and when | `Thread` |
| Handle manager, `etcpal/handle_manager.c` | last handle, "wrapped" flag | next handle | wrap-around, running out | `HandleManager` |
| Timers, `etcpal/timer.c`, `cpp/timer.h` | start tick, interval | start, reset, elapsed, expired, remaining, time points | a clock that wraps | `Timer` |
| Memory pools, `etcpal/mempool.c` | free list, counter, one lock for all pools | init, alloc, free | the list's links under one lock | `MemPool` |
| Red-black tree, `etcpal/rbtree.c` | nodes, root, size | insert, remove, clear, find, iterate | rebalancing; iterators without parent links | `RbTree` |
| Library lifecycle, `etcpal/common.c` | a counter per module, the log handler | etcpal_init, etcpal_deinit, etcpal_init_log_handler | several users, failures half-way | `Lifecycle` |
| C logging, `etcpal/log.c` | three static buffers and their mutex | etcpal_log, etcpal_vlog, strings in a caller's buffer | buffers shared by threads; lengths | `CLog` |
| C++ Logger, `cpp/log.h`, on Signal, Mutex and Thread | message queue, two signals, dispatch thread | Startup, Shutdown, Log | stopping while others log | `Logger` |
| Network interfaces, `etcpal/netint.c`, `os/*/etcpal/os_netint.c` | the cached list, its mutex, routing tables | init, deinit, refresh, queries | refresh against query, partial failures, choice of route | `Netint` |
| Poll contexts, `os/*/etcpal/os_socket.c` | a tree or array of sockets and the system's set | init, deinit, add, modify, remove, wait | the two must agree; failed calls; overlapping waits | `PollContext`, `PollApi` |
| Control data, `os/*/etcpal/os_socket.c` | the caller's memory | recvmsg, cmsg_firsthdr, cmsg_nxthdr | lengths that are not carried along | `Ancillary` |
| Socket options, `os/*/etcpal/os_socket.c` | the system's options and memberships | setsockopt, getsockopt | a different translation on each port | `SocketOptions` |
| Other socket calls, `os/*/etcpal/os_socket.c` | sockets, modes, lists of addresses | init, deinit, socket, accept, close, set/getblocking, recvfrom, getaddrinfo, nextaddr, freeaddrinfo | a conversion that fails after the system has acted | `SocketCalls` |
| ACN root layer, `etcpal/acn_rlp.c`, `acn_pdu.c` | the parser's last PDU | pack and parse headers and blocks, preambles | fields inherited from the PDU before, lengths of 12 and 20 bits | `AcnRlp` |
| Addresses, `etcpal/inet.c`, `os/*/etcpal/os_inet.c`, `cpp/inet.h` | none | kinds, comparison, masks, MAC text, system forms | byte orders; total orders | `Inet`, `InetLaws` |
| UUIDs, `etcpal/uuid.c`, `os/*/etcpal/os_uuid.c`, `cpp/uuid.h` | none | text, comparison, V1 to V5, device UUIDs | version and variant bits, byte orders | `Uuid` |
| Error codes, `etcpal/error.c`, `os/*/etcpal/os_error.c` | none | text, translation | one condition, seven tables | `ErrorCodes` |
| Expected, `cpp/error.h` | a flag and a union | construct, copy, move, convert, destroy, ask | the union's member is built and destroyed by hand | `Expected` |

The components meet in few places. `Logger` uses two signals, a mutex and a
thread and calls `etcpal_init` and `etcpal_deinit`, whose `log_module` flag is
part of its model; poll contexts keep their sockets in a red-black tree, of
which `PollContext` uses only that it is a map; `Netint` compares networks as `Inet`
does. Portable code on top of a queue sees only what `BoundedFifo` says, users of a
read-write lock only what `RwLock` says, users of a signal `AutoReset`, users of a
poll context `PollApi`: these four are the interfaces that larger models should use.
Every other interaction is with the operating system: semaphores, mutexes, condition
variables, descriptor sets and socket calls are modelled by what the code relies on.

## Modules

    BoundedFifo  <--refined by--  Queue           QueueProofs
                                  KernelQueue     KernelQueueProofs
    RwLock       <--refined by--  SpinRwLock      LockLogProofs
                                  ZephyrRwLock
    AutoReset    <--refined by--  Signal          LockLogProofs
    PollApi      <--refined by--  PollContext     SocketProofs
    EventGroup  Logger                            LockLogProofs
    Thread  HandleManager                         LiveProofs
    Lifecycle  Timer  MemPool  Expected  CLog
      Netint                                      PartsProofs
    Ancillary  SocketOptions  SocketCalls         SocketProofs
    AcnRlp  Uuid  Inet <- InetLaws                WireProofs
    RbTree  ErrorCodes

    LockLog:  SpinRwLock, Logger, EventGroup, Signal              run by MCLockLog
    Live:     HandleManager, Thread, Queue                        run by MCLive
    Parts:    Lifecycle, Timer, MemPool, CLog, Expected, Netint   run by MCParts, with RbTree
    Traffic:  Queue, KernelQueue, PollContext, Ancillary,         run by MCTraffic, with ErrorCodes
              SocketOptions, SocketCalls, AcnRlp, InetLaws, Uuid

    CountingLemmas: how many threads are at a point of a call, sums of sequences, and
                    finite sets of places in their order

`LockLog`, `Live`, `Parts` and `Traffic` put components side by side that share no state:
each extends one, instantiates the others under a short name, which tells whose
definition a name is (`Signals!SignalInv`), and states their properties. The MC modules extend
them with the values of the constants and a next-state relation, and the modules of proofs extend them with
theorems, so that a run and a theorem speak of one and the same property.
`RbTree` is recursive, about which nothing can be proved here, and joins in `MCParts` only, as does
`ErrorCodes`, which is finite tables, in `MCTraffic`.

In each module, definitions with no entry in the map are either properties or the
mutated forms of a definition that show that a property can fail.

**Four instances.** In `MCLockLog`, `MCLive`, `MCParts` and `MCTraffic` a variable `part` says
which of the components runs, from every one of its initial states; the others stay in one of theirs. The states of such an
instance are the union of those of its parts, not their product, and each property is
that of its module. In the two with liveness the fairness is also that of the modules:
`MCLive` conjoins their formulas (parts that do not run have no step that is enabled),
and `MCLockLog` has one formula per thread that means, of the part that runs, the
formula of its module.

**Queue.** One step for each semaphore operation and for each access to the ring:
`pc[c]` is the place of client `c` inside `push_data_timed`, `pop_data_timed`,
`etcpal_queue_reset` or a query. The C fields keep their names. Clients that time
out are told from clients that wait for ever by `patient`. A time-out can happen
only while the semaphore is zero. Interrupts do not exist on the three platforms;
the `_from_isr` functions are sends and receives that do not wait. Waits on a
semaphore are not interrupted by POSIX signal handlers. Creation succeeded.

**KernelQueue.** FreeRTOS copies items through its ring; Zephyr hands an item to a thread
that waits, and the step in between holds the kernel's lock. Interrupts do not wait.
`is_empty` and the other queries are no steps.

**SpinRwLock, ZephyrRwLock.** One step for each operation on a semaphore and for each
atomic access to `reader_count`. The three spinning ports differ in names and in the
reader limit (`MaxReaders`); FreeRTOS has none, which is a limit as large as the
number of threads. A timed writer leaves its loop at any moment and looks once more.

**EventGroup.** The section under the mutex is one step where the code does one
thing in it. `wakes_multiple` tells Zephyr (broadcast, real time-outs) from the others
(signal, no time-outs but zero). POSIX condition variables may wake spuriously.

**Signal.** The POSIX ports step by step around the mutex and the condition variable; the
others by the operation of the kernel. Linux and macOS take a time-out other than zero
as for ever, and the model does.

**Thread.** The owner of each C++ object and the thread of each `etcpal_thread_t` take turns
in every way: starting may fail at each point where a port's creation can, the thread may
end before its creator goes on, a join may time out, an object may be moved.
`faults` allows Terminate, and a name that Zephyr refuses after the thread has started.
macOS is as Linux, without names. The join signal that FreeRTOS and MQX make is followed until it is
deleted, or leaked by a failed creation or by Terminate; what the system itself keeps of a thread that was terminated
(a pthread never joined, a Windows handle never closed) is not.

**HandleManager.** One step is one pass of the loop in `get_next_int_handle`. The
library around it keeps or drops the handle it gets and releases handles between
calls; `INT_MAX` is a constant, and each custom limit up to it is an initial state.

**Timer.** The clock has `Wrap` values and moves by any distance; `passed` is the true time.

**MemPool.** One step for each access to the list that another thread could come between,
were there no lock. Initialisations do not overlap and no element is freed twice.

**RbTree.** One call is one step, since a tree is not shared without a lock; the links
of the nodes are followed and turned as the C code does, pass by pass. The
values are numbers, and a node goes by the value in it: where removal swaps the
values of two nodes, the node that stays changes its name. A call that fails
without changing anything is not a step; a refused `etcpal_rbtree_insert_node` is
one, because it changes the tree and its size. An insertion or a removal ends
the iteration.

**Lifecycle.** One step is one pass of a loop over `etcpal_modules`. Any module's
`init_fn` may fail when it is called. Calls are serialised, as the documentation
demands, and a library deinitialises what it initialised, once.

**CLog.** A thread looks at its parameters, asks for the time, takes the lock, makes each of the
three strings, calls the application's function and gives the lock back, with the other
threads in between. A string is its header's fields with their lengths, how much of the
message is in it and whether it ends inside its buffer. The function does not log, as
`log.h` asks, and priorities are those of the interface.

**Logger.** The two sections under `mutex_` are one step each, as are the signal
operations. A message is the number of messages queued before it, plus one. The
owner starts and stops the logger as often as it likes, except that it does not
call Startup while a Log call of the session before is still running (Startup
replaces the mutex that call may hold). The early returns of Startup leave no
state behind and are not steps.

**Netint.** A refresh frees the cache, asks the system for its interfaces and (Linux, macOS) for the
routes of each family, builds and sorts the tables, and looks up the default interfaces, in steps
between which the system may change and any of which may fail: the system does not list its interfaces, has none, or
memory for them is refused, which on Linux and macOS leaves `num_netints` above zero with no array behind it. A
query that looks into such a cache answers `Crash`. On lwIP the array (`static_netints`) outlives the
cache, and what an enumeration does not set in it stays. A Windows adapter has an index for IPv4 (`if_index`)
and one for IPv6. Addresses have `FullLength` bits. qsort is not
stable, so a sort leaves any arrangement of what the system listed that is in order. lwIP's build with malloc is left out.

**PollContext, PollApi.** Each port's own add, modify, remove and wait, with every system call
that can fail failing, sockets that are closed while they are watched, and on Windows calls that
overlap a wait. Calls with arguments that are refused as invalid are no steps. A socket is *in
doubt* when the documentation promises nothing of it: closed while watched, added twice on the
ports that do not notice, or left half-changed by a call that said it failed.

**Ancillary.** Control messages have one size; the walk goes by the length of the caller's memory
and by zeroes.

**SocketOptions.** Each option on each port becomes the system's options that the code sets,
with their values as cut or changed on the way. Interfaces change their addresses between calls.

**SocketCalls.** The system hands over a socket, a datagram or a list, and the translation of an
address may then fail. Linux and macOS do the same here, so `Ports` leaves macOS out.

**AcnRlp.** A block is packed PDU by PDU or header by header, cut to what a datagram or a stream
brings, and parsed by either function. Lengths are numbers; contents are values. A buffer, of a stream too,
holds whole preambles and headers: the answers of `acn_rlp.c:138-172` to shorter ones are not exercised.

**Inet with InetLaws, Uuid, ErrorCodes.** Functions without state. What an instance asks of them is
its initial state, and the properties say what the answers owe to each other. A scope id is cut to the
system's width, to less than `ScopeLimit` (2^32 in the code), where `unsigned long` has more. A question about a
generated UUID comes with the status that Windows's generator returns, which is an error for all but `RPC_S_OK`, and
`uuid_generate`, the one the POSIX systems prefer, gives a UUID of either version.

**Expected.** The memory of each object: its flag, the member of the union that is in use, and how often
a value was built there less how often one was destroyed.

## Runs

| Run | Instance | States | Shows |
|---|---|---|---|
| `traffic` | `MCTraffic` | 621k | what is handed through queues, poll contexts, control data, PDUs, options, socket calls and translations comes out as it went in |
| `locks_and_logs` | `MCLockLog` | 58k | locks exclude, prefer and serve; loggers flush and stop; events and signals reach one waiter |
| `calls_return` | `MCLive` | 18k | handles, threads and queues of one: nothing is left behind and every call that should return does |
| `parts` | `MCParts` | 174k | lifecycle, timer, tree, pools, interfaces, C logging and Expected through every history |
| `queue_reset_stuck` | `Queue` | 0.9k | finding: reset can block for ever |
| `rwlock_zephyr` | `ZephyrRwLock` | 4k | finding: a reader inside with a writer |
| `event_group_late_bits` | `EventGroup` | 87k | finding: AUTO_CLEAR does not clear on a late set |
| `thread_terminate` | `Thread` | small | finding: Terminate frees what the thread still uses |
| `stale_control` | `MCTraffic` | small | finding: control data of an earlier message |
| `acn_round_trip` | `MCTraffic` | small | finding: blocks that do not come back whole |
| `left_is_left` | `MCTraffic` | small | finding: leaving joins |
| `rbtree_size` | `RbTree` | 13 | finding: a refused node is counted |

What each property says stands above it in its module; the properties by part:

* `traffic` -- *queue*: `CountingInv`, `NoUnreadItemLost`, `ImplementsFifo`; *kernel*:
  `KernelImplementsFifo`; *poll*: `OsWatchesWhatWasAsked` (with the counts beside the fd_sets),
  `ImplementsApi`; *messages*: `WalkFindsEach`; *acn*: `BlockRoundTrips`; *options*:
  `OptionsAreKept`; *calls*: `HandsOver`; *addresses*: `AddressesSurvive`, `AddressesCompare`;
  *uuids*: `UuidsKeepIdentity`; *codes*: `PortsAgree`.
* `locks_and_logs` -- *lock*: `RwInv`, `WritersArePreferred`, `WriterIsServed`,
  `ImplementsRwLock`; *logger*: `MessagesAreSafe` (each message once, in order, flushed by
  Shutdown, with a handler that is there), `NothingWaitsForEver`; *events*:
  `EventsReachOneWaiter`, `WaiterWakes`; *signals*: `ImplementsAutoReset`.
* `calls_return` -- *handles*: `HandleIsUnused`, `NoneOnlyWhenFull`, `OldestFirst`,
  `CallReturns`; *thread*: `NothingIsLeftBehind`, `JoinReturns`; *queue*: `NoLostWakeup`.
* `parts` -- *lifecycle*: `CountsMatchClaims`, `RunsWhileClaimed`, `LoggingCoversInit`; *timer*:
  `TimerTellsTime`; *tree*: `IsRedBlack`, `DoesAsAsked`; *pool*: `EveryElementAccounted`;
  *netints*: `AnswersAreOfOneSystem`; *log*: `HandlerSeesItsMessage`; *results*:
  `ValueOrError`.

**Bounds, and why they are enough.** In the queue a capacity of 2 lets the ring wrap and
be neither empty nor full, and two clients on each side let two calls overlap with a
third between them (`ThreeAtATime`: no more than three of the four are in a call); proofs cover all other sizes. The kernels' queues have two threads, an interrupt
handler and the same capacity, so that senders wait on a full queue and a receiver on an empty one
while an interrupt comes between. Two readers and one writer are
the smallest set in which a reader leaves while another enters and a writer waits,
and with a limit of two three readers reach the limit. Two waiters on one bit
compete for it, and two bits give wait-for-all a partial event; of the two waiters the second
asks for one thing only (`SecondWaits`), the first for everything. Three threads on a signal are one that
waits, one that tries and one that posts, in any roles. Handles up to 4 wrap
around with handles in use on both sides of the last one. Two Thread objects and two Ids let one be
moved and started again while the thread of the other still runs. Four messages from two
threads (`MaxMessages`) span three logger sessions. Three libraries and four modules give a
rollback that has modules of others, its own, and untouched ones. Seven values give trees
that are full at three levels, red nodes at every depth and both sides of every rotation;
`MaxSurplus` stops the count of refused insertions, which no other call looks at.
A clock of 8 values (`Wrap`) goes round within `MaxPassed` from each of its values; a proof covers every other.
Two threads on two pools of two elements race for a last element and for a lock that guards
both. `Networks` has a network with overlapping routes and two gateways, one with a link
that is down, a multipath route and a host route, one of one link and an empty one; `MaxNetints` is smaller
than the largest; one link has the address 0, which lwIP takes for none, and one an index of its own for IPv6;
`Indexes` asks for each link and for any, `MaxRoom` is an array for all that a system has.
Two sockets 0 and 2 leave a hole in the descriptors below the largest, and
`EventSets` are two sets that between them have each event and share a filter; at most one socket is in doubt at a time
(`MaxDoubtful`), and the view `WithoutReply` leaves out the last result, on which no step depends.
`MaxControl` places of control memory are fewer and more than a datagram's messages.
Blocks of three PDUs (`MaxPdus`) inherit over one that does not, with data around 4096 bytes. `IndexArgs` names two
interfaces, none, and one beyond a byte; option values include one that a byte cannot hold. Two sockets, two datagrams
(`MaxWaiting`) and lists of three addresses (`MaxAddresses`) have one that does not translate before, between and
after others; with `OneAtATime` a list is walked while no socket is held, and datagrams come while every socket is as it was
opened: the calls of each kind share nothing with those of another.
Addresses, masks, UUIDs and strings are the edges of each kind: zeroes, ones, one bit apart, across
a byte, as long as counts and one longer. `ScopeLimit` is 8, and one of the scope ids is wider. `Generated` are two times, one
at which `uuid_generate` gives a UUID of version 1 and one of version 4.

**Fairness.** A thread inside a call keeps running (weak fairness of each of its steps),
because the systems' schedulers run every ready thread. Waiting for a semaphore or
a mutex that is taken and given again and again gets strong fairness in `Queue`,
`EventGroup` and `Signal`: the systems queue waiters. `SpinRwLock` assumes nothing of the order in
which its semaphore is handed over. In `Thread` every thread that was created runs to its end, and
a join that need not wait returns. No step that begins a call is fair, except
that a read or write lock that was granted is given back.

`CHECK_DEADLOCK FALSE` stands where the reset of `queue_reset_stuck` really stops the clients (that run, and the
runs over `MCTraffic`, whose questions moreover have no steps).

## What disagrees with the documentation

* `queue_reset_stuck` -- `etcpal_queue_reset` takes, with the lock held, one token of
  `spots_filled` per item in the ring. A receive between its wait and the lock has
  one of them. Both then wait for ever. All safety properties of the queue hold
  nevertheless, also with resets.
* `rwlock_zephyr` -- the last reader decrements the count and then gives
  `reader_active`. A new first reader that comes in between ignores that it could
  not take `reader_active`; the late give then lets a writer in next to it.
* `event_group_late_bits` -- a Zephyr wait that times out reports bits that were set
  since and does not clear them, although it was asked to.
* `rbtree_size` -- a node that `etcpal_rbtree_insert_node` refuses, because its
  value is there, is counted in `size` for good. The refused call may also have rotated
  the tree on its way down, so iterators do not survive it, although the
  documentation has only successful insertions invalidate them.
* `thread_terminate` -- on Linux `Terminate` requests a cancellation and frees the
  object that the thread reads, before the thread has gone.
* `stale_control` -- `etcpal_recvmsg` drops the length of the control data, so that a message
  without any is walked over what an earlier one left in the memory.
* `acn_round_trip` -- a PDU of 4096 or 4097 bytes gets a length of twelve bits, and a PDU that
  repeats the one before it is not read when it is the last.
* `left_is_left` -- on lwIP leaving an IPv6 group joins it.

More of the kind came up while modelling. What the models contain of it is as in the code, and a property that it touches
excepts it by name; what they leave out is said with each module above, or is marked here (*left out*).

*Poll contexts.* lwIP and MQX do not notice a socket that is added again, which
`socket.dox` says is `kEtcPalErrExists`. A context on MQX with out-of-band sockets only has nothing to wait
for. macOS leaves the filters that were made before one failed. The ports on select report the first ready
socket; on Windows, and when epoll only hangs up, an event may have no flags.

*Options.* On lwIP a wrong length of `IP_MULTICAST_TTL` or `_LOOP` falls through to
`IP_PKTINFO`; values are cut to a byte, interface indexes too; an interface without an address joins by the wildcard,
which a later leave misses. MQX reads an int for `IP_TTL` from any length, takes an
address where an index is documented, says ok to REUSEADDR and REUSEPORT without a call, and drops the loopback's membership
while others are left. `getsockopt` refuses options that `socket.h` lists as readable. A failed lookup of an
interface's address returns whatever `errno` was.

*Socket calls.* The example in `socket.dox` frees the list only after success, though a first address that does not convert leaves
one; `socket.dox:558` frees always, though a failed lookup sets nothing. An address that does not convert ends
`nextaddr` for good; MQX leaves `pd` dangling; `recvfrom` loses a datagram whose sender does not convert. A failed
`setblocking` on MQX may have changed one direction. `recvmsg`'s flags after a failure are those of before.
The `EAI_*` codes of Linux and macOS go through the table for errno, and Windows's `err_os_to_etcpal` names errno constants though
it gets codes of GetLastError. `sendto` says Sys where `bind` and `connect` say Invalid.

*Addresses, errors.* The hashes of `cpp/inet.h` include the scope id, which equality ignores. `etcpal_string_to_mac` takes
a colon after any nibble and ignores what follows. Scope ids do not survive text, and one above 32 bits is cut on its way
to the system (`ScopeFits`). BADF, OPNOTSUPP, NOBUFS and CONNABORTED become
different codes on different ports (`Divergent`).

*Interfaces.* A failed allocation on Linux and macOS leaves a count without interfaces, and a refresh that fails so
leaves the module initialised: the next query dereferences NULL (`Unallocated`). A failed initialisation
leaves its defaults (`retried`). lwIP's array keeps the addresses of before where an interface has none (`Unaddressed`). On Windows the
default of IPv6 is compared with the index of IPv4 (`Divided`). Default routes without a gateway are not used;
lwIP and MQX take the first interface that matches, not the longest prefix.

*Threads.* FreeRTOS's join after a terminate waits for ever (*left out*: an `etcpal::Thread` that was terminated
is not joined). On FreeRTOS and MQX a failed creation leaks the signal, and so
does Terminate (`SignalIsDeleted`). A name that Zephyr
refuses after the thread has run frees the callable twice, and without `CONFIG_THREAD_NAME` creation always fails.

*Queues of the kernels.* Zephyr's reset makes senders and receivers return false even if they were to wait for ever, and its destroy
leaves the buffer it allocated. FreeRTOS has no static creation. The C++ constructor ignores a failed creation,
and a Receive with a negative duration is not clamped.

*Signals.* macOS goes on when its condition variable fails; an MQX try waits up to a tick.

*C logging.* A buffer of 31 bytes passes for one that `log.h` says needs 38. A facility such as 1024 passes the sanitising, and the low bits of a facility end up in the
priority. The time is read before the lock, so messages may be handled in another order than their times. A priority that the interface does not have fails an assertion that
logs, with the lock held.

*Others.* Pools (*left out*): two first initialisations at once may both make the lock (`mempool.c:39`), and a block freed twice makes the list a cycle.
Timers (*left out*): the FreeRTOS clock jumps when ticks of 16 bits, or of a rate that does not divide 1000, wrap; `Timer::Start` clamps a
duration only above. UUIDs: `etcpal_string_to_uuid` passes over what is no digit and ignores what follows. `Expected(kEtcPalErrOk)`
has no value, and an `Expected` that was moved from says it has one.

## Proofs

TLAPS proves these for every value of the constants that satisfies the modules'
assumptions: finite sets of clients and threads, positive capacities and limits, a clock
of two values or more, `None` and the like outside the sets they are told from. Where a
component is instantiated its assumption is a definition (`Events!EventAssumption`, ...) that the theorem has as its
hypothesis, and the MC module asserts it of the constants it gives. Such a theorem says
`Events!Spec => []EventsReachOneWaiter`: the component's own specification, with its own initial states and steps, has the property that the run checks. Some
assumptions say more than that. `CLogAssumption` bounds the fields of `EtcPalLogParams` by their
arrays and the facility as `log.h` masks it; `OptionsAssumption` says that a netif's index on lwIP is a byte other than 0;
`AcnAssumption` that the data of a PDU is short enough for a length of 20 bits; `UuidAssumption` that
the systems' generators of versions 1 and 4 give those; `InetAssumption` that an MQX host numbers each scope once;
`NetintAssumption` that an address for IPv4 has the adapter's IPv4 index, and that a route to everywhere has destination 0 and one
through a gateway names its interface.

Each component has one inductive invariant, a conjunction of named parts, which the runs check
before anything rests on it; each of its theorems follows from that.

* **Queue.** `CountingInv` is the inductive invariant. That tokens are conserved
  (`TokensConserved`) and that `queue_size` matches `spots_filled`
  (`SizeMatchesTokens`) are each about numbers of clients at points of their calls, and
  neither is inductive without knowing that one client at most is inside
  (`LockIsExclusive`), that `head` is `queue_size` nodes ahead of `tail`
  (`RingMatchesSize`), and how far a reset is (`ResetProgress`). `CountingLemmas` says how
  the number of clients at a set of points changes when one of them moves.
  `NoUnreadItemLost` follows: a sender that holds a token finds room.
* **Queue and KernelQueue implement BoundedFifo.** With `ContentsInv`, which says what the
  calls under way carry, every step of `Queue` is shown to be a FIFO step or a stutter: an item is
  queued when `head` passes it and dequeued when `tail` does. In `KernelQueue` the invariant
  says who may wait on a queue that is empty or full and what is handed to a thread that has not run yet.
* **SpinRwLock.** `RwInv` adds to the two counting invariants that the count is zero
  while a writer is inside. Write preference and the refinement of `RwLock` follow.
* **EventGroup.** That no sleeper's bits are set (`SleepersUnmet`) has to hold also while a setter is inside, and
  who is at which point of which call (`CallsMatch`) is what makes it inductive.
* **Signal.** `SignalInv` says who has the mutex, where a thread can be on each port and that no call outlives
  its signal; with it every step is one of `AutoReset` or a stutter.
* **Thread.** `ThreadInv` follows what creation allocated through the calls of its owner and
  of the thread itself: each of the two frees its own, once, and nothing of it is used after. `SignalIsDeleted` adds
  that a signal is there only while its `etcpal_thread_t` is, but for the two that are leaked.
* **HandleManager.** `HandleInv` says that before the first wrap all handles in use are
  at most the last one, and after it that all scanned candidates were in use. Every
  safety property of the run follows, for every limit.
* **Lifecycle.** `LifecycleInv` adds to the run's invariants what the local variables say
  of the progress of a call, and that logging runs when the loop has passed it.
* **Timer.** `ClockInv` says that the clock stands `passed` ticks after `reset_time`, modulo its range.
  What a timer tells follows, and that time points compare as they came about.
* **Logger.** `LoggerInv` gives the messages as one sequence: those handled, those with the dispatch
  thread and those in the queue are its parts in order; it ties the
  places of the owner and of that thread together, and a thread that has stopped has in hand all that was due.
* **MemPool.** `PoolInv` gives the free list as a sequence without repetitions of just those
  elements that are out nowhere; elements that a call has in hand count as out.
* **CLog.** `CLogInv`: only who has the lock has made strings, and they are of its call. That their headers are
  whole is arithmetic on the longest fields that the parameters have room for.
* **PollContext.** `PollInv` has the tree or the array, the counts beside the fd_sets, the kernel's set and a wait under
  way on Windows in step with what was asked. A call concerns one socket, and that the others stay as
  they were is proved once for all ports. With the invariant every step of a port is one that `PollApi` allows.
* **Ancillary.** `ControlInv`: the memory begins with the control messages of the datagram received last, as far as
  they fit, what is left over is behind them, and what does not fit is in the flags. A
  search for the first usable one then finds what the property names.
* **SocketOptions.** `OptionsInv`: no two interfaces have one address, so that joining by address is joining the
  interface; and the system has the converted form of what was set, from which the conversion back gets it
  again, negative milliseconds included.
* **Netint.** `NetintInv`: one thread at a time works on the cache; the interfaces in it are an arrangement, by index, of
  just those addresses that the port lists of one state of the system (of a lwIP interface without an
  address only the index is known), counted unless memory was refused, and each table is a sorted
  arrangement of the routes of one reading. An arrangement names every place once, so an answer has as many members as
  the system has addresses of that kind. In a sorted table nothing that a search could have stopped at
  comes before what it did stop at, so the route it finds is the best, whatever order qsort leaves equals in.
* **Addresses.** Every comparison is the first of some smaller ones that tells its arguments apart. Results of a
  comparison both ways round are `Opposite`, and of three arguments `Chained`, when it is a total order; `FirstDifference`
  keeps both, from bytes over addresses with scopes and sockets with ports to interfaces.
  Masks are counted bit by bit, and the text of a MAC address is walked digit by digit from the one before.
  A scope id below `ScopeLimit` is its own remainder, which is what comes back.
* **AcnRlp.** `AcnInv`: what is packed is the start of the block, each PDU right behind the one before and without
  what it inherits; the whole of it is sent; and what is parsed is the start of that. The buffer's size is a sum over the block, which the
  packed sizes never pass. A PDU that is not the last and is not too long for its form is always
  read on.
* **Uuid.** The digits of a text stand at ascending places, of which the n-th is the n-th digit of the bytes whatever is
  between them; two UUIDs compare as the first byte in which they differ. Of a generated UUID the version is promised
  where it was asked for by number, and an error is a null UUID in the C++ class.
* **SocketCalls, Expected.** `CallsInv` ties the flags of the system to what the application asked, and the two
  pointers of a walk to what it has seen; `ExpectedInv` ties the memory of an object to what it stands for.

Two things came to light in proofs and not in runs. `Function` of `Signal` and `WithAddress` of `SocketOptions`
were CASEs whose arms overlap, which TLC reads in order and which otherwise mean either arm; they
are exclusive now. And `ControlInv` had to say that a walk is over a datagram received.

**Only model-checked,** and why:

* Liveness (`NoLostWakeup`, `WriterIsServed`, `WaiterWakes`, `CallReturns`, `JoinReturns`, `NothingWaitsForEver` and
  the liveness half of `ImplementsAutoReset`): it rests on fairness and ENABLED, which are out of this prover's reach.
* `IsRedBlack` and `DoesAsAsked` of `RbTree`, whose operators are recursive: the installed provers can
  neither expand them nor do the induction over trees. TLC covers every tree that calls on seven values can make.
* `PortsAgree`: `ErrorCodes` is seven finite tables without constants, of which TLC looks at every entry.

Sums and places in order are defined by induction or by choice, and the library's induction theorems cannot be used here; what the
proofs need of them (`CountingLemmas`) is shown by the least counterexample.

The findings need no proof: TLC shows a behaviour.

## Plan

1. In `Queue`: creation with its failures, destruction, and a constant that lets the
   semaphore waits be interrupted, since their results are ignored.
2. In `MemPool`: first initialisations that overlap.

## Not modelled

Semaphores, mutexes, recursive mutexes, the pthread read-write locks and the FreeRTOS event
groups are one call of the system each. Of `pack.c` the 32-bit functions are modelled where UUIDs use them; the rest are
shifts of other widths. bind, connect, listen, send, sendto, shutdown and the names of sockets translate
arguments and results and keep nothing. The hash functions are third-party code. The text of IP addresses is the system's. The C++
classes over locks, semaphores, signals and event groups forward every call; those over addresses and interfaces add
conversions. The test doubles of `etcpal_mock` serve the tests of the library's users.
Clocks (`etcpal_getms`) belong to the systems.
