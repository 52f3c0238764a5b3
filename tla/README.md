# lhh, in TLA+

`lhh` is a small game server: one executable (`src/src/main.c`) that runs as a
**gate server** (`gated`, option `-n`) or as a **game server** (`gamed`, option
`-l`), on libevent's buffered connections and with a Lua state for its
configuration and scripts. Beside it stand libraries that it does not link yet
(`src/lib/`: a memory pool, an intrusive list, a thread pool) and a few helpers.

This directory holds TLA+ models of that code, the TLC configurations that
check them and proofs for TLAPS. Paths below are relative to the repository.

## 1. The system

### Components

| component | code | state it keeps | operations | models |
|---|---|---|---|---|
| gated | `src/gated.c`, `src/network.c` | `g_gamed_conn` (static pointer), the two listeners, per connection `auth` and a bufferevent (input and output buffer, EV_READ/EV_WRITE) | start, accept (two ports), accept error, read (auth packet, rpc packet, echo), error, write | `Gated`, on its event loop `GatedLoop` |
| gamed | `src/gamed.c`, `src/network.c` | the stage of its start-up, its connection to gated, the packet queued on it | `gamed_init` with all that it calls, `gated_error_cb`, the end | `Gamed`, with gated `LhhServer` |
| main | `src/main.c` | the two entry points chosen by the options (uninitialised without one) | parse, init, start | `main` in `Gamed` |
| config | `src/config.c`, `load_config.lua`, `config.ini` | Lua globals, one per key | load, setters, typed getters | `ConfigFile`, `Config` |
| vm | `src/vm.c` | one `lua_State` | create | a step of `Gamed` (the other functions are never called) |
| libevent | `3rd/libevent/` (vendored) | the active queue, epoll's interest set, the timer of `event_base_loopexit`; evbuffers as lists of chains | the loop, `event_add/del`, bufferevent and listener callbacks; read, move, add, remove, write of evbuffers | partly: what lhh runs of it, `GatedLoop`, `EvBuffer` |
| Lua | `3rd/lua/` (vendored) | | | only what `config.c` sees of a value through the C API |
| mem_pool | `lib/mem_pool/mem_pool.c` | a list of blocks, each with a free chain (table, head, tail), `elem_total` | create, malloc, free, destroy | `MemPool` |
| list.h | `lib/mem_pool/list.h` | circular doubly linked lists | init, add, delete, splice, the loops | `ListHead` |
| thread_pool | `lib/thread_pool/thread_pool.c` | ring of tasks (head, tail), mutex, `thread_num` | `init_thread_pool`, `thread_pool_add` | partly: `ThreadPool`; the worker never runs |
| utils | `utils/atoi.c`, `utils/quick_sort.c` | none | `atoi` | partly: `Atoi`; quick_sort is empty |
| client | `client/main.c` | a socket | connects to the *inter* port and loops | the `Strays` of `Gated` |
| log, malloc, network, uthash, tests, tools | `src/log.c`, `src/malloc.c`, `network/network.c`, ... | none | wrappers, stubs, demonstrations | not modelled, see section 5 |

(`src/gated.c` is `src/src/gated.c` in the checkout, and so on.)

### How they interact

```
 client/main.c ---> inter port ---+                 +--- outer port <--- clients
 gamed ----------> (auth packet) -|--> gated loop --|--  (words, echoed)
   |                              +-- g_gamed_conn -+
   +-- config.ini, read through a Lua state, by both servers
```

gated opens the inter port when it starts. A game server connects there and
sends one auth packet; gated then opens the outer port and echoes what clients
send. Everything in gated is a callback of one libevent loop; nothing is
protected from the *order* of those callbacks, and `g_gamed_conn` is shared by
all of them: **both** accept callbacks, that of game servers and that of
clients, assign it (`gated.c:56`, `gated.c:169`), and the read callback of the
inter port works on it whatever connection the data came from. That is what
makes the program hard to reason about, and what the models are built around.

gamed is a sequence of steps each of which may end the process; the connection
that one of them makes need not exist yet, and the packet it queues leaves only
when the event loop runs. The libraries under `lib/` and `utils/` are called by
nothing but their own demonstrations, `list.h` by nothing at all.

### What is hard, and what correctness means

* *gated*: the order of callbacks of several connections; packets cut anywhere
  by TCP; a stack structure read from a short buffer (`authpack`, not
  initialised: an arbitrary answer); allocation and bind failures half-way; a
  descriptor table that only fills up; peers that close, or reset, with data in
  flight; SIGPIPE. Correct means: the outer port opens after a game server has
  sent its packet, once, and never because of a client; a client gets back what
  it sent, in order and complete while it stays; the loss of the game server
  stops gated; a handshake never stalls.
* *the event loop below it*: a write event that must be added when output
  appears and deleted when it is gone (a lost wake-up, or a loop that spins);
  `event_base_loopexit`, a timer that busy sockets must not starve, and after
  which other callbacks still run.
* *evbuffers*: data spread over chains, with a cached length and a cached place
  of the last data, across short reads, drains and failing allocations.
* *gamed, main, config*: a start-up whose steps may fail one by one, a
  non-blocking connect that is refused later, a NULL connection; names that
  collide in the Lua globals, read in no particular order.
* *both servers*: either may end at any point, and the other must notice.
* *mem_pool*: the pointer-to-index computation has the wrong sign, `tail` is
  not moved on free, the table is allocated in bytes. Correct means: no element
  is handed out twice, the free chain stays a chain of free elements, no memory
  outside the pool is used.
* *thread_pool*: producers on one ring; no worker is ever started.
* *list.h*: `list_splice` leaves the source head pointing into the target;
  loops whose body removes entries.

`PROJECT.json` lists these hazards at their lines with the properties aimed at
them.

## 2. Modules

| module | what it is |
|---|---|
| `GateService` | abstract specification: a service that is closed, open or down, and per client an echo pipe that is FIFO and lossless while the client stays |
| `Gated` | gated, its peers and the kernel between them; its properties; the refinement of `GateService` |
| `GatedLoop` | gated on libevent's loop; it implements `Gated` *with its fairness* |
| `Gamed` | game server processes: start-up, connection, event loop |
| `LhhServer` | `Gated` and `Gamed` composed, with a configuration file, restarts and kills |
| `CInts` | what an `int` of C makes of a number; used by `ConfigFile` and `Atoi` |
| `ConfigFile` | what a configuration file means, as operators; used by the next one and by `Gamed` |
| `Config` | the store: reading the file entry by entry into Lua globals, checked against `ConfigFile` |
| `ByteStreams`, `EvBuffer` | two queues of bytes; the evbuffers that implement them |
| `Allocator`, `MemPool` | cells handed out to one holder at a time; the memory pool that implements it |
| `ListSeq`, `ListHead` | sequences of entries; the circular lists that implement them |
| `BoundedQueue`, `ThreadPool` | a bounded queue; the task ring that implements it for racing producers |
| `Atoi` | `atoi` against the value of its text |
| `MCGated`, `MCGatedLoop`, `MCLhhServer`, `MCMemPool`, `MCLibraries` | the instances for TLC |
| `GatedProofs` | theorems about `Gated`: types, handshake, causes of the end, the echo, and that it implements `GateService` |
| `GatedLoopProofs` | `GatedLoop` runs `Gated`; its queue, its wake-ups, its progress |
| `LhhServerProofs` | `LhhServer` runs `Gated`; the two ends of a connection, the order of the start-up |
| `MemPoolProofs`, `ThreadPoolProofs`, `ListHeadProofs` | the safety of `MemPool`, `ThreadPool` and `ListHead`, and that they implement `Allocator`, `BoundedQueue` and `ListSeq` |
| `CIntProofs` | theorems about `Config` and `Atoi` |
| `EvBufferProofs` | `EvBuffer`: what is kept aside is true of the chains, and it implements `ByteStreams` |

Operators called `Bug_...` are faulty variants of the definition that follows
them. No specification uses them; they document which mistake each property
would catch.

### Gated and the code

One action is one callback, whole, with everything libevent does around it.

| action | code |
|---|---|
| `gated_init` | `gated_init`, `config_init`, `socket_init`: the inter port is open, or the process ends |
| `gated_start_returns` | `event_base_dispatch` returns after `event_base_loopexit` |
| `gamed_accept_cb`, `client_accept_cb` | one turn of the accept loop of `listener.c`: the callback with `net_new_connection` (the structure or NULL is assigned to `g_gamed_conn`), and the next `accept`, which fails at once behind the last descriptor, or for lack of memory (`n` = 1), whether anybody waits or not; on the inter port `gamed_accept_error_cb` is then part of the turn |
| `gamed_accept_error_cb`, `client_accept_error_cb` | the first `accept` of the loop fails (EMFILE, no memory) |
| `gamed_read_cb` | the read callback of the inter port with `gamed_read_auth_packet`, `gamed_read_rpc_packet` and `open_client_service` |
| `client_read_cb` | the echo: all of the input buffer moves to the output buffer |
| `gamed_error_cb`, `client_error_cb` | a read ends in an error: the stream has ended or was reset (`ReadEnd`), or `evbuffer_read` has no memory for what is there (`ReadFails`), in which case the peer may be well |
| `WriteOut`, `WriteError`, `WriteSigpipe` | libevent flushes an output buffer: some of it is taken, ECONNRESET, or EPIPE and death by SIGPIPE |
| `Connect`, `SendAuth`, `Send`, `Close`, `Reset` | the peers |

| variable | code |
|---|---|
| `proc` | the process; how it ended: `init_failed` (any end of the start-up), returned, `exit(1)`, assertion, NULL dereference, SIGPIPE |
| `exiting` | `event_base_loopexit` was called |
| `clientListener` | the outer port is bound |
| `g_gamed_conn` | the static pointer; `NoConn` is NULL |
| `sock`, `auth`, `reading`, `writing` | the descriptor and the `net_connection_t` with the enabled events of its bufferevent |
| `input`, `output` | the two evbuffers |
| `peer`, `sent`, `chan`, `received` | the other end and the bytes on their way |

Data is abstracted to numbered pieces `<<c, i>>`. An auth packet is three
pieces: a part of `cmd`, the rest of `cmd`, and `len`, so that every cut that
the code can tell from another occurs. A callback sees any non-empty prefix of
what is in flight. `CmdIsAuthGamed` is the value of the uninitialised
`authpack.cmd`: determined when the buffer holds all of `cmd`, arbitrary when
not. A NULL from `net_new_connection` leaves the descriptor open without a
structure (`"orphan"`).

### GatedLoop and the code

`Gated` lets any callback run when its socket allows it. `GatedLoop` is the one
thread that decides which: `Dispatch` is `epoll_dispatch` with `evmap_io_active`
and `timeout_process` (all ready descriptors in any order, a bufferevent's read
event before its write event, the timer of loopexit behind them);
`bufferevent_readcb`, `bufferevent_writecb`, `listener_read_cb` and
`event_loopexit_cb` run from the head of the active queue, each with the action
of `Gated` that it causes; the peers go on in between. `polled` is the set of
connections whose `ev_write` is added, separate from EV_WRITE being enabled
(`writing`). `listener_read_cb` accepts in a loop (`Accepts`, `AcceptFails`)
while peers may still connect.

### Gamed, LhhServer and the code

A game server process is a stage, a socket and a queued packet. `config_init_fails`,
`connect_fails`, `socket_init` and `vm_init` are the steps of `gamed_init` with
the ends that each may have; `gated_error_cb` and `gamed_start_returns` the rest
of its life, `Killed` a signal. The packet queued by `socket_init` leaves in
`Transmit` when the event loop runs. In `LhhServer` the peers of the inter port
are these processes; `Established`, `GatedGone` and `GamedGone` are the network
telling one side about the other, each a step of its own. A game server that is
started again is one more process. gated and the game servers read the same
file; `ConfigFile` says how the start-up ends for it and which ports result.

### The libraries and the code

*MemPool.* `mem_pool_create`, `mem_pool_destroy`, `mem_pool_malloc` (from a
block, from a new block, no memory) and `mem_pool_free` are the functions of
those names, called by a caller that frees only what it holds. A block is a
record of the fields of `mem_block_t`; addresses are numbers and a new block
may lie anywhere it does not overlap another one, below an earlier block too:
that decides which foreign block the wrong index of `mem_pool_free` matches.
`Offset` is that index, with the sign and the truncation of the C expression.
When the code uses memory outside its own (`wild`) the model stops: there the
C program is undefined. The table of a block is allocated with `elem_num + 1`
*bytes* and used as `elem_num + 1` ints. It stays inside the smallest chunk of
malloc (24 usable bytes, six ints) up to five elements; the demonstration in
`mem_pool.c` uses ten and overruns (`mem_pool_demo`). A pool of one or two
elements grows by a block of `elem_num/3 = 0` elements, whose one spare element
is handed out, and whose `head` then leaves the table. A pool without its first
block is returned all the same. How many elements a pool has is an argument of
`mem_pool_create`: the run `mem_pool` has pools of each kind, of two, of four
(which stay in their memory) and of ten.

*EvBuffer.* A chain is a record of `buffer_len`, `misalign` and its data;
`last_with_datap`, a pointer to a pointer, is the place of its chain in the
list. `_evbuffer_expand_fast` keeps the cases of the code (enough room; fewer
than NUM_READ_IOVEC chains with room; all of them replaced by one, which may
fail after they are freed); `Room` and `Used` are its `avail` and `used` after
each chain. `Filled` is the loop behind `readv`, `Bytes` what the chains hold.

*ListHead* works on two functions `next` and `prev` over heads and entries; the
operations write what the C code writes, and `loop` is a `list_for_each_safe`
in progress, whose body deletes or moves the current entry. *ThreadPool* has
one step per lock, test, store, index update and unlock of `thread_pool_add`.
*Config* visits the entries in any order. *Atoi* computes in ints
that wrap (`CInt`).

## 3. Runs

All runs: `tlc -config <cfg> <module>`. `lhh_server` and `gated_loop` are the
compositions; the other runs are about one component each.

| run | cfg, module | checks | instance |
|---|---|---|---|
| `gated_handshake` | `GatedHandshake.cfg`, `MCGated` | `TypeOK`, `ServiceIffAuthenticated`, `ClientNeverGamed`, `ServiceAfterGamed`, `LoopExitHasInterCause`, `InterDataEndsOpenService` | 2 game servers, a stray, a client; 1 failing call; 3 descriptors for 4 peers |
| `gated_echo` | `GatedEcho.cfg`, `MCGated` | `EchoIntegrity`, refinement `ServiceSpec` | 1 game server, a stray, 2 clients with 2 pieces each; 1 failing call; 3 descriptors |
| `gated_live` | `GatedLive.cfg`, `MCGated` | `AuthLeadsToService`, `InterLossStopsGated`, refinement `ServiceLiveSpec`, under `FairSpec` | 1 of each, 2 pieces, no failing call, 4 descriptors |
| `gated_loop` | `GatedLoop.cfg`, `MCGatedLoop` | `LoopIntact`, `OutputIsPolled`, `Progress`, refinement with fairness `GatedFairSpec` | 1 game server, 2 clients with 2 pieces each; 2 descriptors, 1 failing call |
| `lhh_server` | `LhhServer.cfg`, `MCLhhServer` | `ServerTypeOK`, `ServiceAfterStartup`, `QueuedPacketServed`, `GamedFollowsGated`, `GatedFollowsGamed` | 2 game server processes, a client; 4 files; 4 command lines; 2 descriptors, 1 failing call |
| `libraries` | `Libraries.cfg`, `MCLibraries` | `ListsIntact`, `SafeLoopMeetsAll`, `RingIsAccepted`, `AtoiIsValue`, `OutcomeOfFile`, `ReadyConfigReadable`, `ChainsIntact`; refinements `ListSeqSpec`, `QueueSpec`, `StreamSpec`; `EveryCallReturns` | 2 heads, 3 entries; 2 producers, 2 calls each, 3 slots; texts of up to 4 characters; tables over 4 keys; 5 bytes through two evbuffers, 1 failing allocation |
| `mem_pool` | `MemPool.cfg`, `MCMemPool` | `TypeOK`, `FreeChainIntact`, `ForeignMemoryCauses`, refinement `AllocatorSpec` | pools of 2, 4 or 10 elements of size 2, up to 4 blocks at 6 addresses, 1 failing call |
| `gated_rpc_assert` | `GatedRpcAssert.cfg`, `MCGated` | `RpcAssertionHolds`: **violated** | 1 of each |
| `gated_release` | `GatedRelease.cfg`, `MCGated` | `PendingClientServed`: **violated** | 1 game server, 2 clients, 2 descriptors |
| `mem_pool_demo` | `MemPoolDemo.cfg`, `MCMemPool` | `OwnMemoryOnly`: **violated** | 10 elements, otherwise as `mem_pool`; no failing call |
| `mem_pool_free` | `MemPoolFree.cfg`, `MCMemPool` | `FreeFindsBlock`: **violated** | 4 elements, otherwise as `mem_pool` |
| `thread_pool_start` | `ThreadPoolStart.cfg`, `ThreadPool` | `ThreadsStarted`: **violated** | as in `libraries` |

Deadlock is not checked: the process ends, and peers may stay silent for ever.
The libraries share nothing, so one run exercises one of them per behaviour
(`turn`).

### What they show

* The handshake works *in spite of* the shared pointer. A second game server, a
  silent connection or a client may take the place of the authenticated one,
  but the port then stays open for exactly one authenticated connection, and
  the process dies at the next data of the inter port
  (`InterDataEndsOpenService`): by the assertion, by binding the port again, or
  by NULL. No client is ever marked as the game server in a running process:
  by the time a client can exist the port is bound, so the handshake that
  garbage might grant it ends in `exit(1)`.
* The echo is FIFO and lossless for a client that stays, through two buffers
  and arbitrary cuts, and a client that leaves has got a prefix of what it
  sent. gated implements `GateService`.
* No handshake stalls, and losing an accepted connection of the inter port
  always ends gated. The other way round the loop is told to exit for the inter
  port only, but not only for a game server that has gone: a read without memory
  and an `accept` behind the last descriptor take gated down with a game server
  that is well (`LoopExitHasInterCause`).
* The event loop provides what those results assume. With nothing but a thread
  that keeps running, no callback is starved, no output is left without a write
  event, loopexit is neither lost nor overtaken for ever, and no callback of a
  connection leaves its descriptor as ready as it was. That holds while the loop
  spins on a client that it cannot accept, too.
* The order of `gamed_init` (packet queued, then the Lua machine) is safe
  because the packet waits for the loop: the service never opens for a start-up
  that may still fail. No queued packet is forgotten except by a gated that had
  no memory for the connection (it keeps the descriptor open and serves it
  never, and the game server waits for ever). When one server ends the other
  one does.
* `config_init` fails in the way the file determines, or in one of two ways
  when two kinds of fault meet, and never for a good file; a store that is ready
  says what the file says; a fraction reads as 0 and a boolean as 0 or 1.
* An evbuffer is a stream however its bytes lie in chains, and what it caches
  is true of them, through short reads, partial drains and failed allocations.
* The pool never hands out an element twice. The reason is not that freeing
  works: the wrong sign makes the free of all but a block's first element do
  nothing, and the failing to move `tail` keeps what was put back out of reach.
  A pool of three to five elements that has a first block stays in its own
  memory; every larger one overruns its table at once, and a smaller one leaves
  it with the `mem_pool_malloc` that follows the spare element of its second
  block (`ForeignMemoryCauses`).
* The lists are sequences for a caller that initialises a spliced head again,
  and each function of `list.h` is the operation of its name;
  the task ring is a bounded queue of `TASK_QUEUE_SIZE - 1`; `atoi` is right
  whenever the value fits, although its place value overflows before.

### Disagreements with the code's own words

1. `RpcAssertionHolds`: `gamed_read_rpc_packet` asserts `AUTH_NONE`
   (`gated.c:115`) and is called only for `AUTH_GAMED`. An auth packet that
   arrives in two parts is enough to abort gated.
2. `PendingClientServed`: "Release client connection." (`gated.c:46`) releases
   nothing; when the descriptors are used up a new client waits for ever though
   the old ones have gone.
3. `FreeFindsBlock`: an element is not found in the block it belongs to
   (`mem_pool.c:145`), and so is lost to the pool.
4. `OwnMemoryOnly`: the demonstration of `mem_pool.c` takes twenty elements
   from a pool of ten (`mem_pool.c:187`), whose table is allocated in bytes
   (`mem_pool.c:65`) and overrun while the pool is created.
5. `ThreadsStarted`: `thread_num` is "the number of threads of the pool"
   (`thread_pool.c:56`), and none is started: the loop compares with the field,
   still 0 (`thread_pool.c:86`).

Two more are plain to see in the code and have no run: `elem_total`, "the total
number of elements" (`mem_pool.h:25`), grows by `elem_num` for a block of a third
of that (`mem_pool.c:127`, `MallocFromNewBlock`), and "create mem_pool success."
(`mem_pool.c:27`) is printed for a pool without a block too.

### Bounds, and why they are enough

* `Gameds`, `Strays`, `Clients`: two game servers give a second handshake, a
  replaced `g_gamed_conn` and a restart; a stray gives a connection that never
  speaks; two clients give streams that could be mixed. The theorems of section
  4 hold for any number.
* `MaxSend` (pieces of a client): two pieces give order, a gap and a cut.
* `MaxFaults`: one failing allocation, bind, accept or start is enough for every
  branch that follows a failure; the properties that allow a failure do not
  count them, and the theorems hold for any number.
* `MaxFds`: fewer descriptors than peers, so that accept fails (`gated_live`: one
  more than peers, see Fairness).
* `gated_loop` (89,239 states): the loop spins only on a listener that stays
  ready, so there is a second client, which waits for the descriptor of the
  first one. One connection of the inter port is enough there: which connections
  `gamed_read_cb` mixes up is the question of `gated_handshake`, and the loop
  treats all of them alike.
* `lhh_server` (365,258 states): a good file, one with an address that is a
  name, one without the inter port, one with a key that is a Lua global; the
  command lines of each role. Clients connect but send nothing there
  (`MaxSend` 0): the echo has its own run. `INTER_GATED_PORT` and
  `OUTER_GATED_PORT` are taken to differ.
* `EvBuffer`: the code's MIN_BUFFER_SIZE, EVBUFFER_MAX_READ and NUM_READ_IOVEC
  are 1024, 4096 and 4 and become 4, 5 and 2. What the code compares them with
  is only whether a request fits into the room left, in one chain or in as many
  as a `readv` takes; in the small instance a read fills a chain exactly, fills
  several, leaves one empty, and finds all vectors used.
* `ThreadPool`: a ring of three slots with four calls of two threads is full
  and refuses: the full test wraps (the slot behind the last one is the first).
  `tail` itself never returns to 0, because nothing is ever dequeued. `ListHead`: two lists and three entries
  give empty, one-element and longer lists on both sides of a splice. `Atoi`:
  ints of eight bits (`INT_MAX` 127), so that four characters overflow both the value and the
  place value. `Config`: an entry of each kind, alone and together.
* `MaxBlocks`: a first block and three grown ones, with the addresses chosen
  back to back, in front of and behind one another (67,206 states). `calls` and the number of
  blocks are bounded by the addresses. Two elements and ten, besides four, are
  one of each kind of pool: growing by empty blocks, overrunning, and neither.

### Fairness

`FairSpec` of `Gated` has weak fairness of each callback of the event loop, per
connection: libevent polls level-triggered, and an event whose condition stays
true is dispatched in some round. That is not left to this argument:
`GatedLoop` has weak fairness of one action only, `LoopStep`, the thread that
runs, and `gated_loop` checks that every fairness condition of `FairSpec`
follows (`GatedFairSpec`). Of the errors it is fair only to those that are there
until somebody runs into them: a stream that has ended (`AtEnd`) and an `accept`
without a descriptor (`NoDescriptor`). A call that may fail for lack of memory
never has to. Nothing is assumed of the peers: nobody must connect, send or
close.

`gated_live` has no failing call, because a connection whose structure could not
be allocated, or whose read failed, is never read again: the promise that what
was sent comes back is one of a client that has its structure and its read
event. It has a descriptor to spare: a connection that cannot be *accepted* is
promised nothing, and one of the inter port that takes the last descriptor stops
gated.

`ServerFairness` of `LhhServer` has weak fairness of gated's callbacks, of each
step of a game server that has been started, and of the network: a connection
attempt is answered or refused in the end, and a process learns that the other
end has gone. None for starting or killing a process.

`PoolFairness` is weak fairness of each caller. It would not be enough for a
caller that waits for a mutex taken again and again; calls are finitely many.

## 4. Proofs

Every theorem holds for **all** values of the constants that satisfy the named
assumptions of the module that declares them:

| assumption | says |
|---|---|
| `ConnsAssumption`, `BoundsAssumption` (`Gated`) | a connection belongs to one port, and NULL is not a connection; bounds are natural numbers |
| `ConnsFinite` (`GatedLoop`) | one poll finds finitely many ready descriptors |
| `SizesAssumption` (`MemPool`) | sizes of pools (any set of them, `ElemNums`) and of elements are positive, addresses are numbers |
| `PoolAssumption` (`ThreadPool`) | the ring has a slot, a thread was asked for, "nobody" is not a producer |
| `FilesAssumption`, `ConfigFileAssumption` (`Config`, `ConfigFile`) | a file is a table with keys and values; only a string names a global of Lua |
| `EvBufferAssumption` (`EvBuffer`) | sizes are positive, the smallest allocation is larger than the head of a chain, a `readv` takes two vectors or more (the code asserts it) |
| `CIntAssumption`, `AtoiAssumption` (`CInts`, `Atoi`) | `INT_MAX` is a natural number; a text is a sequence of characters |
| `ListAssumption` (`ListHead`) | heads and entries are different objects, and there are finitely many entries |

| theorem | statement | module |
|---|---|---|
| `TypeCorrect` | `Spec => []TypeOK`, with the fact that each buffer holds pieces of its own connection only | `GatedProofs` |
| `HandshakeCorrect` | `Spec => []HandshakeInv` | `GatedProofs` |
| `ServiceGated` | `Spec => []ServiceIffAuthenticated` | `GatedProofs` |
| `ClientsNotAuthenticated` | `Spec => []ClientNeverGamed` | `GatedProofs` |
| `GamedBeforeService` | `Spec => []ServiceAfterGamed` | `GatedProofs` |
| `InterDataIsFatal` | `Spec => InterDataEndsOpenService` | `GatedProofs` |
| `ExitsForInterPort` | `Spec => LoopExitHasInterCause` | `GatedProofs` |
| `EchoCorrect` | `Spec => []EchoIntegrity` | `GatedProofs` |
| `GatedImplementsService` | `Spec => ServiceSpec` | `GatedProofs` |
| `LoopIsGated` | `LoopSpec => Spec` | `GatedLoopProofs` |
| `QueueIsIntact` | `LoopSpec => []LoopIntact` | `GatedLoopProofs` |
| `OutputIsNotForgotten` | `LoopSpec => []OutputIsPolled` | `GatedLoopProofs` |
| `CallbacksProgress` | `LoopSpec => Progress` | `GatedLoopProofs` |
| `ServerIsGated` | `ServerSpec => Spec` | `LhhServerProofs` |
| `ServerTypes` | `ServerSpec => []ServerTypeOK` | `LhhServerProofs` |
| `ServiceNeedsGamed` | `ServerSpec => []ServiceAfterStartup` | `LhhServerProofs` |
| `ServerImplementsService` | `ServerSpec => ServiceSpec` | `LhhServerProofs` |
| `PoolTypes` | `Spec => []TypeOK` (of `MemPool`) | `MemPoolProofs` |
| `FreeChains` | `Spec => []FreeChainIntact` | `MemPoolProofs` |
| `NoForeignMemory` | `Spec => []ForeignMemoryCauses` | `MemPoolProofs` |
| `PoolImplementsAllocator` | `Spec => AllocatorSpec` | `MemPoolProofs` |
| `RingHoldsAccepted` | `PoolSpec => []RingIsAccepted` | `ThreadPoolProofs` |
| `PoolImplementsQueue` | `PoolSpec => QueueSpec` | `ThreadPoolProofs` |
| `OutcomeIsOfFile` | `ConfigSpec => []OutcomeOfFile` | `CIntProofs` |
| `ConfigReadable` | `ConfigSpec => []ReadyConfigReadable` | `CIntProofs` |
| `AtoiCorrect` | `AtoiSpec => []AtoiIsValue` | `CIntProofs` |
| `ChainsStayIntact` | `EvBufferSpec => []ChainsIntact` | `EvBufferProofs` |
| `EvBufferImplementsStreams` | `EvBufferSpec => StreamSpec` | `EvBufferProofs` |
| `ListsStayIntact` | `ListSpec => []ListsIntact` | `ListHeadProofs` |
| `SafeLoopIsComplete` | `ListSpec => []SafeLoopMeetsAll` | `ListHeadProofs` |
| `ListImplementsSequences` | `ListSpec => ListSeqSpec` | `ListHeadProofs` |

### gated

*Handshake.* `ServiceIffAuthenticated` is not inductive: a handshake could be
granted to a connection that is not accepted, or to a client. `HandshakeInv`
adds what rules that out: a client exists only behind an open port;
`g_gamed_conn` and authenticated connections are accepted (so accepting, which
resets `auth`, never touches an authenticated one); and nothing is ever written
to a connection of the inter port. (It is proved, and implies what the run
checks, so it is not a property of a run itself.) The last part is needed for
`InterDataIsFatal`: a peer resets a connection only with unread data of gated,
so the only step that can take data off an inter connection is its read
callback. With the port open that callback ends the process in each of its
branches. The invariant speaks of a *running* process because a handshake that
fails to bind has set `auth` before `exit(1)`.

*First gamed, then the service.* The port opens only inside a read callback of
the inter port, so some inter connection had data; `SenderInv` says whose: only
a game server that has connected and sent puts data on such a connection. Which
connection the packet is read from, and whether it is garbage, does not matter.

*Why the loop exits.* `LoopExitHasInterCause` is about steps. `exiting` changes
only in the two error callbacks of the inter port and behind an accept
(`ExitingSetBy`), and each of these has its cause in the same step: a read ends
in an error because the stream has ended or a call has failed (`ErrorIsLoss`),
and accept fails because no descriptor is left or a call has failed
(`RefusalIsCause`, `AcceptIsCause`: behind the last descriptor that is the step
that took it). The other way round, EV_READ is disabled only by an error
(`ReadingStoppedBy`). What the model counts in `faults` are calls that fail
(`FailureCounted`).

*Echo.* `EchoIntegrity` needs one more fact (`Drained`): between callbacks a
client's input buffer is empty. Without it `gamed_read_cb`, which may work on a
client's connection, could take the client's words for an auth packet. Each step
is then, for each client, one of four things: its words only move on inside
gated, it sends, it goes, or it gets words from the front of what is on its way
(`OwnStep`, `OthersKept`, `AllKept`). `GatedImplementsService` maps these four
to a stutter, `Submit`, `Leave` and `Deliver`, and the changes of the process to
`OpenService` and `Stop`; that the abstract service is open when a client does
something follows from `HandshakeInv` and `SentInv`.

*The event loop.* `LoopIsGated` shows step by step that the loop only runs what
`Gated` allows, so every theorem above holds of gated *on its loop*. What the
loop adds is `ScheduleInv`: an event in the active queue is there once and is
added, with the exit timer behind all others (`QueueInv`); a connection with
output has its write event added (`WriteAdded`); and an exit that was asked for
is a timer, an active event, or has been seen (`ExitComes`). A callback runs
when its event has just left the queue, and the only event that it may delete is
that one, so nothing that is still queued loses its event.

*Both servers.* `ServerIsGated` does for the whole system what `LoopIsGated`
does for the loop. `EndsAgree` relates what a game server believes of its
connection (`link`, `stage`, `queued`) to what gated's side knows (`sock`,
`peer`, `sent`): before the event loop nothing has been sent, before
`socket_init` there is nothing to send, and a packet has been sent only by a
process that came through its start-up. With `GamedBeforeService` that gives
`ServiceNeedsGamed`.

### The libraries

*mem_pool.* `PoolInv` says why the pool works although `mem_pool_free` does not.
Only the last block of the list may be other than full (`head = tail`), because
a block is added only when all are; its free elements are those from `head` to
`elem_num - 1`, in order, as they were at first; `tail` has never moved. With
the wrong sign of the index a freed element matches no block, or a full one, or
one that is not full at an index below `head` (`MatchIsHarmless`). It is put
behind `tail`, which stays where it is, so a full block stays full and a free
chain still ends at `tail`: what is written is never read again. Held elements
are elements below `head` (`Origin`), hence never free ones, and blocks do not
overlap, so that no two indexes are one address: `PoolImplementsAllocator`.
`FreeChains` says something of a pool in its own memory only, which has five
elements at most; `NoForeignMemory` says which pools those are. A pool of one or
two elements grows by a block of none (`GrownBy`), and the invariant follows
that block to the end: it is fresh, or its spare element is taken (`SpareTaken`)
and its `head` is ENDOFMEM, which is where the next growth leaves the table.

*thread_pool.* `RingInv` is mutual exclusion (`MutexHeld`) with what it buys:
the thread that is inside found the ring not full and it still is not, and what
it has stored at `tail` is still there when `tail` moves (`SlotAtTail`). No
worker takes anything out, so `head` is 0 and `tail` counts the accepted tasks.

*config.* `OutcomeIsOfFile` allows a success, an `exit(1)` and a failed assertion
only as the file has them, so a good file ends nothing. `StoreInv` splits the entries into those that `lua_next` has returned,
whose globals are what the entry makes of them, and the others, whose globals
are as the libraries left them. That the getters agree with the file although an
integer passes through an `int` twice is `CIntOnce`.

*atoi.* The invariant avoids powers of ten: the value of what is still to be
read times the next place value, plus the sum, is the same int (`Same`, equal up
to a multiple of the modulus) as the value of the whole text. So it does not
matter when the place value overflows.

*list.h.* `MemoryInv` says that memory *represents* sequences: the nodes of each
list form a ring in which `next` and `prev` of neighbours agree, and no two rings
share a node. Each operation is then an operation on sequences together with the
few pointers that it writes (`ListsRead` and `WalkMeetsList` give back what the
loops of `list.h` read), and `ListImplementsSequences` says of each function
which one: a caller of `list_add` gets the front and one of `list_add_tail` the
end. For `list_for_each_safe`, whose body takes entries out,
`Looping` keeps the place: the first `d` entries of the list are those that the
loop met and left there, `pos` is the next one and `n` the one after it.

*evbuffers.* The inductive invariant is `Sound`, of each evbuffer, and a bound
on the chains behind the data of the input. `Sound` adds to `ChainsIntact` that
an empty chain has room (so that `_evbuffer_expand_fast` counts all the chains
behind the data, and stops adding when NUM_READ_IOVEC are there) and says where
`last_with_datap` is without naming the set of chains with data
(`LastWithData`). Each operation is compared with the streams chain by chain:
after `readv` the first `i` chains hold what they held and as many of the new
bytes as there was room for (`FilledUpto`), because either the chain is behind
the data and empty or none of the new bytes came before it; after a drain they
hold what they held without the first bytes (`LeftUpto`), and the chain that is
left first is never behind `last_with_datap`, which is why resetting that to
`&buf->first` and leaving it alone agree (`DrainSound`). Room is only made where
no bytes are (`KeptSound`, `Cut`), and a chain is as large as it was asked to be
(`BufferLenEnough`: doubling gets there).

*Recursive functions.* `Along` in `ListHead`, `Value` in `Atoi`, and `Upto`,
`Room` and the doubling of `BufferLen` in `EvBuffer` are recursive functions, and
what they compute for every input is proved here, without the induction theorems
of the library: a set of numbers has a least one (`LeastNumber`, from the
well-foundedness of the numbers), so what fails somewhere fails somewhere
*first* (`FirstDifference`, `Induct`), and a step that can always be taken can
be taken `N` times (`Iterated`).

### Only model-checked

* The liveness properties: `AuthLeadsToService`, `InterLossStopsGated`,
  `ServiceLiveSpec`, `QueuedPacketServed`, `GamedFollowsGated`,
  `GatedFollowsGamed`, `EveryCallReturns`, and `GatedFairSpec`, which is about
  ENABLED. These are out of the prover's reach; `LoopIsGated` is the part of
  `GatedFairSpec` that is not.
* The five properties that the code violates.

## 5. What is not modelled

*Code that does not run.* `worker_thread_func`: no worker is ever created, so
its missing test for an empty queue and its wait without the mutex never bite
(`g_thread_pool` is static, and nothing but the pool's own functions could reach
it). `gated_read_cb` of `gamed.c`: gated never writes to the inter port
(`HandshakeInv`). `do_call_script_func` (it pushes the function's name, not the
function) and `vm_close`: nothing calls them. `quick_sort.c` is empty,
`network/network.c` does not compile, no make target builds `malloc.c`.

*Code without behaviour of its own.* The syslog wrappers, printing
(`dump_mem_pool`, `gate_log`), the uthash demonstration, `test/`, notes, tools;
`signal_init` is empty, so signals are SIGPIPE and kills only.

*Undefined start.* Without an option `main` calls two uninitialised pointers;
the models let such a process crash and show that the other server copes.

*Vendored code.* `3rd/libevent` and `3rd/lua` are most of the lines under
`src/`, and most of those are never reached by lhh: other polling backends,
signals, other timers, filters, TLS, rate limits, DNS, HTTP; of Lua, everything
behind the C API. Modelled is what the servers run of libevent. Of that, four
things are left out: `evbuffer_add` behind an empty chain that
`evbuffer_add_buffer` brought along leaves `last_with_datap` stale, but no
connection of lhh makes both calls; `event_base_once` may fail for lack of
memory and nobody looks at the result of `event_base_loopexit`, which would void
`InterLossStopsGated`; nor at that of `event_add`, which fails when the kernel
has no memory for the interest in a descriptor: a connection would then have
EV_READ or output, and no event; priorities, locks and the thread notification
are not used.
`vm_init` initialises Lua's table of shared strings a second time
(`luaS_initshr`); with one thread this only initialises its locks again.

*Contents.* The bytes of packets and elements, and the values of configuration
entries beyond their type, their integer and their text.

## 6. State and plan

Every safety invariant and every action property that a passing run checks is
proved, and so is every refinement as far as it speaks of steps. What could
follow:

1. *Failure of `event_base_once` and `event_add`*: a bounded number of failed
   allocations in the loop itself, with the part of the promises of gated that
   survives them.
2. *A listener that cannot accept*: how often the loop turns for it, next to
   `Progress`, which is about connections.
3. *Liveness*, once a prover for ENABLED is at hand; the invariants that the
   arguments need (`ExitComes`, `WriteAdded`, `MutexHeld`) are there.
