# A TLA+ model of the ARST quote server

The quote server (`src/ARST_QUOTE`) reads lines of market data from exchanges over TCP,
passes them through System V message queues, drops repeated trades, and sends what is left
to every connected client. It is a program of many threads that share objects with few
locks. This directory holds TLA+ modules of the parts where threads meet, from the socket of
an exchange to that of a client and from the start of the process on, TLC configurations that
check them on small instances, and TLAPS proofs, for every value of the constants, of the safety properties of the
connection pool, the duplicate filter, the line queues, the events, the heartbeat, the clients, the start of the process
and the tick numbers, and of all refinements.

## 1. The system

### 1.1 Components

| Component | State | Operations | What makes it correct |
|---|---|---|---|
| Upstream connection `ARSTServer` (`ARSTWebConn.cpp`) with `ARSTClientSocket` | status `m_ssServerStatus` and its mutex, `m_nRunning`, socket status | `Run` (reader thread), `RecvAll`, `OnConnect`, `OnDisconnect`, `OnHeartbeatLost` | the status lock is released on every path; a broken connection stops delivering; silence is acted on |
| Upstream pool `ARSTServers` (`ARSTWebConns.cpp`) | `m_vServerPool`, `m_vServerConfig` | `StartUpServers`, `AddFreeServer`, `CheckClientVector` (called by main once a second) | only a broken object is replaced, none that works is lost, each is watched, a broken one is replaced |
| Heartbeat `ARSTHeartbeat` | `m_nIdleTime`, two events | `Run` (thread), `TriggerGetReplyEvent`, `TriggerTerminateEvent` | silence ends in `OnHeartbeatLost` after the requests of the grace; a reply resets it |
| Events, neosmart `ARSTPevents.cpp` | per event: mutex, `State`, `RegisteredWaits`; per wait: mutex, condition variable, `RefCount`, `FiredEvent`, `StillWaiting` | `WaitForMultipleEvents`, `SetEvent`, `CreateEvent`, `DestroyEvent` | an event that is set is taken once and reported; no wake-up is lost; no wait is leaked or freed in use |
| Queue reader `ARSTQueueDAO` (`ARSTQueueNode.cpp`) | `QueueLocal`, `hash_string` (shared by all readers) | `Run` (thread), `SendData` | a trade is not sent twice within the window; what is dropped was sent; each client gets the line |
| Clients registry `ARSTClients` (`ARSTServer.cpp`) with `ARSTServerSocket` | the singleton and its mutex, `m_vClient` and its mutex, status of the listening socket | `GetInstance` (any thread), `SetConfiguration`, `Run` (accept thread), `CheckClientVector` (main), push, erase | there is one registry and all threads have it; a client that is gone is closed and erased; nobody else's descriptor is closed; the walk of the readers misses nobody |
| Client session `ARSTClient` (`ARSTServiceHandler.cpp`) | `m_csClientStatus`, descriptor | constructor, `SendAll`, destructor | no use after destruction; a line goes whole to the connection it is meant for, or the connection gets nothing more |
| Thread base `ARSTThread` | `m_nRunning`, `m_nDetached` | `Start`, `IsTerminated`, destructor | the thread sees that it runs; it is not cancelled by an invalid identifier |
| System V queue `ARSTQueue` | one send buffer for all senders, one receive buffer, the kernel's queue | `SendMessage`, `GetMessage` | a line is sent whole and once, lines keep their order, a full queue does not hold a sender for ever |
| Request thread `ARSTRequest` | two events | `Run` | waits for ever: nobody sets its events |
| Main (`ARSTMain.cpp`) | configuration | start-up order, polling loop | each part is up before another needs it |
| Tick-number tool `ARSTSetShareNumber` with `set_sharedmemory.sh` and shared memory | a segment for each service and market | the script, `main` of the tool | a service finds its own number; its block of numbers tells the day, and the host but for those that share one number |
| Logging, message formats, build files | none that others read | | not modelled, section 6 |

### 1.2 How they interact

* main constructs the upstream connections. Each constructor connects and starts the reader
  thread, which creates and starts its heartbeat and its request thread. main then starts the
  queue readers and the accept thread, and for ever after calls `CheckClientVector` of the
  clients and of the pool, and sleeps. main and the queue readers ask for the `ARSTClients`
  singleton at the same time.
* The reader thread holds the status mutex across `recv()`. The heartbeat thread needs it to
  report a loss; main reads the status without it.
* Reader threads call `TriggerGetReplyEvent`, i.e. `SetEvent`, on the heartbeat's events, for
  which the heartbeat thread waits in `WaitForMultipleEvents`.
* Reader threads write lines into the one buffer of a queue's `ARSTQueue`, without a lock, and give it to the
  kernel, which blocks them while the queue is full; queue readers take them from one, filter them and walk
  `m_vClient` to send them; the accept thread appends to the same vector and main erases from it.
* `ARSTQueueDAOManager` is used by main and the readers and is not in the repository.

### 1.3 What is hard

Interleavings of main, reader, heartbeat, accept and queue threads; a status read without its
lock and acted on later; a lock held across a blocking call; a new thread that runs before its
creator has finished; a timeout that races an answer; structures freed by whoever drops the last
reference; vector elements erased and moved under a reader; descriptors that the kernel gives
out again; a buffer that several threads fill; a pointer tested without its lock; a line taken in part by
`send()`; a window trimmed in chunks; a start-up order. `PROJECT.json` lists each place as a
hazard, with the property that covers it or the reason why none does.

## 2. The modules

| Module | Models | Checked through |
|---|---|---|
| `ARSTWebConn` | one upstream connection: reader, heartbeat, status lock, socket | `MCARSTWebConns` |
| `ARSTWebConns` | the pool and main, composed with the connections | `MCARSTWebConns` |
| `ARSTWebConns_proofs` | theorems about the pool | TLAPS |
| `ARSTDedup` | what a duplicate filter with a window promises | refinement by `ARSTQueueNode` |
| `ARSTQueueNode` | the queue reader's filter | `MCARSTQueueNode` |
| `ARSTQueueNode_proofs` | theorems about the filter | TLAPS |
| `ARSTWaitAny` | what a wait for any of several auto-reset events promises | refinement by `ARSTPevents` |
| `ARSTPevents` | `WaitForMultipleEvents` and `SetEvent`, with mutexes and references | `MCARSTPevents` |
| `ARSTPevents_proofs` | theorems about the events | TLAPS |
| `ARSTHeartbeat` | the heartbeat thread on those events | `MCARSTHeartbeat` |
| `ARSTHeartbeat_proofs` | theorems about the heartbeat, from those about the events | TLAPS |
| `ARSTLineQueue` | what the queues between the threads promise | refinement by `ARSTQueue` |
| `ARSTQueue` | the senders' shared buffer, msgsnd and msgrcv, the kernel's queue | directly |
| `ARSTQueue_proofs` | theorems about the line queues | TLAPS |
| `ARSTClients` | vector of clients, accept thread, main, queue readers | `ARSTMain` |
| `ARSTClients_proofs` | theorems about the clients | TLAPS |
| `ARSTMain` | the process from its start: configuration, singleton, listening socket, polling loop, composed with the clients | directly |
| `ARSTMain_proofs` | theorems about the process: the singleton, its types, that it runs `ARSTClients` | TLAPS |
| `ARSTSetTickNumber` | the script and the tool that give a service its tick numbers | `MCARSTSetTickNumber` |
| `ARSTSetTickNumber_proofs` | theorems about the tick numbers | TLAPS |

Variables and actions keep the source's names. Where the code keeps its place in a program
counter, a variable named for the thread (`reader`, `heartbeat`, `main`, `waiter`, `setter`,
`dao`) says where it is. Variables called *history* in their comment, and no others, have no
counterpart in the code. Definitions whose comment begins with "Mutant:" are deliberate
mistakes used to test the properties; no behaviour of the model contains them.

**`ARSTWebConn`, `ARSTWebConns`.** The steps of the reader are those of `ARSTServer::Run`
between two points where another thread can see a difference: `RunPrologue` (creates the
heartbeat, sets `ssFree`), `LeaveLoop`/`EnterLoop` (the loop test and the status test),
`LockForRecv`, `RecvByte`/`RecvLine`/`RecvFailed`, `Park`, `SendData` (which module `ARSTQueue` takes apart). The heartbeat has
`HeartbeatReply`, `HeartbeatTimeout` and `HeartbeatLost`. main has the constructor
(`NewServer`), the outcomes of `Connect`, and the two nested loops of `CheckClientVector`.
`HeartbeatTimeout` may lose a reply that has just been set; that this is what the events do
is shown by the run `heartbeat_reply`. A replaced object is never deleted by the code; the model
uses the identity of one that can take no further step again, so that the number of
reconnections is not bounded.

**`ARSTQueueNode`.** A line is a sequence of fields, a field a sequence of characters, because
how a key is built matters: `strtok` skips empty fields, and the three fields are run together
without a separator. `GetMessage` is one turn of the loop. `ARSTDedup` is the promise. It
has no `QueueLocal`, only the keys sent, the number of the last of them that are remembered, and what became of the last line: a line is
sent (`Send`) exactly if its key is none of the remembered, and dropped (`Repeat`) if it is; a repeat may forget the
oldest, but leaves `Window`.

**`ARSTPevents`.** A step runs from one lock, unlock or sleep to the next one that another thread
can observe. A timeout leaves the wait loop without looking at `FiredEvent` again, as the code
does. A signal to a wait that has been freed is undefined in C++; it has no effect here, and
`NoUseOfFreedWait` says where it cannot happen. What `std::remove_if` and `erase` leave of a deque of waits (`Kept`) is given by
the places that are kept and the rank of each among them, a definition without recursion, so that it can be reasoned
about. `ARSTHeartbeat` extends the module with the idle
counter: its steps are those of the events and of the loop in `ARSTHeartbeat::Run`.

**`ARSTClients`.** An iterator is an index. push_back of a full vector replaces the buffer, which
makes the iterators of others stale. Using a stale iterator, an element that is being moved, a
destroyed object or the identifier of a thread that is gone is undefined behaviour: the process
either goes on as if the memory were intact, where it still is, or ends in the state
`undefined`, about which no property says anything. What the checks show is therefore what holds
until then, and the model shows that the state is reached: `UseOfDestroyed`, `IteratorInvalid`,
`UseOfThread` and `MainIteratorStale` all happen. `SendPart` is a `send()` that takes part of a line, after which
`SendAll` calls it again.

**`ARSTMain`.** Extends `ARSTClients` with what happens before and around it: `ReadClientConfigFile` to `Listen` in the
order of main(), each read of the configuration with its end of the process, `GetInstance` by main and by every queue reader in
its four steps (test, lock, test again, unlock), the polling loop in which main looks at the clients and then at the
upstream connections. A queue reader walks the vector only after its `GetInstance` returned, the accept
thread runs only after a `Listen` that succeeded. `Listen` can also leave the socket closed, or end the process, when `getaddrinfo` finds no
address and its null pointer is read. The run checks the properties of `ARSTClients` in this composition.

**`ARSTQueue`.** A text is a sequence of cells, each a piece of the line it came from or a zero byte; `memset` and
`memcpy` write cell by cell in any order, so that what two senders do at once in one buffer is any mixture. `msgsnd` copies the
message first and then waits for room (`Msgsnd`, `Enqueue`). A queue may be missing from the start, as the result of
`msgget` is not looked at, and may be removed from outside (`Ipcrm`); then `msgsnd` fails unnoticed and `msgrcv` ends the
process. Two history variables are there for the properties: `shared`, the lines sent while another sender was in the same buffer, and
`seen`, the lines of which a reader received a piece. `InOrder` is about the text, the cells themselves, not about the
line a message was sent for. `ARSTLineQueue` is the promise: a line is put once or lost, taken in order, and put as it
was given unless
another sender was in the buffer at the same time. That a DAO sends to the queue it receives from is an assumption: the
keys come from the configuration and the queue manager, neither of which is in the repository.

**`ARSTSetTickNumber`.** The script with its arguments, the date and the host, and the tool in its two steps, of which
several can run at once. Numbers are written in units of `SHIFT_BIT` (100000), as all that the script makes are multiples of
it, and the values of the program (13 digits) are larger than TLC's integers.

## 3. The runs

| Run | Question | Instance |
|---|---|---|
| `webconn_pool` | is anything but a broken connection replaced, is one lost or left unwatched; does a broken one go on delivering | two configured servers, one named BITMEXFUND, three objects, interval 0 |
| `webconn_live` | is a connection that was closed, or whose reader never got going, replaced; is the status lock leaked | one server, two objects, interval 5 s, all failures, `pthread_create` included, fairness |
| `webconn_silent` | is a silent connection replaced: **no** | as above, and fair locks |
| `webconn_dao` | does a line always find a queue: **not** during start-up | one server |
| `queue` | does a sender that is alone send its line whole; are the lines nobody wrote over received once and in order, whatever the others mix up; does a full queue let go of a sender | two senders of three lines in all, of one or two cells, a queue of two cells, fairness |
| `queuenode` | does the filter keep its promise | eight kinds of lines, at most seven sent, trimmed by two above three, so that two are kept (`Window`) |
| `pevents` | does a wait take and report each event once; are references exact; is a wake-up lost | two events, a setter for each, three addresses for waits, waits with and without a limit |
| `heartbeat` | is silence noticed, in time and after a request; is a wait freed in use | two setters of one event, interval 7 s |
| `heartbeat_interval` | is the first request later than the interval, as the comment says: **no** | interval 10 s |
| `heartbeat_reply` | does a reply always reset the idle time: **no** | interval 7 s |
| `clients` | have all threads one registry; do lines reach whom they are meant for, whole and once; is what is gone closed and reaped | from the start of the process; two objects, two descriptors, one queue reader, fairness |
| `tick` | does each service find its number; was its block made today or before, and does it tell the day | three hosts, three days with digits 1 and 11, two scripts at once |

Why the bounds are enough for the cases that matter:

* Three objects per pool (two where there is one server) are one in use, one under construction and one left behind whose threads
  still run; with interval 5 the second timeout in a row is a loss (10 > 5), with interval 0 the first. Two servers let
  the loop of `CheckClientVector` meet a broken object at either place and find its name or not.
* `QUEUELOCALSIZE = 5` and `TRIM = 2` keep the ratio that matters of 1000 and 250: the threshold of
  three quarters (rounded down to 3) is not a multiple of the chunk, a trim can take one chunk or
  more, and seven sent lines fill the memory, trim it and fill it again. `MaxPublished` is the only
  bound in a guard of that module, and the eight lines contain two different trades with one
  key, the same trade of two instruments, an empty field and a line with none of the fields.
* Three addresses are the wait in progress, one that is still registered with an event after it ended,
  and one more that is freed and used again.
* Intervals 7 and 10 are one that is no multiple of the five seconds of a wait and one that is; only
  the latter shows the difference between `<` and `<=`.
* Two senders are what it takes to share the buffer, and a third would meet what the second meets: any mixture of cells.
  A buffer and a queue of two cells hold one long line or two short ones, so that a shorter line follows a longer one in the
  buffer and a sender finds room for one line and not for another. `MaxLines` (two of a sender) and `MaxTotal` (three
  of all), the bounds in the guard of `SendData`, let a sender come back while its first line is still queued and the other is at work on
  one of its own. With four lines the safety properties and the refinement hold as well, but the states are six times as many.
* With two clients one can be erased in front of, at, and behind a reader's place, the vector grows twice
  under an iterator, and both the address and the descriptor of a client are used again by the next while the
  old object is still in the vector. Three clients take longer than is useful for a check that is run often.
* The days 1 January, 11 January and 1 November are those whose digits are alike. `MaxRunning` bounds the scripts that run at
  once; two are enough to meet between `shmget` and the store.

Deadlock is checked in the event and heartbeat runs, where every thread calls for ever. In the others the
system really stops: every line is sent (`MaxLines`), the process is killed (`crashed`), ends on an error of msgrcv, or
does not find its configuration, ends in `undefined`, or every object is parked.

### Fairness

* Weak fairness of each thread: the scheduler runs what can run; connect(), sleep() and send() return.
  In `ARSTWebConns` `SendData` is not among them: a reader may wait in msgsnd for ever, and `ServiceRestored` holds all the same.
  Nothing is assumed of the exchange or of clients: they may send, close and come, or not.
* `webconn_silent` assumes also that whoever waits for a status lock that is free again and again gets it
  (strong fairness). It is a refutation, and the stronger assumption makes it a stronger one: the lock is not
  lost in a race, the reader never releases it.
* `ARSTPevents` assumes strong fairness of the timeout and of a setter's lock on a wait. A wait can be woken
  spuriously again and again, which disables the timeout each time; but its deadline is computed once
  before the loop (`ARSTPevents.cpp:283-292`), so it is over in bounded time whatever the wake-ups. Likewise
  the wait's mutex is free during each sleep.
* `queue` assumes that a queue reader comes back for the next message, and strong fairness of `Enqueue`: a sender that waits
  for room is not passed over for ever by others, as the kernel wakes those who wait in the order they came.
* `clients` assumes that lines keep coming: a client that is gone is noticed only when a send to it fails. Nothing is assumed of a process
  that has ended or is undefined (`Running`).

### What the violated runs say

Each is a statement of the repository about itself which the code does not keep; `PROJECT.json` quotes the lines.

* **`LostIsActedOn`.** The reader waits in `recv()` with the status mutex; `OnHeartbeatLost`, called because nothing
  is received, needs that mutex. A connected but silent exchange is found lost and never replaced.
* **`LineFindsQueue`.** main starts the upstream connections before the queue readers; a line in between fails
  `assert(pQueueDAO)`. (This rests on how `ARSTQueueDAOManager` is used, as it is not in the repository.)
* **`AskedAfterInterval`.** The comment's bounds on the idle time are off by one from the code's `<`.
* **`ReplyResetsIdle`.** A reply set in the instant of the timeout is consumed and reported together with the
  timeout, and the loop counts it as silence.

## 4. The proofs

The proofs hold for every set of objects, configuration, interval, window, line, sender, event, wait, client, descriptor, calendar
and queue or buffer size. They use only the named assumptions on the constants, which TLC evaluates in the runs:
`HeartbeatAssumption` (of `ARSTWebConn` and of `ARSTHeartbeat`), `PoolAssumption`, `QueueAssumption` (of `ARSTQueueNode` and of
`ARSTQueue`), `PeventsAssumption`, `ClientsAssumption`, `MainAssumption` and `TickAssumption`. Where a theorem needs more than
its module assumes, the theorem says so: `DistinctNames`, `~CreateMayFail` and `OneReader` below.

`ARSTWebConns_proofs`:

* `IInv` = `TypeOK`, `ObjectInv(s)` of every object and `MainInv`. The properties are not inductive: that the lock is
  held in recv() only needs to know that a reader in recv() has seen `m_nRunning` set; that a broken connection
  delivers one line at most needs to know that after a late line its reader is back at the loop test, which it can
  no longer pass. `ObjectInv` says where the threads of an object can be together, `MainInv` what main is
  constructing and how far the pool is filled. From `Init => IInv` (`InitIInv`), the steps of one object (`ServerStepIInv`) and of
  main (`MainStepIInv`) follow `TypeCorrect`, `LockNotLeaked` and `LateLineOnce`.
* `ReplaceInv` adds what is true while main has decided to replace an object: the object is broken, or no configured
  name matches any more. It is kept because nothing repairs a broken object (`BreakdownIsFinal`). With it,
  `WorkingStaysInPool` (`NoOrphan`) and `OnlyBrokenReplaced` (`ReplacedIsBroken`), both under `DistinctNames`: with a
  name configured twice main finds the object it has just created
  and replaces that, too. Nothing in the code checks the configuration for this.
* `WatchInv` says that every object that is not broken and has a reader has a heartbeat or will create it.
  `EveryConnectionWatched` follows if `pthread_create` does not fail (`~CreateMayFail`); otherwise it is false, as the
  result of `Start` is ignored.

`ARSTQueueNode_proofs`: `IInv` = `TypeOK`, `RemembersTheNewest` (what is remembered is a suffix of what was sent),
`RemembersEnough` (it is all of it or at least `Window` keys) and `NoRecentRepeat`. The lemmas `ErasedKeepsWindow` and
`ForgottenIsOld` are the arithmetic of trimming in chunks. Then `QueueNoRecentRepeat`, `QueueDroppedWasSent`, and
`QueueImplementsDedup`: by `LastKeysAreRemembered` the keys in `QueueLocal` are those at the last places of what was sent, so
that a line published is a `Send` (`PublishIsSend`) and a line dropped a `Repeat` (`DropIsRepeat`), which by
`ErasedKeepsWindow` leaves enough.

`ARSTQueue_proofs`: `IInv` = `TypeOK`, `WriterInv`, `MessageInv`, `LineInv`, `TextInv` and `OrderInv`.

* `WriterInv`: two senders that write into one buffer at once are both overlapped, and a sender that is not has its own
  line in every cell it has copied. That is what makes its message whole in msgsnd (`AloneIsWhole`).
* `MessageInv`: a message is as long as its line, and whole unless its sender was overlapped. The length matters to the queue's
  reader, which cuts a message at its first zero byte: `PieceOfWhole` shows that this neither breaks a whole line nor makes
  one of a message that was not.
* `LineInv` and `TextInv` follow the cells: in what a sender has cleared or copied, and in the text it hands to the kernel, there is
  nothing but zeroes, its own line, and lines that were sent while another sender was in the same buffer (`shared`). So no stranger's
  message carries a piece of a line that nobody wrote over.
* `OrderInv`: while such a line is on its way, neither a queue nor its reader has a piece of it, and what they have of its sender is
  older. Hence the message that brings it is the only one and comes after those (`EnqueueKeepsOrderInv`), which is `QueueKeepsOrder`.
* `QueueImplementsLineQueue`: `SendData`, `Msgsnd`, `Enqueue`, `MsgsndFails`, `GetMessage` and `Ipcrm` are the steps of
  `ARSTLineQueue`; `memset`, `memcpy` and the end of the process are stutters.

`ARSTPevents_proofs`: `IInv` = `TypeOK`, `MutexInv`, `WaitInv` and `RefInv`.

* `MutexInv` says who holds which mutex, and that an event stays set while its `SetEvent` looks for a wait. `WaitInv` has the key
  fact of the module: only the wait in progress has `StillWaiting`, so a setter that finds it set has found the caller's own wait.
* `RefInv` is `RefCountExact` and what keeps it: a wait is registered once at most with an event, and not yet with an event
  that its caller has still to come to. The count is the number of registrations, and one for the wait in progress, less one for each
  setter that has dropped the reference of a registration and not yet removed it. `ReferencesExact` and `NothingLeaks` follow; that a count
  does not fall below zero is an injection of the signalling setters into the registered events, as each of them holds the mutex of its
  own event.
* The lemmas about `Kept` (`RankOrders` to what is left of a deque) say that it is a sequence without repetition, of the waits that
  are kept. `RegisterWaitRegisters` says which registrations a wait gains and which the expired ones lose when it comes to an event.
* `PeventsImplementsWaitAny`: `LockEvent` is the abstract `Set`; a wait begins with `BeginWait`; an event is taken when the caller finds it
  set while it registers, or when a setter fires the wait; `FinishWait` returns it. All other steps are stutters.

`ARSTHeartbeat_proofs` extends this: every step of the heartbeat keeps `IInv`, so its events keep their promise in the
program's own use of them (`HeartbeatImplementsWaitAny`). On top of it `HeartbeatInv` has

* `ReplyInv`: only event 0 is set and so reported (`IndexIsExpected`): the branches of `Run` that terminate are not taken;
* `SignalInv`: what a setter has fired and has still to signal is kept in memory by the wait itself or by its registration with
  event 1, which no event drops before the next wait comes there, and that one must first get the mutex of event 0
  which the setter holds. This
  is `FreedWaitUnused`, and the reason why it needs setters of one event;
* `GraceInv`: the idle time is at most the interval and an increment for each request since the last reply. The arithmetic lemma
  `WaitsOfGrace` turns that into `LostWasAsked`: nothing is found lost that has not been asked once for every wait of the grace.

`ARSTClients_proofs`, for any number of queue readers:

* `ClientsInv` = `TypeOK`, `VectorInv` (every live object is in the vector once or about to be pushed; what main erases is offline),
  `OwnerInv` (a descriptor belongs to the object it stands for, but for the one main has just closed, which accept() may have given
  out again) and `Walked(d)` of every reader: each client of the present walk that it has come past was served, is offline, or is
  being sent to. `erase` moves the clients behind an erased one, and `WithoutProperties` says where to.
* From it follow `DescriptorsHaveOneOwner`, `DescriptorsAreClosed`, `MainClosesItsOwn` and `NobodyIsMissed`.
* `SeenInv` adds that those a reader has sent to are still behind its place in the vector and not offline. That is
  true if nobody else marks clients offline, hence the hypothesis `OneReader` of `LinesGoToTheirClient`,
  `LinesStayWhole` and `LinesGoOnce`. The
  hypothesis cannot be dropped: with two readers TLC finds each of the three properties violated.

`ARSTMain_proofs`: `InstanceInv` says that the thread between the second test and the unlock holds the lock, and that whoever is
past it leaves an instance behind; so only one thread ever finds none. `StartUpInv` adds that nobody is accepted
before main has configured what its `GetInstance` returned. From both follows `RegistryIsOne` (`OneRegistry`).
`ServerRunsClients` shows that each step of the process is one of `ARSTClients` or leaves its variables alone, so that its theorems
carry over (`ServerKeepsClients`, and `ServerKeepsLines` for one reader). `MainTypeCorrect` adds the types of its own variables.

`ARSTSetTickNumber_proofs`: `SegmentInv` says that a tool that stores has a segment under its key, which no other service has; so
`ServiceFindsItsNumber`, however many scripts run at once. `DaysHaveTheirBlocks` is a second inductive invariant, `BlockInv`: what a
service was given is the number of this host and of one of the days so far, the argument of every script that runs included
(`NextKeepsBlockInv`). That the block tells the day is the arithmetic of the numbers: month and day take
the lower digits of a number without overlap (`DateCodesDiffer`), and the bases of hosts with different numbers are farther apart
than any two days (`BasesAreApart`). It holds for every calendar of distinct days, and so includes the table that `tick` samples.

Only model-checked: what is temporal under fairness (`ServiceRestored`, `FiredWaitReturns`, `SetEventReturns`, `SilenceIsNoticed`,
`GoneIsReaped`, `SendReturns`), as liveness is out of the prover's reach, and the refutations of the runs that expect a violation. Every
invariant, action property and refinement of the passing runs has its theorem.

## 5. What a reader should not conclude

* `NoUseOfFreedWait` is checked for setters of one event, which is how the program uses a running heartbeat. With a
  second event set at the same time the wait can be freed before `SetEvent` signals it; no running heartbeat is
  terminated in the program.
* `ServiceRestored` leaves out the server named BITMEXFUND: the pool skips it, although its reader parks under the comment "wait for
  ARSTServers restart". It also says nothing of a connection that is open and silent (`LostIsActedOn`).
* `WholeIfAlone` says nothing of senders that overlap in one buffer: their lines can be mixed, cut, or sent in each
  other's place, and the model reaches that; so the text of an overlapped line can be received twice, or not at all.
  `InOrder` excludes these lines,
  not the others they are mixed with, and is about one queue: `GetDAO` chooses a queue for each line, and
  lines of one connection that go through different queues can overtake each other.
* `SentToItsOwn`, `WholeLines` and `NoLineTwice` hold with one queue reader. A second one can be in `SendAll` while
  the first marks the client
  offline and main destroys it, and its descriptor is then that of another client.
* `NobodyElseMissed` excludes the client next to one that is erased while the reader is past it: that one misses a line.
* `WholeLines` is about what is sent on a connection, not about what was in the message: a mixed line is sent whole, too.
* `GoneIsReaped` allows for a client that has been accepted and not yet pushed: main's walk ends at an end that moves.
* `NoRecentRepeat` and `ImplementsDedup` are about keys, and only as many of them as are remembered: an older one is
  sent again. Two trades with the same price, volume and time run together have one key,
  whatever their instruments.
* `BlockOfOneDay` says nothing of hosts with one number: `server-debug` and `tm0-hq` make the same blocks, and so do
  all hosts the script does
  not know, which under a `/bin/sh` that does not set `HOSTNAME` are all.
* `OneRegistry` rests on the compiler not moving the store of `instance` before the constructor's calls; the double-checked
  test is a data race by the letter of C++11.
* The statements about `ARSTClients` are about behaviours without undefined behaviour, which the code does reach.

## 6. Not modelled

* Several queue readers sharing `QueueLocal`, `hash_string` and the position of `strtok`: a string and a vector are
  changed by two threads without a lock, which is undefined from the first overlap on.
* A line of 1024 bytes without a newline: `strlen` then runs past the reader's buffer. Lines of the models end within it.
* The `catch` of the reader thread (`ARSTWebConn.cpp:78-83`): an allocation that fails when it begins ends it, before
  or after its heartbeat was started.
* Leaked sockets, threads and objects of replaced connections; only identities are used again.
* `ReconnectSocket`, `GetServerByName`, `IsServiceRunning`, `Join`, `Detach`, `Remove`, manual-reset events, `WaitForEvent`,
  `ResetEvent`, the second `Recv` and `Disconnect`: never called.
* Destruction of the singletons: they live as long as the process.
* `ARSTQueueDAOManager` itself: it is not in the repository. Its uses are modelled (`daosUp`, any choice of a DAO).
* Logging and message formats: output, and layouts that no code of the server fills.
* In the tick-number tool, numbers typed by hand, of which a text that is no number is stored up to its first other character.

## 7. Plan

An abstract pool (a set of services, each served or being replaced), with `ARSTWebConns` as its implementation and the proof of that.
