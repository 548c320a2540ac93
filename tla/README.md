# Verification of P1_Server

P1_Server is a game server in C++17 on Windows: IOCP sockets, a job scheduler
with one queue for the game room and one for the database, protobuf packets,
MSSQL over ODBC. This directory holds TLA+ models of its core, the TLC runs that
check them on small instances, and TLAPS proofs for every value of the constants.

## Inventory

The server's own code is `src/Server` (without the generated `*.pb.*`) and
`src/ServerLibrary`.

| Component | State | Operations | Talks to | Hard part | Correct when |
|---|---|---|---|---|---|
| Job scheduler (`JobQueue`, `LockQueue`, `GlobalQueue`, `ThreadManager`, `Server.cpp`) | `_jobs`, `_jobCount`, two lists of queues, thread-local `LCurrentJobQueue` and `LEndTickCount` | `DoAsync`, `Push`, `Execute`, `DoGlobalQueueWork` | everything runs as a job | count and list are updated apart; ownership passes between threads | jobs of a queue run one at a time, in order, all of them |
| Job timer (`JobTimer`) | heap of `(tick, job)`, `_distributing` | `Reserve`, `Distribute` | pushes to queues, whose jobs reserve again | one distributor at a time, with a clock read before | each timer fires once, not early, in order, and in the end |
| Database jobs (`DBJobQueue`, `DBConnectionPool`) | the pool, the statement of each connection, table `users` | `HandleJoin`, `HandleLogin`, `HandleIncreaseExp` | called by handlers and `Room` | several statements per job, no constraint in the table, one connection, a `Fetch` whose failure nobody sees | as if each job were atomic; a job that could not read harms no other |
| Receive path (`RecvBuffer`, `Session::ProcessRecv`, `PacketSession::OnRecv`) | buffer with two cursors | `OnWrite`, `OnRead`, `Clean`, `OnRecv` | calls the packet handlers | packets cut anywhere, data moved | every packet once, whole, in order |
| Session (`Session`, `SendBuffer`) | `_sendBuffers`, `_sendRegistered`, `_isConnected`, events that own the session | `Send`, `ProcessSend`, `Disconnect`, `ProcessDisconnect` | `Service`, IOCP | completions on any thread, failures, disconnects | what is sent arrives in order; a closed session is released once |
| Service, Listener | set of sessions, accept events | `StartAccept`, `RegisterAccept`, `ProcessAccept`, `AddSession`, `ReleaseSession` | `Session` | failing accepts, sessions that live on while their slot is reused | every slot is posted again, with a session of its own |
| Packet handlers (`ServerPacketHandler`, `GameSession`) | `GameSession::player` | `Handle_C_*` | push jobs to `GRoom`, `GDBJobQueue` | look at the player on one thread, act on another later | no job corrupts the room |
| Room (`Room`, `ObjectUtils`, `Object`...) | `_objects`, `_players`, `_monsters`, hp, positions | enter, leave, move, attack, `UpdateMonster` | timers, sessions, database | queued jobs against a changed room; timers against entries | records and client views agree; a monster per slot; rewards once |
| GameData, Logger, `DBConnection`, `SocketUtils`, `SockAddress`, `BufferReader/Writer` | none that matters | I/O | | | |

`PROJECT.json` lists the components, the parts left out, and under `hazards`
what in this code is hard to test, line by line.

## Modules

* `SerialExecutor` is the promise of the scheduler: each queue is a FIFO whose
  jobs start in order and do not overlap.
* `JobQueue` is the scheduler itself. A step is one access to shared memory
  (`fetch_add`, `fetch_sub`, a critical section of `LockQueue`) with the local
  code after it; `pc`, `phase`, `push` and `exec` are the place and the frames of
  a thread in `DoWorkerJob`/`DoDBJob`, `Push` and `Execute`. The clock is known
  only as before, at or after `LEndTickCount`, which is all the code compares; it
  may advance at each read. A job may push any number of jobs to any queue.
* `DBJobQueue` has the three database jobs, a step per SQL statement, run by
  `SerialExecutor`. An `Execute` or a binding may fail, which ends the server
  (`ASSERT_CRASH`). A `Fetch` may fail too, but its three callers ignore what it
  returns: the job goes on with `exists` and `currentExp` at 0 or `outPassword` empty,
  and `misread` records that it did. The table is an external service, modelled as rows without a constraint. Of the
  ODBC statement a connection carries, `cursors` keeps whether the results of the
  last `SELECT` are still open: they are when the connection goes back to the pool,
  and it is for `Unbind` to close them before anything else is executed.
* `Accounts` is the promise of `DBJobQueue`: requests served in order, each in one
  step, on a list of accounts, the rows. A request either sees every account of its
  nickname or, when its `Fetch` failed, none; which of the two is not left open, since
  `misread` is mapped to the failures of the jobs done. The running job counts as
  waiting until it finishes.
* `JobTimer` is `Reserve` (the tick is computed, then the timer is inserted under the
  lock) and `Distribute` (the clock is read, `_distributing` exchanged, the due timers
  collected under the lock, pushed one by one, the flag lowered), on every logic
  thread. A thread inside a `Push` may be running jobs that call `Reserve`. The
  priority queue orders by tick and leaves ties open. `inserted` and `fired` record
  the two orders.
* `Timers` is what `Room` relies on: a timer fires once, not before its tick, and
  when its tick has come it does fire.
* `Listener` has the accept events, over all sessions: `StartAccept` by `main`, which
  starts the threads afterwards, `RegisterAccept` with its recursion when `AcceptEx`
  fails (each call keeps the session it created on the stack), `ProcessAccept` with
  both early returns, `AddSession` and `ReleaseSession` with the number of values of
  the 16-bit counter as a constant. A session is destroyed when no slot, no stack and not the service
  refers to it, and its address may then be used again: that is how a behaviour may
  be endless in finitely many states. `CreateSession` may fail, and the null pointer
  it returns is dereferenced: the server ends.
* `RecvBuffer` has the buffer, the posted receive, and the loop of `OnRecv`. A
  byte is its offset in the stream, so that a byte out of place shows. `memcpy`
  over an overlap leaves garbage.
* `Session` has the life of one session: `ProcessAccept`, `Send`, the registration
  and the completion of sends, receives and disconnects, and the session's place
  in `Service`. A step is one access to an atomic, one critical section or one call
  of Winsock. Any idle thread may be handed any completion; `outstanding` are the
  operations in progress and `owner` the events whose `_owner` keeps the session
  alive. Every `WSASend`, `WSARecv` and `DisconnectEx` may fail, with a reset or with
  another error, and an operation may complete with 0 bytes. `queued`, `wire` and
  `dropped` record what became of each buffer. Nobody but the accepting thread
  knows the session before its first packet (`published`): `OnConnected` is empty.
* `Room` has the room's jobs, one step each (the room is a job queue, so its jobs
  are serial: `SerialExecutor`), the handlers in two steps each (the test of
  `player->room`, then `DoAsync`), timers that may fire at any time, clients that
  may vanish at any time, and `view`, what each client shows after the packets it
  was sent. The client is not part of the repository: it is assumed to start a new
  scene at `S_ENTER_GAME` and to add, remove and update objects as the other
  packets say; `S_LEAVE_GAME` changes nothing it shows. It attacks with and at what it
  shows: `Handle_C_ATTACK` itself tests no id. No property and no proof rests on this
  restriction, which keeps the run small: without it all of them hold as well. Hp and damage are one constant per kind of creature.
* `MC*` instantiate these for TLC. `*_proofs` hold the theorems, and `SequenceLemmas`
  what they need to know of sequences without duplicates, which the queues are.

`RecvBuffer` and `Session` meet in `ProcessRecv`: `Session` shows that one thread at a
time is in it, which `RecvBuffer` takes for granted, and leaves the bytes to it.
`Listener` shows that each accept has a session of its own, where `Session` begins.
`JobQueue` implements `SerialExecutor`; `DBJobQueue` and `Room` build on it.
`DBJobQueue` implements `Accounts`. `JobTimer` implements `Timers`, of which `Room`
uses less: its timers fire at any time after they are started. A job of `Room` that
kills a monster submits an `exp` job of `DBJobQueue`.

An operator marked `Mutant` is a plausible bug of the definition after it. With it
in place of that definition TLC finds the property it is listed with violated;
nothing else uses it.

## Runs

| Run | Shows | Bounds |
|---|---|---|
| `scheduler` | `SerialExecution`, `OneOwner`, `CountAccurate`, `LogicStaysOnLogicThreads`, refinement of `SerialExecutor` | the 2+2 threads and 2 queues of `main`, 4 jobs |
| `scheduler_live` | every job runs | 2 logic threads, 1 DB thread, 2 jobs |
| `accounts` | a connection is at hand with no cursor open, a second row of a nickname only from a join whose `Fetch` failed, refinement of `Accounts` | 7 jobs on 2 nicknames in any order, 1 connection, any `Fetch` or `Execute` failing |
| `receive` | framing, space, no self-inflicted disconnect | 3 buffers of 5 bytes, header of 2, stream of 45 |
| `room` | records, slots, rewards, hp, client views | 2 clients, 2 nicknames, 2 monsters, 4 packets |
| `room_live` | killed monsters return | the same, 3 packets |
| `session` | one send, one receive and one release at a time, buffers once and in order, none stranded, events own the session; buffers are sent, closed sessions are released | the 4 threads of `main`, 3 buffers |
| `timer` | order of firing, refinement of `Timers` with its fairness | the 2 logic threads, 3 timers, delays 0 and 2, ticks 0 to 3 |
| `listener` | no slot lost, a session per accept, every client answered | the 2 logic threads and `main`, 2 slots, 2 clients that may come again and again, 1 `AcceptEx` in a row that fails, a counter of 1 bit |
| `leave_absent`, `ghost` | the findings below | 2 or 3 packets |
| `double_join` | the finding below | as `accounts` |

Why these are enough: four jobs let a queue be executing, be handed over and be
pushed to by two threads at once; ten times the buffer of the smallest admissible
buffer count makes `Clean` take all its branches many times; four packets let a
player leave twice with another entering under its nickname in between, and a
monster be attacked twice; with four threads one can complete a send, one
handle a receive and one a disconnect while another calls `Send`, and with three
buffers one is in a `WSASend`, one waits and one comes. Delays 0 and 2 make timers
due at once, in the order of their reservation and against it, and a thread may
distribute three ticks late. A client that is refused or released comes back while
both slots are busy, so that slots are short; two connections overflow the counter
of one bit. The theorems have no bounds.

Deadlock is checked for the scheduler and the timer. The other models stop when the bounded input is used
up, the clients are gone, or the server has crashed.

Fairness. `JobQueue!FairSpec`: every thread keeps running (the loops of
`Server.cpp` never end and every job returns), and a thread that again and again
finds a queue in `GGlobalQueue` does not each time arrive after its 64 ms have
passed; without the latter a thread whose network work always takes too long
never drains the list, which the code indeed allows. `Room!FairSpec`: jobs of the
room run (from `EveryJobRuns`) and timers fire (the worker loop calls
`DistributeReservedJobs`); clients need not do anything. `Session!FairSpec`: threads
go on, posted sends and disconnects complete, and a pending receive completes once
`DisconnectEx` has been posted, as Winsock does; a client that stops reading for good
without closing would break the second, and then its buffers wait. The lock of a
session is not fair, but the bounded number of buffers ends any contention.
`JobTimer!Spec`: time passes and every logic thread keeps turning, which a `Push`
cannot prevent since `Execute` stops at `LEndTickCount` and every job returns.
`Listener!FairSpec`: threads run, Winsock completes a pending `AcceptEx` when a client
waits, a completion is not overtaken for ever at the port (completions are handed
out in order, hence strong fairness of `Dispatch`), and `AcceptEx` does not fail more
than `MaxFailures` times in a row: were it to fail for good, `RegisterAccept` would
recurse until the stack is used up.

## Findings

* `leave_absent`: a leave job may find its player already gone (it asked twice, or
  was killed meanwhile). `RemoveObject` says of this "there is a problem";
  the room stays consistent (`IndexesAgree`), but the client is told twice.
* `ghost`: `OnDisconnected` does nothing, so a player whose client is gone stays
  in the room and its nickname stays refused until somebody kills it.
* `double_join`: when the `Fetch` after `SELECT COUNT(*)` fails, `exists` is still 0 and
  `HandleJoin` inserts a nickname that has a row already. The block is commented "check
  whether the ID exists already" and the call "check the result". That no other join
  makes a second row is `DuplicatesAreMisread`. For the same reason `HandleLogin` refuses
  a right password, and `HandleIncreaseExp` sets exp to the reward alone, when their
  `Fetch` fails: in `Accounts` these are the requests served as if there were no account.

## Proofs

Every safety property that a passing run checks is also a theorem, for every value of the
constants. Each `*_proofs` module has one invariant `IInv`, proved inductive
(`Inductive`), one step per action, and each property follows from it. The
invariants were first checked with TLC on the instances of the runs.

| Module | Theorems (the property, for any constants) | Assumes of the constants |
|---|---|---|
| `JobQueue_proofs` | `TypeOK`, `SerialExecution`, `OneOwner`, `CountAccurate`, `LogicStaysOnLogicThreads`, refinement of `SerialExecutor` | finitely many threads; two disjoint kinds of threads and queues |
| `RecvBuffer_proofs` | `TypeOK`, `Framing`, `NothingHeldBack`, `RoomToReceive`, `OnlyClientCloses` | three buffers or more; no packet longer than one, nor shorter than its header |
| `DBJobQueue_proofs` | `TypeOK`, `ConnectionReady`, `DuplicatesAreMisread`, refinement of `Accounts` | a finite pool with at least one connection (`Connect(1, ...)` in `main`); rewards are not negative |
| `JobTimer_proofs` | `TypeOK`, `DistributedInOrder`, the steps of `Timers` | delays are natural numbers (`Reserve` takes a `uint64`) |
| `Listener_proofs` | `TypeOK`, `NoSlotLost`, `OwnSession` | finitely many slots, threads and clients; more addresses than can be in use (below) |
| `Session_proofs` | `TypeOK`, `OneSend`, `SentOnceInOrder`, `SenderForWaiting`, `OneReceive`, `OwnedWhileOutstanding`, `ReleaseFinds` | nothing but that `None` is neither a thread nor a buffer |
| `Room_proofs` | `TypeOK`, `IndexesAgree`, `SlotsAccurate`, `RespawnPending`, `AliveHasHp`, `RewardPerKill`, `ClientsSeeTheRoom` | hp is at least 1 and damage not negative |

### JobQueue

The parts of the invariant:

* `Local`: what the place of a thread says about its frames;
* `OneRole`, `Exclusive`: the owner of a queue is the thread whose `fetch_add`
  returned 0 and that has not passed it on, or its executor, or an entry of
  `GGlobalQueue`; there is at most one;
* `Locked`: a queue has an owner exactly when its count is not 0;
* `Count`: the count is the jobs in the list, the batch not yet subtracted, and
  the pushes between `fetch_add` and the list.

Mutual exclusion alone is not inductive: at `fetch_add` it takes `Count` and
`Locked` to know that a count of 0 means no owner, and at `fetch_sub` that giving
up the queue leaves no job behind. `LogicStaysOnLogicThreads` needs a second
invariant, `Typed`: lists and frames carry the type of their queue, and a DB thread
pushes only from inside a DB job.

The refinement maps a queue of `SerialExecutor` to the rest of the batch of its
executor followed by `_jobs`, and its running job to the one that the executor is in.
It needs `RInv`, which adds to `IInv` that a job about to be listed is listed nowhere
yet (`Fresh`) and that `Execute` has run its whole batch when it calls `PopAll` again,
leaves, or hands the queue over (`Drained`). Then a step of the list appends, the
start of a job takes the head, and every other step, the passing on of the queue
between threads included, leaves the mapped queue as it is.

### RecvBuffer

The bytes between the cursors are the stretch of the stream that ends at what has
arrived (`Contiguous`), `OnRecv` stands where the delivered packets end
(`AtBoundary`), and less than a packet is left when a receive is posted with
a full buffer of space (`Posted`). So when `Clean` moves data, less than one
buffer is moved over at least one, and `memcpy` does not overlap: this is where
three buffers are needed.

### DBJobQueue

`Handler` ties a step to the kind of its job, and `Pool` says that the connections are
in the pool, each once, but for the one the running job holds, whose cursor is
closed whenever a statement is about to be executed. `Unread` says that a `Fetch` can
have failed only for a job that is done or is the running one past its `SELECT`, so
that a mark of `misread` is never inherited by a job that has yet to read. `Reads` says
that what the running job has read is still so, unless its own `Fetch` failed: the
nickname it is about to insert is free, and `currentExp` is the exp of a row of its
nickname; after a failure it is 0. `DuplicatesAreMisread` is not inductive without
`Reads`, and `Reads` holds because jobs do not overlap. For `Accounts`, the abstract step
is the one that finishes the job; the others stutter, the failing `Fetch` included,
which counts when its job is done.

### JobTimer

`_distributing` is a lock (`Lock`), a timer is in one place between `Reserve` and its
`Push` (`Places`, `OnePlace`), what is in a batch was due at the clock that was read
(`Reserved`), and a timer in a batch or fired has every timer that precedes it before
it (`BatchInOrder`): the order of what has fired is not inductive without that of the
batch. `ImplementsTimersSteps` is the safety part of the refinement of `Timers`; the
rest of `Timers!Spec` is fairness.

### Listener

`Hands` and `Located` say that an event has one holder, and where this is; `Own` that
the session an event offers, or has just connected, is its own and not yet in the
service; `Peers` that no two sessions have one client; `Counted` that the counter is
the number of sessions, modulo its values. `CreateSession` returns a session nothing
refers to, and the proof has to show that there is one: the assumption that there are
more addresses than slots, clients and frames of `RegisterAccept` together stands for
a heap that is not exhausted, and `Peers` and the bound on the recursion (`Located`)
show that no more of them are ever in use.

### Session

Three rights are passed on and never copied: `_sendRegistered` is a lock on
`_sendEvent` (`SendLock`, `SendEvent`), the right to touch `_recvBuffer` belongs to the
posted receive or to the thread that handles it (`Receiving`), and the right to close
to whoever moves `_isConnected` to false, which happens once (`Closing`, `Serving`).
`Unborn`, `Unpublished` and `Adding` say what cannot have happened before the session
is known; `Owned` extends `OwnedWhileOutstanding` to the threads about to post;
`Fresh` that a buffer comes in once. `SentOnceInOrder` counts the buffers of an event
between `RegisterSend` and `WSASend` with those that follow: that nothing overtakes them
there is the lock.

### Room

What an object is never changes (`Bodies`), a job has the arguments its method needs
(`Queued`), and a session's player is a player (`Known`). A monster on its way into the
room is in one place only (`OnTheWay`), and a slot is taken by the one living monster
of its number (`Slots`): a death frees a slot nobody else has, which neither
`SlotsAccurate` nor `RewardPerKill` says by itself. `AliveHasHp` holds of all objects,
also those not in the room, as a hit that would bring hp to 0 removes the object and
leaves its hp alone. `ClientsSeeTheRoom` needs `IndexesAgree`: who is told of a change
is read from `_players`, and who is in the room from `_objects`.

### Only model-checked

Liveness: `EveryJobRuns`, `MonstersReturn`, `ClosedIsReleased`, `QueuedIsSent`,
`EveryClientAnswered`, and the fairness in `ImplementsTimers`; fairness speaks of
`ENABLED`, which is out of the prover's reach. The findings are counterexamples and
stay with TLC too. The models have no recursive definitions, and no proof needed
induction over data.

## Not modelled, and the plan

Not modelled: the wrappers of Winsock, the buffers bound to an ODBC statement and
its diagnostics, reading game data, the log, `BufferReader` and
`BufferWriter` (unused), `JobTimer::Clear` and `JobQueue::ClearJobs` (never called),
the end of the threads (they never end), generated and vendored code. Clients that
send malformed packets are left out of `RecvBuffer`. The server keeps nothing over a
restart (`main` drops the table), so there is no recovery to model.

`_maxSessionCount` is the number of accept slots and not a limit: the model has more
sessions than slots, as the code does.

Next: action properties with the invariants at hand, such as that a job of `Room`
never changes what an object is and that a session's disconnect is final; that
`ImplementsTimersSteps` gives `Room` the timers it assumes; and shorter proofs where a
lemma can serve several actions.
