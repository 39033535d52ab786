# Verification of the concurrent and stateful components

The repository is a collection of about forty C++ projects. Most of them are
exercises of the language, its library or third-party code. What carries
logic of its own, and logic that tests hardly reach, are the hand-written
synchronisation primitives, queues and thread pools under `DataStructures/`
and `Multithreding/`, the event bus whose handlers call back into it, and the
matching engine of `FinTechMarketProjects/`. This directory holds TLA+ models
of them, TLC configurations that check the models on small instances, and
proofs of the central properties for instances of any size.

    tlc -workers 2 -config Locks.cfg MCLocks.tla     # check a model
    tlapm LockProofs.tla                             # check a proof

## 1. Inventory

`PROJECT.json` lists every component with its sources. Those modelled, with
the state they keep and what makes them correct:

| Component | State | Operations | What is hard | What makes it correct |
|---|---|---|---|---|
| `MPMC_Queue` (`DataStructures/MPMCQueue`) | two ticket counters, a sequence number and raw storage per cell | `try_push`, `emplace`, `try_pop` | a position or a sequence number is old by the time of the compare-exchange; cells are claimed long before they are published | one thread per cell, no value lost, duplicated or overwritten, FIFO, progress of the retry loops |
| `BoundedQueue` (`DataStructures/ThreadSafe_BoundedQueue`) | deque, `stopped`, one mutex, two condition variables | `push`, `emplace`, `pop`, `stop` | notification after the unlock, threads that get in between, `stop()` at any moment | no lost wake-up, nothing accepted after `stop()`, what was accepted is popped |
| `SplitLockQueue` (same file) | ring, atomic `size`, a mutex per end | the same | the predicate tested under one mutex is changed under the other | the ends stay apart in the ring, FIFO, no lost wake-up (does **not** hold) |
| three `Semaphore`s (`DataStructures/Semaphore`) | a count, with a mutex and a condition variable, with `std::atomic::wait`, or both | `acquire`, `release` | overtaken waiters, a fast path beside a locked slow path | permits conserved and not exceeded (the third drops some of those added and lets in at most one thread too many), no waiter forgotten |
| `Barrier` (`DataStructures/Barrier`) | count, generation, mutex, condition variable | `arrive_and_wait`, `wait` | immediate reuse; callback and notification after the unlock | nobody leaves early, one callback per round, all rounds complete |
| six SPSC rings (`Multithreding/RingBuffers`) | two positions, a private copy of each, slots | `push`, `emplace`, `pop`, `size` | decisions on old copies, full against empty at the wrap | slots do not race, FIFO, everything arrives |
| spin locks, `FairSpinLock`, `OnByteMutex`, `FutexMutex` (`Multithreding/SpinLock`, `Multithreding/Futex`) | one or two atomics | `lock`, `unlock` | unlock in two writes, sleepers that miss their wake-up, wrapping tickets | mutual exclusion, no increment lost, no sleeper forgotten, turns kept |
| event bus (`DataStructures/Published_Subscriber/SubscriberDifferentTopicsDeferRemove.cpp`) | subscribers per topic, the depth of nested publishes | `subscribe`, `publish`, `Subscription::reset` | handlers subscribe, unsubscribe and publish while `publish` walks the vector they change | the walk stays valid, those present at its start are called unless unsubscribed before their turn, nothing stays behind |
| matching engine (`FinTechMarketProjects/MatchingEngine`) | orders, a map by id, price levels of two sides, trades | new, cancel and amend orders | three indexes kept by hand; one order fills several; exact fills and quantities of nothing; an amendment that trades | indexes agree, the book is not crossed, time priority, no quantity lost |
| five thread pools and an executor (`DataStructures/ThreadPool*`, `Multithreding/ThreadPoolBlocking`, `DataStructures/TaskExecutor/TaskExecutor1.cpp`) | a queue of tasks, a stop flag, a mutex, one condition variable | submit, the worker loops, the destructor | a flag raised while workers fall asleep, workers and submitters on one condition variable, tasks left when the pool ends | capacity kept, no task forgotten, each task once and in turn, none after the destructor, the destructor ends |
| free list (`DataStructures/FreeList_ThreadSafe`) | a stack of blocks whose links lie in the blocks | `allocate`, `deallocate`, `refill` | a link read in a block that changes hands before the compare-exchange | a block is in the list or with one client (does **not** hold) |

The components do not call each other. Each interacts with the threads of its
own tests, through shared memory, mutexes, condition variables, futexes and
atomic waits, or, the event bus, with handlers that it calls and that call it;
these clients are part of the models. What the queues have
in common is a promise to their callers, stated once in `BoundedFifo`; the
semaphores share `PermitPool`, the thread pools `TaskPool`, and `PubSub` is
the promise of the event bus.

### Not modelled

* The logger: one vector is tested and swapped under one mutex while the dumper
  reads and clears it under another. That is a data race on a container, whose
  outcomes nothing bounds, and the file promises nothing about lost records.
* The metrics controller: independent atomics that nothing in the code relates
  to one another.
* The shared-memory queues and channels: rings like those that are modelled,
  around system calls; a process that ends in the middle of a write is not
  handled by the code.
* The other order books, publishers and queues: earlier or partial forms of
  components that are modelled.
* Rate limiters, hit counters, caches, dispatchers, containers: sequential,
  each call says all there is.
* Copies of what is modelled, benchmarks, thin layers over system calls, users
  of third-party libraries, exercises of the language: by far most of the
  repository's lines, and nothing in them keeps state between calls that a
  property could be about.

The reasons stand component by component in `PROJECT.json`.

## 2. Modules

| Module | What it is |
|---|---|
| `BoundedFifo` | abstract: atomic puts and takes on a FIFO of bounded size |
| `PermitPool` | abstract: no more threads inside than there are permits; the first two semaphores implement it |
| `TaskPool` | abstract: tasks start once, in order, at most so many at a time, and never when the pool is closed |
| `PubSub` | abstract: each publish calls the subscribers of its start that are still subscribed at their turn |
| `MPMCQueue` | `MPMC_Queue` with the threads of `test_mpmc_stress` |
| `QueueClients` | the threads of `test_stress` and a thread that may call `stop()`; extended by `BoundedQueue` and `SplitLockQueue` |
| `MCBlockingQueues` | the two blocking queues under one specification |
| `SemaphoreClients` | the threads of `max_simultaneous_task` and a main thread that adds permits; extended by `Semaphore` (mutex), `SemaphoreAtomic`, `SemaphoreFast` |
| `BarrierThreads`, `Barrier` | the threads of `test_reuse` and observers that call `wait()`; the barrier |
| `MCSynchronizers` | the three semaphores and the barrier under one specification |
| `SpscClients` | one producer, one consumer and an observer of `size()`; the accesses all rings share |
| `SpscIndexRing` | positions that wrap: `impl_1`, `impl_2` (no copies) and `impl_3`, `impl_3_size` (copies) |
| `SpscCursorRing` | positions that only grow: `impl_4`, `impl_5`, `impl_6` |
| `MCSpscRings` | the rings under one specification |
| `LockClients` | threads that increment a plain counter under a lock; extended by `SpinLock`, `TicketLock`, `ByteMutex`, `FutexMutex` |
| `MCLocks` | the locks under one specification |
| `EventBus` | the event bus, called by the main program and by the handlers it calls |
| `MatchingEngine` | `OrderMatchingEngine` and a caller that hands it any order; its specification is `EngineSpec`, so that one module can extend it and `EventBus` |
| `MCMatchingEngine` | the same for TLC, with the symmetry of the ids |
| `FreeList` | the thread-safe free list with the workers of `test_multithreaded` |
| `ThreadPool` | five thread pools and the executor of `TaskExecutor1.cpp`, their submitters and the main thread that destroys them |
| `Filtering` | what erasing leaves of a vector or a list; used by `EventBus`, `PubSub` and `MatchingEngine` |
| `RingArithmetic` | lemmas about `%` on rings and about functions that are sequences, cited by the proofs |
| `MPMCQueueProofs` | the theorems about `MPMCQueue` |
| `BlockingQueueProofs` | those about the two queues of `MCBlockingQueues` |
| `SynchronizerProofs` | those about the semaphores and the barrier of `MCSynchronizers` |
| `SpscRingProofs` | those about all rings of `MCSpscRings` |
| `LockProofs` | those about all locks, one by one and in `MCLocks` |
| `SequentialProofs` | those about `EventBus` and `MatchingEngine`, the components one thread calls, and the induction over sequences and finite sets they need |
| `ThreadPoolProofs` | those about `ThreadPool` |

Where there are several implementations of one interface, they are checked
in one run: a variable `kind`, chosen at the start and never changed, says
which implementation the behaviour is of. So the same properties are asked of
all of them, and each is asked only about itself.

### How the models follow the code

*Grain.* In the lock-free structures an action is one access to shared memory
(a load, a store, a compare-exchange) together with the thread-local code up
to the next one. In the blocking structures an action is a critical section,
because no other thread that takes the mutex can see its inside; going to
sleep releases the mutex in the same action, as `condition_variable::wait`
does. Where something is *not* under the mutex (a notification after the
unlock, `SplitLockQueue`'s other end, the fast path of the third semaphore,
the barrier's callback) it has an action of its own.

The event bus is single-threaded: an action is a call, or the part of
`publish` between two calls of handlers, and the stack of publishes under way
is a variable. The matching engine's actions are whole orders: its loops are
written as what they compute, level by level, since nothing can come between.

*Program counters.* `pc[t]` names the access the thread makes next; the
comment beside it lists the values. The other per-thread variables are the
code's locals (`pos`, `gen`, `loaded`, ...). Histories (`seen`, `got`,
`produced`, `callbacks`) record what the tests count.

*Memory order.* Actions interleave, i.e. every access is sequentially
consistent. For the lock-free structures this loses nothing that matters to
the properties: each cell or slot is written, then published by a release
store which the other side acquires before it touches the storage, and the
exclusion properties (`CellExclusive`, `SlotsApart`) say that the plain
accesses never meet, so that there is no data race. A relaxed or acquire load
that returns an old value is a load followed by a delay, which the models
have, because all positions are monotone or are re-validated by a
compare-exchange. `FutexMutex` and `OnByteMutex` have one atomic each.

*Failing and waiting.* `compare_exchange_weak` may fail for no reason.
Condition variables, futexes and the mutex semaphore's waits may wake for no
reason; `notify_one` picks any sleeper. A failed attempt of a spin lock
changes nothing and is therefore a stuttering step; the pauses between two
attempts are left out.

*Data.* Messages are pairs `<<producer, n>>`; the tests encode the same pair in
an integer. Element constructors that throw are left out, as in the tests.

Orders have an id, a side, a price and a quantity; the list nodes of the
matching engine are numbered in the order of insertion, and an iterator is
such a number. Of the trades, the last order's are kept. Filled orders stay in
the engine's list for ever, in the model too.

*Numbers.* Tickets of `MPMC_Queue` and cursors of the cursor rings are natural
numbers: they wrap after 2^64 and 2^63 operations. Ring indices wrap at the
capacity, as in the code, and the ticket lock's numbers wrap at `TicketRange`,
since there the wrap is a case of its own. `size()` of `impl_6` is an unsigned
difference, modulo `SizeRange`.

## 3. Properties and runs

The comment before each definition says which code it is about. A run marked
(!) is expected to fail: it states what the code, a comment or a test says of
the program, and the counterexample shows that the code does otherwise.

| Run | Instance | Distinct states | What it shows |
|---|---|---|---|
| `mpmc` | 2 producers x 2 messages, 2 consumers, 2 cells | 68,466 | `CellExclusive`: a claimed cell is its thread's own. `LiveObjectsOnly`: no pop of raw storage, no push over a live object. `IInv`: the inductive invariant of the proofs. `ImplementsFifo`: the queue refines `BoundedFifo`, the compare-exchanges being the linearisation points. `AllConsumed`: the retry loops get everything through |
| `blocking_queues` | 2 x 2 messages, 2 consumers, 2 places, `stop()` at any time | 493,211 | for `BoundedQueue` `NoThreadForgotten` (sleepers against threads on their way), `StopUnblocks`, `AllPopped`; for `SplitLockQueue` `SlotsApart`; for both `ImplementsFifo` |
| `split_lock_lost` (!) | 1 + 1 threads, 1 place | 820 | a notification falls between the other side's test and its sleep; both threads sleep beside a queued message (`AllPoppedUnlessStopped`). The same gap is open to `stop()` |
| `synchronizers` | semaphores: 3 threads x 2 rounds, 1 permit, 1 more added; barrier: 3 participants, 3 rounds, 1 observer | 82,856 | `PermitsAccounted` (`PermitsConserved` of the first two semaphores, `PermitsBounded` of the third), `NoWaiterForgotten`, `ImplementsPermits` (first two semaphores); `NoEarlyRelease`, `OneCallbackPerRound`, `WaitReturns` (barrier); `AllJoined` |
| `semaphore_fast_overtaken` (!) | 3 threads, 1 permit | 866 | the slow path's "Guaranteed > 0" does not hold: a fast acquire takes the permit between test and subtraction, and two threads are inside on one permit |
| `spsc_rings` | 9 messages, 4 slots, observer of `size()` | 86,887 | `SlotsApart`, `ReceivedInOrder`, `ImplementsFifo`, `AllReceived` for each kind of ring |
| `spsc_size` (!) | 2 messages, 2 slots | 280 | `size()`, commented "Race-safe", is overtaken between its two loads and returns a number near the largest of its type |
| `locks` | 3 threads x 2 rounds, 4 tickets | 14,433 | `MutualExclusion`, `NoSleeperForgotten`, `InTurn`, `AllJoined` for each lock |
| `event_bus` | 4 subscriptions to 2 topics, publishes 3 deep | 196,669 | `ReferencesValid`: no publish loses the vector it walks. `NothingLeftBehind`: the deferred removal happens, all of it, and removes nobody else. `ImplementsPubSub`: whom each publish calls |
| `matching_engine` | 3 ids, 2 prices, 3 quantities, 4 orders that come to rest | 972,699 (up to symmetry) | `IndexesAgree`, `NotCrossed`, `FilledInTurn`, `TradesAllItCan` |
| `thread_pools` | 3 workers, 2 submitters x 2 tasks, capacity 1 | 124,120 | `QueueBounded`, `NoTaskForgotten`, `Drained`, `ImplementsTaskPool`, `Ends` for the five pools and the executor |
| `free_list_shared` (!) | 2 workers, 2 chunks of 2 blocks | 5,908 | `BlocksApart`: a worker's compare-exchange succeeds on a block that another has meanwhile taken, written to and given back, and the bytes written become the head of the list |

The state counts of the failing runs are those at which TLC stops.

### Why the bounds are enough to be interesting

* *Threads.* Two threads on a side are needed for two to compete for one cell
  or one notification, three for a lock or semaphore so that one sleeps while
  two others compete, three participants for a barrier so that a fast one can
  be a round ahead of a slow one while the last arrives.
* *Messages.* Two laps over the cells (`mpmc`) make a cell be used again while
  an old claim on it is still around; nine messages over four slots are more
  than two laps, with every distance between the positions.
* *Capacity.* The blocking queues have two places for four messages and two
  threads on each side, so that both threads of a side can be asleep together
  while the ring of `SplitLockQueue` wraps.
* *Subscriptions.* With four, a topic can have entries before, at and after
  the one a publish is at, and one more that a handler adds; three publishes
  have an outermost, an inner one of the same topic and one of another.
* *Orders.* Three orders can rest when the fourth comes, so that it fills one,
  splits the next and leaves a third, within a level or over two. Quantities 0,
  1 and 3 give exact fills, remainders and, by partial fills, 2. Ids are
  used again, also while they rest.
* *Tasks.* Four tasks for three workers and a capacity of one: submitters wait,
  workers sleep beside busy ones, and tasks are left when the flag is raised.
* *Tickets.* Six tickets are drawn out of four numbers, so `next` and
  `serving` wrap while threads wait.
* *Rounds.* Three barrier rounds have a first, a reused and a last generation.
* The bounds `Messages`, `Rounds` and `Extra` limit what the clients do, never
  what the structure may do. The theorems below hold for all values.

### Deadlock

The end of a test is a state in which its threads are joined. `MPMCQueue`,
`MCSynchronizers`, `MCSpscRings`, `MCLocks` and `ThreadPool` allow a stuttering
step only there, so TLC's deadlock check finds everything else.
The blocking queues really may stop with a thread asleep (consumers of an empty
queue), and the event bus and the matching engine stop when the bounded program
has nothing more to ask; their configurations say `CHECK_DEADLOCK FALSE`.
Forgotten sleepers are excluded by invariants and liveness properties instead.

### Fairness

* Weak fairness on each thread's step: the scheduler runs every thread. No
  fairness on spurious wake-ups, on calls to `stop()` or on an observer's
  decision to call.
* `MPMCQueue`: strong fairness on a successful compare-exchange, i.e. a weak
  compare-exchange does not fail spuriously for ever.
* `SplitLockQueue` and the third semaphore, where mutex acquisition is an
  action of its own or the fast path's exchange can be refused again and again:
  strong fairness on getting a mutex (or winning an exchange) that is free
  again and again. `std::mutex` does not promise it to the letter; a
  scheduler that never lets a thread have a mutex others keep releasing would
  be needed to break it. In `split_lock_lost` the counterexample is under
  this fairness, so it is not the scheduler's doing.
* `ThreadPool`: strong fairness on the timeouts of timed waits, since
  `wait_for` computes its deadline once and a wake-up without a task does not
  put it off. `ThreadPoolOne` and the executor wait without timeouts and get
  none.
* The locks need weak fairness only: each thread asks a bounded number of
  times, so its rivals finish.

## 4. What is proved

`tlapm` checks about 13,000 proof obligations. Every safety property of the
passing runs is a theorem, invariants, action properties and refinements of the
abstract specifications, for every number of threads, messages, slots, tasks,
topics, orders and rounds that the modules' named assumptions admit.

| Theorem of | states, of the runs' properties | for |
|---|---|---|
| `MPMCQueueProofs` | `IInv`, `CellExclusive`, `LiveObjectsOnly`, `ImplementsFifo` | any producers, consumers, messages, `Capacity >= 2` |
| `BlockingQueueProofs` | `TypeOK`, `NoThreadForgotten`, `StopUnblocks`, `SlotsApart`, `ImplementsFifo` | any finite sets of producers and consumers, any capacity, `stop()` at any time |
| `SynchronizerProofs` | `TypeOK`, `PermitsAccounted`, `NoWaiterForgotten`, `NoEarlyRelease`, `OneCallbackPerRound`, `ImplementsPermits` | any finite sets of threads, any permits, rounds and laps |
| `SpscRingProofs` | `SlotsApart`, `ReceivedInOrder`, `ImplementsFifo` | each kind of ring, two slots or more, any number of messages |
| `LockProofs` | `MutualExclusion`, `NoSleeperForgotten`, `InTurn` | each lock, any threads and rounds; as many tickets as threads or more |
| `SequentialProofs` | `ReferencesValid`, `NothingLeftBehind`, `ImplementsPubSub` | any topics, subscriptions and depth of publishes |
| `SequentialProofs` | `IndexesAgree`, `NotCrossed`, `FilledInTurn`, `TradesAllItCan` | any ids, prices and quantities that are natural numbers, any number of orders |
| `ThreadPoolProofs` | `QueueBounded`, `NoTaskForgotten`, `Drained`, `ImplementsTaskPool` | each pool, any finite sets of workers and submitters, any tasks and capacity |

### The inductive invariants

**MPMC queue.** Exclusion is not inductive: that two threads are not in a cell
depends on what its sequence number admits. `IInv` says it ticket by ticket.
The `Capacity` tickets from `deqPos` on name each cell once. Those below
`enqPos` are queued: the cell is full for that ticket or a producer is filling
it. The others are free: the cell waits for that ticket or a consumer is
emptying it. `Claims` adds that what a thread has read of a cell still holds if
its position is not stale, which is what the compare-exchange tests. That a
cell has one ticket in the window is the arithmetic of `RingArithmetic`: two
numbers in the same cell are a lap apart. With one cell the numbers of "full on
this lap" and "free on the next" coincide, which is why `Capacity >= 2` is
assumed (lemma `OneTurn`). For the refinement it is added that a producer about
to publish has its message in the cell (`Constructed`); then the value that a
ticket stands for is the same before, during and after `Write` and `Publish`
(`ValueKept`), so only the two compare-exchanges change the abstract queue.

**Blocking queues.** In `BoundedQueue` sleepers and threads on their way are
counted (`ConsumersRemembered`, `ProducersRemembered`), and every action is
shown to keep the balance by what it adds to each count; `StopNotifies` says
which sleepers `stop()` has not woken up yet. `SplitLockQueue` has two mutexes:
`MutexesHeld` ties each to the thread between lock and unlock, `SizesTested`
says that what a thread found of the size is still true although the other
side changes it (each side can only make more room for the other), and
`Contents` that the ring from `head` to `tail` holds messages, those included
that are written and not counted yet, or read and not discounted yet. The
refinement map counts a message from `CountPush` and until it is read.

**Semaphores and barrier.** Permits are accounted for by counting threads per
label (`Number`); one lemma says how a count changes when one thread moves, one
when a notification moves another along. In the fast semaphore `OneSubtracts`
says that the mutex lets one thread at a time between the test of the count and
the `fetch_sub`, so the fast path can take what was tested but no more:
the count never falls below -1, which is the sharp bound. `DropsCovered`
says that the releases about to be dropped, because their threads have read a
full count, are covered by the permits there are above the threshold: when the
count was read it was full, and every thread in `release` held a permit beside
it. With `NoneAdded` this is `PermitsBounded` for any number of threads. The
barrier's `BarrierInv` relates each participant's calls to the generation
(`InStep`: at most one round behind) and counts the arrivals of the open round
(`ArrivalsCounted`); from the two follows that a round that completes has
everybody's arrival, and that whoever completes it is alone in doing so.

**SPSC rings.** One proof for all kinds: a position is `Pos(kind, n)` for the
number `n` of pushes or pops made, itself or modulo the slots, and `Room` is
what the ring holds, one slot less for the rings with indices. A copy is the
position of an earlier count (`RoomLeft`, `Waiting`): what a side concludes
from it errs on the safe side and stays true until it moves its own. The slots
between the positions hold the messages in order (`Contents`), which makes the
abstract queue the messages between two counts (`Between`).

**Locks.** For the first three the invariant ties the word to the thread
inside; in `FutexMutex` a thread between the two writes of `unlock` still
counts as owner, since the 1 it leaves admits nobody. The ticket lock is proved
with numbers that wrap: the waiting tickets are the consecutive numbers, modulo
the range, of the queue of threads in the order in which they drew; since no
more threads can wait than there are numbers, only the first in the queue finds
its own served. That no sleeper is forgotten needs that a word other than
"unlocked" has an owner (`ByteOwned`, `FutexOwned`): it is the one who will see
the mark of the sleepers.

**Event bus.** While a publish is under way the vectors change only at their
ends and in their flags (`Extends`), so what is said of a publish
(`FrameOK`) stays true; the rest is that the subscriptions that have not been
reset are exactly the active entries. `Filtering!Keep` is a recursive function;
what it computes is proved by induction (lemmas `Induction`, `SeqInduction`),
stated for sets, since no prover here takes the library's induction theorems,
which are about operators: a least counterexample would have a smaller one
before it. For the refinement one more invariant is needed, `IdsApart`: no id
belongs to two topics, or resetting one subscription would take another out of
`PubSub`. Then a walk's pending calls are the ids of the active entries of a
range (`IdsOfRange`), deactivating removes one id from every range
(`DeactivatedGone`, `RangeKept`), and erasing is unseen (`CleaningUnseen`).

**Matching engine.** `EngineInv` says of the id map that each block leads to
its order and to a level that holds it (`BlockRight`), of the levels that each
holds nodes in the order of their insertion which lead back (`LevelRight`,
`AtHome`), and that no two levels cross (`Uncrossed`). `IndexesAgree` alone is
not inductive: that a level's first `k` nodes are distinct, and the earlier
ones, follows from `Rising`. Each handler has a lemma that says what it makes
of the members (`RestingKeeps`, `CancelKeeps`, `MatchedKeeps`,
`OnlyQuantities`). How much an order trades is a matter of sums over sets of
nodes. The library defines them by a recursive function over subsets that
takes an element by `CHOOSE`; that it has a solution and only one
(`SumExists`, `SumUnique`) and that the order does not matter (`TotalTakes`)
is proved by induction on the size, and from it what sums of unions and of
parts are (`TotalUnion`, `TotalSum`, `TotalGrows`). Then `TradedWithin` looks
at the last level of the walk, `TradedWhole` at the first that is not used up:
either all orders within the limit are filled, or the whole quantity is traded.
The first case is why what is left may rest without crossing the book
(`UncrossedRests`), both together are `TradesAllItCan` (`QuantityLost` turns
the trades into what the other side loses). An amendment of the price cancels
at the order's own side, so the levels it then meets are untouched
(`CancelOwnSide`).

**Thread pools.** `Core` says of every label what it means for the thread's
task and the flag, that a task is in one place (`OnePlace`: queue, worker or
done, never two), and that none is lost before the destructor returns
(`Accounted`). Queue bound and drained queue follow; `NoTaskForgotten` counts
the threads on the way to a task (`OnTheWay`) against the queue.

### Assumptions

The proofs use the named assumptions of the modules and no others: sets of
threads are finite where they are counted, the main thread is none of the
workers, `None` and `Nobody` are no number, task or thread, bounds are natural
numbers. `Capacity >= 2` is an assumption of the theorems of `MPMCQueue` that
need it, and of the rings (`CapacityAssumption`): those with cursors assert
it, and a ring of one slot with indices holds nothing.

### Only model-checked

* Liveness (`AllConsumed`, `AllPopped`, `AllReceived`, `AllJoined`,
  `WaitReturns`, `Ends`): outside what the provers can do, as is `ENABLED`.
* That the bounds of the configurations are reached, and that each mutant
  breaks its property.
* What runs marked (!) refute.

## 5. Findings

1. `FreeList::allocate` can make a link that is no longer one the head of the
   list, so that its next call follows arbitrary bytes (`free_list_shared`);
   with more blocks in play it hands out a block that is in use.
2. `SplitLockQueue` can put both sides to sleep for good (`split_lock_lost`).
3. The semaphore with a fast path lets in one thread too many
   (`semaphore_fast_overtaken`).
4. `size()` of `impl_6` can return a number near 2^64 (`spsc_size`).

Smaller observations made while reading, without a run:

* `test_wrap_around` of the rings expects a ring of four slots to refuse a
  fourth value; `runAllUnitTests` runs it on `impl_4`, which holds four.
* `full()` of `impl_3` is never true, since at most `Capacity - 1` values are
  held and it compares `size()` with `Capacity`.
* `test_wait_blocks` of the barrier is disabled in `TestAll`; `wait()` returns
  only when a later round completes.
* The threads of a barrier round may leave before that round's callback has
  run, because both come after the unlock (`OneCallbackPerRound` says what
  remains true).
* `MPMC_Queue<T, 1>` passes the `static_assert`, but a second push overwrites
  the first value; the copy in `Multithreding/Collections` asserts two cells.
* `refill` of the free list appends to its vector of chunks without any
  synchronisation.
* `try_pop` of `MPMC_Queue` can return false although pushes have completed,
  when an earlier producer has claimed its cell and stalls.
* The matching engine walks from the limit price to the better ones, so an
  incoming order trades at its own limit first and with the best offer last.
  `FilledInTurn` therefore speaks of time priority within a level only.
* An order used up exactly at the end of a resting one gets one more trade, of
  quantity nothing, with the next order of that level.
* What is left of a new order whose id is resting is dropped silently, after
  it has traded. Filled orders are never erased from the list of all orders,
  and an order amended to nothing rests until a walk meets it.
* The first variant in `MatchingEngine.cpp` keeps addresses of elements of a
  `flat_map`, which move when a lower price level is inserted.
* `Pool` ends only if its client calls `stopSource.request_stop()`; the
  `jthread` destructors request a stop that no worker looks at.
* In `ThreadPoolLimited` workers and submitters wait on one condition variable,
  and `notify_one` after a push may wake a submitter: the task then waits for a
  worker's timeout of two seconds (`NoTaskForgotten` leaves this pool out).
* `ThreadPoolOne`, `ThreadPoolTwo` and `ThreadPoolLimited` drop the tasks that
  are queued when they are destroyed; `TEST_ALL` of `ThreadPoolOne` and
  `TestAll` of `ThreadPoolLimited` do destroy them so. The executor may leave
  tasks behind, too: it tests the flag again after each.

## 6. Abstractions to keep in mind

* `Barrier`: as many participants as the threshold; a callback that throws is
  a TODO in the code and left out.
* `MPMC_Queue`'s destructor drains with `try_pop` after the threads are joined.
* The event bus: handlers return, and the bus outlives every `Subscription`.
* The thread pools: constructors start all threads, tasks do not throw, and
  submitters have returned when the pool is destroyed, as in the tests. The
  mutex is not a variable: what is done under it is one action.
* `ThreadPoolBlocking` and the executor have one worker, the former room for ten tasks, the model what
  the configuration says; `ThreadPoolLimited` has three and room for one.
* `FairSpinLock2` reads the front of an empty queue when its last client
  leaves; `Futex_2` and `Futex_3` do not exclude each other's threads, as the
  totals quoted at the end of `Futex.cpp` say. None of them is modelled.
* `MCSynchronizers!ImplementsPermits` asks nothing of the third semaphore, for
  which it does not hold; that one is held to `PermitsBounded`. Its `release`
  drops a permit when it has read a full count, which after Main has added one
  can be the release of a thread that acquired; so the sum of the counter and
  of the threads inside may fall, but not below the threshold. A permit taken
  twice leaves that sum as it is, with a count below zero: `PermitsBounded`
  limits the threads inside, too, to one more than were ever permitted. Its count stays at -1 or above:
  one slow acquire at a time subtracts without looking (`TypeOK`, proved).

## 7. Checks of the checks

For every property of every passing run `PROJECT.json` names a mutant: a
change of one definition such as a plausible slip would make (a lost
notification, a blind store for a compare-exchange, `NotifyOne` for
`NotifyAll`, an off-by-one at full or empty). The mutants stand in the modules
next to what they change, marked as such, and TLC finds each property violated
by its mutant under the run's own configuration.

## 8. Plan

The modules of the plan are written, and all safety properties of the passing
runs are proved. What is left:

1. The side of the findings that can be stated positively: with one consumer
   and one producer `SplitLockQueue` loses no element although it may lose a
   wake-up (`ImplementsFifo` says so already).
2. An abstract specification of the matching engine, a book as a set of
   orders with priorities, which the three indexes implement.
3. `Barrier`'s promise to several rounds as an abstract specification.
