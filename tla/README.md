# TRI Chatbot OS: a TLA+ model

TRI is a chatbot whose state is managed like an operating system's. A C++
*kernel server* (`src/TRI Chatbot/kernel/`) keeps processes, paged memory and
semaphores; a Python *bridge* (`kernel_bridge.py`) calls it over one TCP socket,
or simulates it when it is not running; a Flask server (`run.py`) and a ReAct
agent (`agent.py`) use the bridge for every chat turn; a web page (`index.html`)
keeps the list of chat sessions. All paths below are relative to
`src/TRI Chatbot/`.

This directory models the kernel (page table, memory calls and page faults,
semaphores with their deadlock detector, process table), the connection between
bridge and kernel, the bridge's simulated memory, accounts with their processes,
chat turns with the agent's loop, and the saved chats of browser and server.

## The system

| Part | State | Operations | What must hold |
|---|---|---|---|
| Page table, `kernel/page_table.h` | `table_`, `ring_`, `lru_list_`/`lru_pos_`, `fifo_q_`, `clock_hand_`, `policy_` | `insert`, `access`, `page_out`, `page_in`, `set_policy` | structures agree; RAM is bounded; the right page goes out; nothing is dropped without being reported |
| VectorDB, `kernel/vector_db.h` | `pages_`, the embedder's vocabulary | `store`, `search`, `retrieve`, `remove` | a page sent once can be brought back |
| Memory calls, `kernel/kernel_server.cpp` | none of their own; one thread per connection | `mem_alloc`, `mem_read`, `mem_free`, `mem_search`, `set_policy`, page faults | copies in RAM and on disk agree; no fault leaves its process blocked |
| Semaphores, `kernel/semaphore.h` | value, holder, wait queue; assignment and request edges | `create`, `wait`, `signal` | mutual exclusion, queue order, no lost grant |
| Deadlock detector, `kernel/semaphore.h` | reads the edges | `check_deadlock`, and every wait that blocks | reports exactly the deadlocks |
| Process table, `kernel/pcb.h`, and tick, `kernel/scheduler.h` | `table_`, `next_pid_`; state, priority, `aging_ticks` | `proc_fork`, `proc_run`, `proc_wait`, `proc_ready`, `proc_exit`; `age_ready_processes` every quantum | aging ends starvation in the ready queue |
| Connection loop, JSON protocol, shutdown | `g_running`, the detached threads | `handle_client`, `parse_json`, `sig_handler` | one answer per call; shutdown ends |
| Bridge, `kernel_bridge.py` | `_sock`, `_connected`, `_lock`, `_pid_registry`, the simulated kernel | one function per system call, `get_or_create_pid`, `kernel_manage_context` | answers match calls; users of one kernel differ in their pids; the simulation keeps pages |
| Web server, `run.py` | `users.json`, the session files, `_histories`, `_paste_store` | register, login, logout, chat, stream, sessions, clear | no user or chat is lost; a deleted chat stays deleted |
| Agent, `agent.py` | the history it is given, the memory collection | `manage_context`, `run_react_loop`, `save_exchange` | the window advances; every turn is recorded and ends |
| Web client, `index.html` | `chatSessions`, `saveDirty`, `saveTimer` | send, delete, delayed and final save, switching users | its saves do not undo the server's state; users' chats stay apart |

How they interact. `dispatch` runs on the thread of its connection. The page
table, the VectorDB, the process table and the semaphore manager are global
objects, each with a mutex held for one call; a system call that uses two of
them is a sequence of atomic steps between which other threads run. The
scheduler's three background threads age the READY processes and print. The
bridge serialises its calls under one lock, so one web server is one connection;
several connections exist when the command-line agent runs beside the web server,
or while the handler of a connection the bridge gave up after a time-out is still
at work. Flask serves each request on a thread of its own: sessions, users,
histories, pids and the simulated memory are read, changed and written back
without a common lock. Nothing is persisted by the kernel: a restart empties it.

Hard behaviours: the policies share one table but each keeps a list of its own;
a call is atomic per object and not as a whole; a time-out leaves an answer under
way; a process outlives its login; a file is truncated before it is written; a
browser posts old lists late. `PROJECT.json` lists these hazards by line.

## Modules

| Module | Models | Notes |
|---|---|---|
| `Lists` | erasing from a vector or list | one operator |
| `PageTable` | `kernel/page_table.h` | one action per public operation: all hold `mtx_` throughout |
| `PageCache` | what the table promises | abstract specification: a bounded map that drops and reports at most one page per insert |
| `KernelMemory` | `dispatch` for `mem_*` and `set_policy`, `handle_page_fault`, the VectorDB | composes `PageTable`; a thread's `pc` walks through its call, one mutex-protected step at a time |
| `SemaphoreManager` | `kernel/semaphore.h` without detection | `Spec`: any caller; `FairSpec`: callers that follow the rules |
| `DeadlockDetector` | `_check_deadlock_nolock`, `_dfs` | extends `SemaphoreManager`; the search is a state machine, so that its steps can be checked and proved about |
| `ProcessTable` | `kernel/pcb.h`, the `proc_*` calls, the tick | |
| `KernelSync` | `dispatch` for `sem_*` | composes the manager and the process table; `sem_wait` is two steps; `told` is what the answers said |
| `Bridge` | `_connect`, `_syscall_raw`, `is_kernel_online`, the fall-back; `handle_client` at the other end | threads, the lock, the time limit, what each socket carries, connects that fail, a kernel that is slow, stops and starts and may take a long request for several |
| `PageStore` | what a paged memory promises | abstract specification: only the alloc under way writes, its own content to its own page, and has written when it returns |
| `SimMemory` | the simulated `mem_alloc`, `mem_read`, `mem_free` of `kernel_bridge.py` | one step per dictionary operation, no lock, `KeyError` as an ending of a call |
| `Accounts` | register, login, logout, `users.json`, `get_or_create_pid`, `proc_exit` | composes `ProcessTable`; forks that are simulated, fail or read a stray answer; restarts of kernel and of web server |
| `ReactLoop` | `run_react_loop`, its retries and parsing outcomes | model and tools are left open |
| `ChatTurns` | `/chat`, `/stream`, `/clear`, `kernel_manage_context`, `manage_context`, `save_exchange` | composes `ReactLoop`; lists have names, as Python shares them by reference; a system call may be lost or served late |
| `Sessions` | `/sessions` and its files, the client's list, timer, saves, deletions, sign-in and sign-out | tabs of one browser share the cookie; any number of requests, each of which may be lost, refused or fail; restarts of the web server |
| `ListLemmas`, `...Proofs` | lemmas and theorems | see Proofs |
| `MC...` | values of the constants for TLC | |

Correspondence. Variables have the names of the fields without the leading or
trailing underscore, or a comment with the field. In `PageTable`, `recency`
stands for the order that `last_access` induces; `frame_id`, `next_frame_` and
`dirty` are written and never read, so they are left out; an entry that is not
valid has no readable field, so all of them are `NoEntry`. The CLOCK loop is given
by the step at which it stops (`ClockStops`) and the pages it passes and clears.
In `KernelMemory` and `SimMemory` a similarity search may answer any page on the
disk or none, which covers every embedding. In `DeadlockDetector` the variables are
the locals of `_check_deadlock_nolock` and of the activations of `_dfs`: `path` is the
stack of activations, `left` the neighbours each has not come to, in the ascending
order of `std::set`. A call of the manager can come only between two searches,
for a search holds `mtx_`. In `Bridge` a request or an
answer is the call it belongs to, so that an answer given to another call can be
seen; a request longer than the 8191 bytes of the server's `recv` is a sequence of
such pieces, of which one `recv` takes any number. A socket nobody refers to is
closed and its name used again. In `Accounts` a user is a name, a login has the
right password, and the pids of the simulation overlap those of the kernel after
two forks instead of a thousand. In `ChatTurns` a message is
its turn and its role; a window cut off a longer history is the list `Copy`. In
`Sessions` a chat is a number and a file either a set of chats or `Broken`,
which is no JSON; a request is a POST or a DELETE: *sent*, *ready* (it has the list
to write), *open* (truncated). In `ReactLoop` a call of the model ends as a final
answer, a tool call or a text to be corrected.

Variables marked *history* in their declaration (`raced`, `soiled`, `disturbed`,
`orphaned`, `mingled`, `born`, `fate`, `strayed`, `echoed`, `source`, ...) record the
causes that properties name and influence no step. `told` of `KernelSync` decides
no step either, but which steps are fair. Operators whose comment begins with
*Mutant* are plausible slips of the code, one per checked property: put in the
place of the definition they vary, each makes its property fail.

## Runs

| Run | Configuration | Shows |
|---|---|---|
| `table_all_policies` | `MCPageTable`, `PageTable_all.cfg` | structures consistent under every sequence of operations and switches; RAM is exceeded only through a stale FIFO entry or a negative page id; CLOCK gives a second chance |
| `table_one_policy` | `MCPageTable`, `PageTable_fixed.cfg` | LRU, CLOCK and LFU, never switched: RAM bounded, LRU drops the oldest, the table implements `PageCache` |
| `memory_calls` | `MCKernelMemory`, `KernelMemory_two.cfg` | two clients: coherent copies unless calls on one page overlapped, no process left WAITING |
| `semaphore_calls` | `MCDeadlockDetector`, `Semaphore_any.cfg` | arbitrary callers: edges, queues and holders agree, order is kept, the detector, step by step, is exact |
| `processes_and_semaphores` | `MCKernelSync`, `KernelSync_fair.cfg` | well-behaved callers: mutual exclusion, deadlocks last, nobody waits for ever but for a deadlock or for a process that was never told of its grant |
| `aging` | `MCProcessTable`, `ProcessTable_aging.cfg` | aging brings a READY process to the front |
| `bridge_calls` | `MCBridge`, `Bridge_calls.cfg` | two threads, connects that fail, a long request, a kernel that may be slow, stop and start: every call returns; a stray answer or a simulated call has a cause |
| `simulated_memory` | `MCSimMemory`, `SimMemory_two.cfg` | the simulation implements `PageStore` while calls do not overlap; overlapping ones may overfill RAM and lose a page only by an exception |
| `accounts` | `MCAccounts`, `Accounts_two.cfg` | users stay registered, pids of one kernel or one simulation are distinct, stray answers apart, no process is left behind without a cause |
| `chat_turns` | `MCChatTurns`, `ChatTurns_two.cfg` | questions and answers stay paired, an answered exchange is in the history unless the window was cut, the process is not left WAITING without a cause, every turn ends |
| `web_sessions` | `MCSessions`, `Sessions_two.cfg` | users' chats stay apart, deleted chats deleted, the file is what the tab shows from a save that was served on, each but for the named causes |
| `sessions_form` | `MCSessions`, `Sessions_form.cfg` | **fails**: a user who comes by the form takes over the list of the user before |

### Where code and documentation disagree

`sessions_form`: `bootApp` replaces the tab's list only when the user who signed in
has saved chats (`index.html:4184`), and the form that the switch dialog links to
(`index.html:3453`) neither signs out nor empties the list. A user registered
through it sees the chats of the user before and saves them as theirs, although
`OS_PROJECT_DESCRIPTION.md:339` promises "Per-user chat history isolation".

Four more claims of the repository are contradicted by what the exceptions
below name. They have no run of their own: a property of a passing run already
states how far each holds, if one does.

| Claim | What the code does | Property |
|---|---|---|
| "RAM Capacity: Configurable frame count (default: 10 frames)", `OS_PROJECT_DESCRIPTION.md:91`, also `:428`; `:103` for FIFO | RAM outgrows its frames through a stale FIFO entry or a negative page id | `OverflowHasCause` |
| "Automatic state transition on acquisition", `:151`; "waking the next waiting process if any", `kernel_bridge.py:865` | `sem_signal` hands the unit over and changes no state; the process stays WAITING and is not told | `WaitingEnds` names it as a cause, `BlockedIsParked` says how a process gets there |
| "Manages secondary storage (disk) for evicted pages", `:210`; "Automatic secondary storage (VectorDB)", `:415`; "Dirty-bit Write-Back", `kernel/kernel_server.cpp:329` | an eviction writes nothing back, `dirty` is never read, and a fault takes the page off the disk: the next eviction destroys it | none holds; `CopiesCoherent` is about the copies that are there |
| "Per-user chat history isolation", `:339` | beside the form above, a tab's late save is written under the user whom another tab has signed in since | `IsolatedUnlessCarried`, by `strayed` |

### What the exceptions in the properties stand for

Many properties have the form "unless", because the code really behaves so:

* *RAM is exceeded* (`OverflowHasCause`): `page_out` leaves its page in `fifo_q_`, and
  the FIFO eviction that pops the stale entry frees nothing (`kernel/page_table.h:148`);
  an eviction that finds a negative id takes it off the policy's list and then
  ignores it (`:183`). The bridge sends such ids for every chat shorter than the
  window (`kernel_bridge.py:683`).
* *A page is lost* (`kernel/kernel_server.cpp:96`): a fault takes the page off the disk
  and an eviction writes nothing back, so the next eviction of the page destroys
  its only copy.
* *A backup is removed* (`CopiesCoherent`, `kernel/kernel_server.cpp:161`): `mem_alloc`
  stores, then inserts; a fault in between takes the new content off the disk.
* *The grant does not wake* (`WaitingEnds`, `kernel/kernel_server.cpp:226`): the process
  that is handed a semaphore stays WAITING, and no call tells it of its grant. It
  need not ever signal, so whoever waits for it may wait for ever.
* *Stray answers* (`StrayHasCause`): an answer that comes after its time-out stays
  on its socket; a thread that already waits for the lock sends on the same socket
  and reads it. A request longer than the buffer of `recv`
  (`kernel/kernel_server.cpp:267`; `/kernel/mem/search` bounds no query, `run.py:668`) is
  answered once for each piece.
* *Simulated calls* (`SimulatedHasCause`): any failure of `_connect`, against a running
  kernel too, declares it offline to every thread (`kernel_bridge.py:247`).
* *The simulation* (`OverfullHasCause`, `LostOnlyByException`): two calls that pass the
  capacity test together overfill RAM for good; a `KeyError` drops the page that
  the call had already popped.
* *Accounts* (`AccountsKept`, `ProcessesOwned`): two registrations that overlap, or a
  stop between truncating and writing `users.json`, lose users; a logout that
  overlaps a chat or a login of the user, or a fork whose answer is not read, leaves
  a process that nothing exits.
* *Pids* (`PidsDistinct`): the registry keeps a pid of the simulation, or of a kernel
  before, and uses it with the kernel that runs (`kernel_bridge.py:374`, `:722`); it
  also takes the pid of any answer it reads, a stray one included.
* *The history stands still* (`RecordedUnlessCut`): once it is longer than the window,
  `manage_context` returns a copy (`agent.py:677`, `kernel_bridge.py:709`), and the
  exchange is appended to that.
* *The process stays WAITING* (`WaitingHasCause`) after a turn that failed, was
  abandoned, streamed an empty answer or lost its last `proc_run`, whose result
  nobody looks at (`run.py:419`, `:565`); and after a `proc_wait` that timed out and is
  served late.
* *Strayed lists* (`strayed`): a reload during the loading screen, or a late timer
  in it, posts the list as it is, empty or another user's, under the user the
  cookie names by then (`index.html:4794`).
* *Echoed chats* (`echoed`): a DELETE neither cancels nor waits for a save under way,
  and two DELETEs overlap, as each reads the file and writes it back later; a
  DELETE that is lost, refused or fails is never repeated.
* *The file is not what is shown* (`SavedIsShown`, `source`): a write that fails is
  answered "saved" (`run.py:379`), a POST that is lost or refused is not repeated
  (`index.html:3866`), a restart of the server invalidates the cookie (`run.py:17`),
  and requests for one file overlap. From each of these on nothing is claimed
  until a save is served that meets none of them. A load that fails gives an
  empty list (`index.html:3891`), which the next save writes over the file: that
  the file keeps every chat ever saved is not a property of this code.

### Bounds

* Page table: four pages (three and a negative one with all policies) and 3
  frames: fewer frames than pages, a victim to choose among several, and a page
  to come back. `MaxFreq` 2 distinguishes LFU counts; `MaxQueue` 4 leaves room
  for stale FIFO entries beside the resident pages. Page -1 is both an id that
  cannot be evicted and the answer for "no page"; the run of one policy uses ids
  that are not negative, because `PageCache` and the order LRU promises do not
  hold with negative ones.
* `memory_calls`: two threads are enough for every pairwise overlap of steps; one
  frame makes each insert of the other page an eviction; two contents and the
  empty one distinguish stale from current.
* `semaphore_calls`: three processes and two semaphores give cycles of two
  processes with a third that leads to the cycle, shares it or stays outside;
  initial values 0, 1 and 2, values and queues up to 2 make repeated waits,
  signals by strangers and counting semaphores happen. 1,826,352 states.
* `processes_and_semaphores`: three processes, two semaphores created with 1;
  queues can hold all the processes. `MaxTicks` 0 switches aging off there.
  81,108 states.
* `aging`: three processes with priorities 0 and 1; `aging_ticks` stops at
  `MaxTicks` = 5 times the largest priority, beyond which the effective priority
  no longer depends on it.
* `bridge_calls`: two threads with two calls each (`MaxCalls`), so that a call can
  follow one given up; one request of two pieces (`Pieces`), which another follows;
  one stop and start (`MaxStops`); three sockets, for the current one and one each
  that a thread still holds. 516,895 states.
* `simulated_memory`: two threads, one frame (`RamCap`), pages -1 and 0, two
  contents; every second page makes an eviction. 268,864 states.
* `accounts`: two users, two request threads, two pids (a third fork is cut off),
  two simulated ones of which one is also a kernel's, one restart (`MaxRestarts`), of
  the kernel or of the web server. The constraint `FewFaults` lets restarts and
  simulated forks be two together, or one pid be from a stray answer, and at most
  one process be left behind; it does not look beyond registrations that mingled,
  of which `AccountsKept` claims nothing. 1,599,834 states.
* `chat_turns`: three turns (`MaxTurns`), two at one time, over a window of one
  exchange (`MaxActive` 2), so that the third turn can find the history longer
  than the window; two steps and two attempts, so that both counters are used up
  and not; one `/clear` (`MaxClears`). Every system call may be lost. 418,846 states.
* `web_sessions`: two users, two tabs, two requests under way at a time, so that two
  of one tab can overlap; three chats (`MaxChats`), the third only where two were
  deleted, and two deletions (`MaxDeletes`), which may overlap, the second while one
  of the tabs is out (`FewChats`). The constraint `Unmixed` does not look beyond a
  list that strayed or was carried over: of such states only `SavedIsShown` claims
  something, and its theorem, which has no bounds, covers them. 934,793 states. `sessions_form` needs no deletion.

Symmetric constants (threads, contents, semaphores, users, tabs, requests) are
declared so only in runs without liveness properties. `bridge_calls` and
`chat_turns` are run without a deadlock check, because the bounded calls and turns
run out there.

### Fairness

* `Park` (weak): the server's thread finishes the call it is serving.
* `SemSignal` (strong), but only of a process that knows all that it holds (`Aware`):
  one whose `sem_wait` was answered with `acquired` and that is again and again able
  to call releases in the end what it holds. This is an assumption about clients,
  not a property of the kernel; without it no semaphore has a liveness property. Of
  a process that was handed a semaphore nothing is assumed, since no answer tells
  it so and it stays WAITING.
* `Tick` (weak): the scheduler's tick thread loops until the kernel stops.
* `Bridge`, `ThreadStep` (weak, per thread): `recv` has a time limit, so a thread in
  a call always has a step to take. Nothing is assumed of the kernel: it may never
  answer, and may stay down.
* `ChatTurns`, `TurnStep` (weak, per turn): the client of the language model has a
  time limit. What the model answers is left open, a tool call each time included.

## Proofs

The theorems hold for every value of the constants that the named assumptions
of the modules admit.

* *Lists* (`ListLemmas`): what appending, pushing, erasing, reversing, and taking a
  tail or a front do to a list without repetitions.
* *Page table* (`MemoryProofs`). The inductive invariant `Inv` is the conjunction
  of `TypeOK`, `RingIsResident`, `RecencyIsResident` and `ListsCoverRing`: the
  eviction takes its victim from the policy's list, so that the ring loses it
  needs the lists to cover the pages that can go, and that they keep covering
  them needs the victim to be the one page that leaves both. `VictimFound` says
  that a full ring whose ids are not negative has a victim in it, but for a stale
  FIFO entry; `RingGrowth` derives how the ring's length changes. From these
  follow `TableConsistent`, `TableTypes`, `OverflowExplained` and, for ids that are
  not negative and no FIFO, `FramesRespected`. `ClockSparesReferenced` follows the
  scan: it passes what it clears before it comes back to a page. For
  `LruTakesOldest` the list of LRU is the order of last use backwards (`LruMirrors`),
  as long as the policy is LRU from the start.
* *The table is a cache* (`ImplementsCache`, `FixedImplementsCache`: the refinement of
  `PageCache`). Each operation is a step of the abstract map or leaves it alone;
  that an insert drops one page at most, and reports it, is `Inv` and `RamBounded`.
  FIFO and negative ids are excluded because the claim is false with them.
* *Memory calls* (`MemoryProofs`). `MemInv` adds what a thread holds at each place of
  its call (`CallTypes`). Each step of a call is a step of the table or leaves it alone
  (`CallsUseTable`), so what holds of the table holds in the server (`TableUnderCalls`,
  `CacheUnderCalls`). For `CopiesStayCoherent` the invariant `CopyInv` speaks also of the
  contents that faults and allocations have in their hands (`CurrentAt`): they are
  the last one sent, of pages nobody raced for. `FaultsEndWaiting` needs no more than
  the types.
* *Semaphores* (`SemaphoreProofs`). For any caller the invariant adds to the types
  and `SemConsistent` that a semaphore never created has no queue and no edges; it
  gives `ManagerConsistent`, `ManagerTypes` and `GrantsInOrder`. For callers that follow
  the rules, `QueuesAreRequests` and the finiteness of the holders make `UnitsConserved`
  inductive (`MutualExclusion`): a handover replaces one holder by another only
  because the first in the queue is not a holder already.
* *Deadlocks* (`SemaphoreProofs`). A set of processes each of which requests a
  semaphore held within the set never gets out (`ClosedSetsLast`), for any initial
  values: nobody else can acquire, and its members cannot signal. A cycle of the
  graph gives such a set only when each semaphore has one holder, which is why
  `DeadlocksLast` assumes semaphores created with 1, the default of `sem_create`
  (`kernel_bridge.py:824`).
* *The detector* (`DetectorIsExact`). While a search runs, `recStack` is the set of the
  nodes on `path`, `path` is a walk of the graph (`StackIsPath`, `PathTried`), nodes
  that were left wait for such nodes only and no set of them is deadlocked
  (`LeftIsClean`), and every node with an edge was visited or is still to be a root
  (`RootsRemain`). A deadlock that the search missed would be a set of nodes all
  left, against `LeftIsClean`. A deadlock is defined without a search, as a set whose
  members each wait for a member.
* *Processes* (`SemaphoreProofs`): `ProcessTypes`, and `AgingHelps`, the safety half of
  `AgingReachesFront`: the effective priority of a READY process never gets worse, and
  five ticks for each unit of its priority bring it to the front.
* *The server's semaphore calls* (`SemaphoreProofs`). `CallsFollowRules`: the two-step
  `sem_wait`, whatever comes between, is seen from the manager a well-behaved
  caller, so `UnitsConservedInServer` and `DeadlocksLastInServer` follow;
  `BlockedAreParked` adds that only a forked process can be about to park.
* *Bridge* (`BridgeProofs`). `Inv` says where the one outstanding call of a socket can
  be: a socket on which nothing was given up and no request was split is quiet, or
  carries just the call, in all its pieces or received as one, of the thread that
  holds the lock and that sent it there (`Expected`). With `ListensWhereSent`, the
  answer a thread reads is its own (`StrayAnswersExplained`). A thread about to take
  the verdict "not connected" is `disturbed` already (`VerdictDisturbed`), whatever
  made `_connected` FALSE between its two tests (`SimulationExplained`). `CallsGetOn` is the safety half of
  `CallsReturn`: a measure, at most 13, that every step of a call lowers and no other
  step raises.
* *Simulated memory* (`SimMemoryProofs`). `Shape` says what a call holds at each
  place; a step moves a thread and keeps the others' shapes. A page that leaves
  one dictionary is in a thread's hands or in the other dictionary (`NothingLost`).
  While at most one call is open (`Solo`), the abstract store follows from where the
  page is (`Agree`, `StoreOf`). Each step leaves the store alone but the one in which
  an alloc assigns its content (`SoloWrite`), and an alloc returns only with its
  content in the store (`SoloReturn`): `ImplementsStore`, the refinement of `PageStore`.
  A fault or an eviction that changed what a page holds would be no step of it.
* *Accounts* (`AccountsProofs`). `PidInv` relates registry, requests, kernel
  generations and the simulation's counter: a pid that is not from a stray answer
  was given out by its table before the table's next pid (`Given`), so that a new
  entry differs from all of its own table (`EntryKeeps`, `PidsStayDistinct`). `FileInv`
  relates what an open registration loaded to the file (`UsersStay`). The third part
  says, for each place of a request, who still answers for its process
  (`OwnersAgree`).
* *Chat turns* (`ChatTurnsProofs`). `HistoryInv` follows an answered exchange from the
  memory into the list of its turn; `Paired` says that a list is whole exchanges
  but for the question of the one turn that is between its two appends
  (`ExchangesStayPaired`). `WaitingExplained` needs of lost and late calls only that
  the turn that ends, or the late call, leaves its mark. `TurnsGetOn` is the safety half of `TurnsEnd`: every step of
  a turn lowers a measure (its place, the loop's steps left, whether it asks the
  model, the attempts left) that no other step raises.
* *Saved chats* (`SessionsProofs`). `OwnInv` extends isolation to the lists of the
  requests under way, and to a DELETE's id, which is what makes it inductive
  (`ListsStayOwn`). `GoneInv` extends "deleted" to those lists too, and lets a file
  hold a deleted chat only while its DELETE is not yet served; that serving it
  cleans the right file needs `OwnInv` (`DeletedStayDeleted`). For `SavedAsShown` the
  history `source` names the tab whose list a file holds, or the one request that
  will make it so. `Settled` says that no other request for the file is then under
  way, or that the one under way is that request; `Follows`, that the tab has a save
  pending or shows what the file holds or the request will write (`Outcome`).
  `SentShown` and `ServerShown` are the steps of a tab and of the server.

Only model-checked: the four liveness properties `WaitingEnds`,
`AgingReachesFront`, `CallsReturn` and `TurnsEnd`, for the prover has no rules for
fairness or for when a step is enabled; `AgingHelps`, `CallsGetOn` and `TurnsGetOn`
prove the safety half of the last three.
Every other property of the passing runs is stated by a theorem.

## Not modelled

* `kernel/syscall.h`: a second dispatcher that nothing includes.
* `fs_read`, `fs_write`: one file operation each, without state in the kernel.
* The signal handler and the shutdown's joins: undefined in C++ in a handler, and
  nothing is decided after them.
* Embeddings, the language model, the tools: external, or numeric code whose outcome is left open.
* The arithmetic of page ids in `kernel_manage_context`; negative ids occur as such.
* Fields of a request and their escaping, counters, timestamps and logs of the PCB,
  status pages, `print_pid_registry`, and all printing.
* Uploads and the paste store: one entry per token, written once and taken once.
* Rendering, layout, titles and messages of a chat in the web client; the command
  line of `agent.py`.

## Plan

1. Done: the kernel (`PageTable`, `KernelMemory`, `SemaphoreManager`, `DeadlockDetector`,
   `ProcessTable`, `KernelSync`), the bridge (`Bridge`, `SimMemory`), the web server
   and agent (`Accounts`, `ReactLoop`, `ChatTurns`), the saved chats (`Sessions`), and
   the proofs above.
2. Next: what `WaitingEnds` needs beside fairness, that a process in a queue moves
   only towards its front and that, outside a `Stuck` set, some holder knows what it
   holds and waits for nothing; the theorems of `ProcessTable` for the registry of
   `Accounts`; pages of the simulation that are asked of the kernel and back.
3. Later: the paste store, the joins at shutdown.
