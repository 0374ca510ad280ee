---------------------------- MODULE KernelMemory ----------------------------
(***************************************************************************)
(* The memory system calls of the kernel server (kernel_server.cpp         *)
(* dispatch and handle_page_fault) over the page table and the disk        *)
(* (vector_db.h).  Each client connection is served by a thread of its     *)
(* own; the page table, the disk and the process table each have a mutex   *)
(* held for one call, so a system call is a sequence of steps between      *)
(* which other threads run.                                                *)
(*                                                                         *)
(* Abstracted: a similarity search answers any page on the disk, or none;  *)
(* the counters of the PCB and its log are left out.                       *)
(***************************************************************************)
EXTENDS PageTable

CONSTANTS Threads,  \* the server's client threads
          Pids,     \* the processes the calls are made for
          Empty     \* the empty content, which dispatch does not store

VARIABLES
  disk,    \* pages_ of the VectorDB: disk[p] is None when p is not stored
  state,   \* the state of each process in the process table
  pc,      \* where a thread is in its system call
  req,     \* the system call it serves: its name, pid, page and content
  found,   \* what a page fault read from the disk: a page and its content
  latest,  \* history: the last content a client sent for a page
  raced    \* history: pages whose last writing overlapped another call

memVars == <<disk, state, pc, req, found, latest, raced>>
kmVars  == <<ptVars, memVars>>

Idle  == [call |-> "none", pid |-> None, page |-> None, content |-> None]
Stored(p) == disk[p] # None

(* Threads that hold a content of p which they have yet to bring to RAM or *)
(* to take off the disk.                                                   *)
Writing(t, p)  == req[t].page = p /\ pc[t] \in {"insert", "page_out"}
Fetching(t, p) == found[t].page = p /\ pc[t] \in {"page_in", "remove"}
Involved(t, p) == Writing(t, p) \/ Fetching(t, p)

NoFind == [page |-> None, content |-> None]

KMInit ==
  /\ PTInit
  /\ disk = [p \in Pages |-> None]
  /\ state = [i \in Pids |-> "RUNNING"]
  /\ pc = [t \in Threads |-> "idle"]
  /\ req = [t \in Threads |-> Idle]
  /\ found = [t \in Threads |-> NoFind]
  /\ latest = [p \in Pages |-> None]
  /\ raced = {}

-----------------------------------------------------------------------------
Goto(t, label) == pc' = [pc EXCEPT ![t] = label]

(* The reply: the thread waits for its client's next call.                 *)
Reply(t) == /\ Goto(t, "idle")
            /\ req' = [req EXCEPT ![t] = Idle]
            /\ found' = [found EXCEPT ![t] = NoFind]

(* A call arrives.  Calls that touch a page start only while no use        *)
(* counter can pass MaxFreq.                                               *)
RoomToCount == \A p \in Pages : table[p].freq + Cardinality(Threads) <= MaxFreq

Receive(t, call, i, p, c, label) ==
  /\ pc[t] = "idle"
  /\ req' = [req EXCEPT ![t] = [call |-> call, pid |-> i, page |-> p, content |-> c]]
  /\ Goto(t, label)
  /\ UNCHANGED <<ptVars, disk, state, found, latest, raced>>

(* Mutant: an empty content is stored.                                     *)
MemAllocAnything(t, i, p, c) == RoomToCount /\ Receive(t, "mem_alloc", i, p, c, "store")

MemAlloc(t, i, p, c) ==
  RoomToCount /\ Receive(t, "mem_alloc", i, p, c, IF c = Empty THEN "insert" ELSE "store")
MemFree(t, i, p, c) ==
  Receive(t, "mem_free", i, p, c, IF c = Empty THEN "page_out" ELSE "store")
MemRead(t, i, p) ==
  RoomToCount /\ Receive(t, "mem_read", i, p, None, "access")

(* VectorDB::store, of a mem_alloc or a mem_free.                          *)
Store(t) ==
  LET p == req[t].page IN
  /\ pc[t] = "store"
  /\ disk' = [disk EXCEPT ![p] = req[t].content]
  /\ latest' = [latest EXCEPT ![p] = req[t].content]
  /\ raced' = IF \E u \in Threads \ {t} : Involved(u, p) THEN raced \cup {p} ELSE raced \ {p}
  /\ Goto(t, IF req[t].call = "mem_alloc" THEN "insert" ELSE "page_out")
  /\ UNCHANGED <<ptVars, state, req, found>>

(* PageTable::insert of a mem_alloc.                                       *)
AllocInsert(t) ==
  /\ pc[t] = "insert"
  /\ Insert(req[t].page, req[t].content)
  /\ latest' = IF req[t].content = Empty THEN [latest EXCEPT ![req[t].page] = Empty] ELSE latest
  /\ Reply(t)
  /\ UNCHANGED <<disk, state, raced>>

(* PageTable::page_out of a mem_free.                                      *)
FreePageOut(t) ==
  LET p == req[t].page IN
  /\ pc[t] = "page_out"
  /\ IF table[p].valid THEN PageOut(p) ELSE UNCHANGED ptVars
  /\ Reply(t)
  /\ UNCHANGED <<disk, state, latest, raced>>

(* PageTable::access of a mem_read: a hit is answered, a miss is a fault.  *)
ReadHit(t) ==
  /\ pc[t] = "access"
  /\ Access(req[t].page)
  /\ Reply(t)
  /\ UNCHANGED <<disk, state, latest, raced>>

ReadMiss(t) ==
  /\ pc[t] = "access"
  /\ ~table[req[t].page].valid
  /\ Goto(t, "fault")
  /\ UNCHANGED <<ptVars, disk, state, req, found, latest, raced>>

-----------------------------------------------------------------------------
(* handle_page_fault.                                                      *)
Fault(t) ==
  /\ pc[t] = "fault"
  /\ state' = [state EXCEPT ![req[t].pid] = "WAITING"]
  /\ Goto(t, "retrieve")
  /\ UNCHANGED <<ptVars, disk, req, found, latest, raced>>

Retrieve(t) ==
  LET p == req[t].page IN
  /\ pc[t] = "retrieve"
  /\ IF Stored(p)
     THEN /\ found' = [found EXCEPT ![t] = [page |-> p, content |-> disk[p]]]
          /\ Goto(t, "page_in")
     ELSE Goto(t, "search") /\ UNCHANGED found
  /\ UNCHANGED <<ptVars, disk, state, req, latest, raced>>

(* Mutant: the failed fault leaves its process WAITING.                    *)
SearchFailsSilently(t) ==
  /\ pc[t] = "search"
  /\ Reply(t)
  /\ UNCHANGED <<ptVars, disk, state, latest, raced>>

(* The best match of the search scores above the threshold, or does not.   *)
SearchMatch(t) ==
  /\ pc[t] = "search"
  /\ \E q \in Pages :
       /\ Stored(q)
       /\ found' = [found EXCEPT ![t] = [page |-> q, content |-> disk[q]]]
  /\ Goto(t, "page_in")
  /\ UNCHANGED <<ptVars, disk, state, req, latest, raced>>

SearchFails(t) ==
  /\ pc[t] = "search"
  /\ state' = [state EXCEPT ![req[t].pid] = "READY"]
  /\ Reply(t)
  /\ UNCHANGED <<ptVars, disk, latest, raced>>

PageIn(t) ==
  /\ pc[t] = "page_in"
  /\ Insert(found[t].page, found[t].content)
  /\ Goto(t, "remove")
  /\ UNCHANGED <<disk, state, req, found, latest, raced>>

RemoveStored(t) ==
  /\ pc[t] = "remove"
  /\ disk' = [disk EXCEPT ![found[t].page] = None]
  /\ Goto(t, "resume")
  /\ UNCHANGED <<ptVars, state, req, found, latest, raced>>

Resume(t) ==
  /\ pc[t] = "resume"
  /\ state' = [state EXCEPT ![req[t].pid] = "RUNNING"]
  /\ Reply(t)
  /\ UNCHANGED <<ptVars, disk, latest, raced>>

(* The set_policy call, one step: it holds the page table's mutex.         *)
CallSetPolicy(t) ==
  /\ pc[t] = "idle"
  /\ \E q \in Policies : SetPolicy(q)
  /\ UNCHANGED memVars

-----------------------------------------------------------------------------
Calls(t) ==
  \E i \in Pids, p \in Pages :
    \/ MemRead(t, i, p)
    \/ \E c \in Contents : MemAlloc(t, i, p, c) \/ MemFree(t, i, p, c)

Serve(t) ==
  \/ Store(t) \/ AllocInsert(t) \/ FreePageOut(t) \/ ReadHit(t) \/ ReadMiss(t)
  \/ Fault(t) \/ Retrieve(t) \/ SearchMatch(t) \/ SearchFails(t)
  \/ PageIn(t) \/ RemoveStored(t) \/ Resume(t)

KMNext == \E t \in Threads : Calls(t) \/ CallSetPolicy(t) \/ Serve(t)

KMSpec == KMInit /\ [][KMNext]_kmVars

-----------------------------------------------------------------------------
(* Properties.                                                             *)

Labels == {"idle", "store", "insert", "page_out", "access", "fault", "retrieve",
           "search", "page_in", "remove", "resume"}

KMTypeOK ==
  /\ TypeOK
  /\ disk \in [Pages -> (Contents \ {Empty}) \cup {None}]
  /\ state \in [Pids -> {"RUNNING", "WAITING", "READY"}]
  /\ pc \in [Threads -> Labels]
  /\ req \in [Threads -> [call : {"none", "mem_alloc", "mem_free", "mem_read"},
                          pid : Pids \cup {None}, page : Pages \cup {None},
                          content : Contents \cup {None}]]
  /\ found \in [Threads -> [page : Pages \cup {None}, content : Contents \cup {None}]]
  /\ latest \in [Pages -> Contents \cup {None}]
  /\ raced \subseteq Pages

(* The copies of a page in RAM and on disk are the last content sent for   *)
(* it, unless a writer of it is between its two steps, or its last writing *)
(* overlapped another call on it (two writers, or a page fault that holds  *)
(* a copy it read before), or it was emptied, which leaves the old copy on *)
(* the disk.                                                               *)
CopiesCoherent ==
  \A p \in Pages :
    \/ p \in raced
    \/ latest[p] = Empty
    \/ \E t \in Threads : Writing(t, p)
    \/ /\ table[p].valid => table[p].content = latest[p]
       /\ Stored(p) => disk[p] = latest[p]

(* A process is WAITING for memory only while some thread works on a page  *)
(* fault of it: however two faults of one process overlap, none leaves it  *)
(* blocked.                                                                *)
WaitingHasFault ==
  \A i \in Pids :
    state[i] = "WAITING" =>
      \E t \in Threads : /\ req[t].pid = i
                         /\ pc[t] \in {"retrieve", "search", "page_in", "remove", "resume"}
=============================================================================
