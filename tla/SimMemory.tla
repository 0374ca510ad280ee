----------------------------- MODULE SimMemory ------------------------------
(***************************************************************************)
(* The paged memory that kernel_bridge.py simulates when the kernel is not *)
(* running: _sim_ram, at most RAM_CAP pages, and _sim_disk.  The threads of*)
(* the web server call it without a lock; a thread may be interrupted      *)
(* between any two of the dictionary operations below.  An operation on a  *)
(* key that another thread has taken away raises KeyError: the request     *)
(* fails and what it held in a local variable is gone.                     *)
(*                                                                         *)
(* Abstracted: the word overlap of a search is a choice of any page.       *)
(***************************************************************************)
EXTENDS Integers, Sequences, FiniteSets, Lists

CONSTANTS Threads,   \* threads that call the simulation
          Pages,     \* page ids
          Contents,  \* contents of pages
          None,      \* no page, no content
          RamCap     \* RAM_CAP

ASSUME NoneAssumption   == None \notin Pages \cup Contents
ASSUME RamCapAssumption == RamCap \in Nat \ {0}

VARIABLES
  ram,      \* _sim_ram: the content of each page in RAM, None otherwise
  order,    \* the keys of _sim_ram in the order of their insertion
  disk,     \* _sim_disk
  pc,       \* where a thread is in its call
  req,      \* the call: its name, page and content
  fetched,  \* the page a read takes from the disk, and its content once popped
  evicted,  \* the page a call takes out of RAM, and its content once popped
  crashed,  \* history: pages held by a thread that raised an exception
  stored,   \* history: the pages ever allocated
  overlap   \* history: two calls were open at one time

simVars == <<ram, order, disk, pc, req, fetched, evicted, crashed, stored, overlap>>

Nothing == [page |-> None, content |-> None]
NoCall  == [call |-> "none", page |-> None, content |-> None]

InRam(p)  == ram[p] # None
OnDisk(p) == disk[p] # None

SimInit ==
  /\ ram = [p \in Pages |-> None]
  /\ order = <<>>
  /\ disk = [p \in Pages |-> None]
  /\ pc = [t \in Threads |-> "idle"]
  /\ req = [t \in Threads |-> NoCall]
  /\ fetched = [t \in Threads |-> Nothing]
  /\ evicted = [t \in Threads |-> Nothing]
  /\ crashed = {}
  /\ stored = {}
  /\ overlap = FALSE

-----------------------------------------------------------------------------
Goto(t, label) == pc' = [pc EXCEPT ![t] = label]

Call(t, name, p, c) ==
  /\ pc[t] = "idle"
  /\ Goto(t, name)
  /\ req' = [req EXCEPT ![t] = [call |-> name, page |-> p, content |-> c]]
  /\ overlap' = (overlap \/ \E u \in Threads : pc[u] # "idle")
  /\ UNCHANGED <<ram, order, disk, fetched, evicted, crashed, stored>>

(* mem_alloc, mem_read and mem_free of the bridge when it is offline.      *)
MemAlloc(t, p, c) == Call(t, "alloc", p, c)
MemRead(t, p)     == Call(t, "read", p, None)
MemFree(t, p)     == Call(t, "free", p, None)

(* The call ends.                                                          *)
Done(t) ==
  /\ Goto(t, "idle")
  /\ req' = [req EXCEPT ![t] = NoCall]
  /\ fetched' = [fetched EXCEPT ![t] = Nothing]
  /\ evicted' = [evicted EXCEPT ![t] = Nothing]

(* It ends with an exception, and what the thread has popped is lost.      *)
Raise(t) ==
  /\ Done(t)
  /\ crashed' = IF fetched[t].content = None THEN crashed ELSE crashed \cup {fetched[t].page}
  /\ UNCHANGED <<ram, order, disk, stored, overlap>>

(* A test that changes nothing but where the thread goes.                  *)
Branch(t, from, label) ==
  /\ pc[t] = from
  /\ Goto(t, label)
  /\ UNCHANGED <<ram, order, disk, req, fetched, evicted, crashed, stored, overlap>>

-----------------------------------------------------------------------------
(* `if page_id not in _sim_ram' of _sim_mem_alloc, and `if page_id in      *)
(* _sim_ram' of _sim_mem_read.                                             *)
LookAlloc(t) == Branch(t, "alloc", IF InRam(req[t].page) THEN "put" ELSE "room")
LookRead(t)  == Branch(t, "read", IF InRam(req[t].page) THEN "hit" ELSE "look_disk")

(* Mutant: RAM is taken to be full one page too late.                      *)
RoomForOneMore(t) == Branch(t, "room", IF Len(order) > RamCap THEN "victim" ELSE "put")

(* `if len(_sim_ram) >= RAM_CAP': a victim has to go first.                *)
Room(t) == Branch(t, "room", IF Len(order) >= RamCap THEN "victim" ELSE "put")

(* next(iter(_sim_ram)): the first inserted; StopIteration if none is left.*)
ChooseVictim(t) ==
  /\ pc[t] = "victim"
  /\ IF order = <<>> THEN Raise(t)
     ELSE /\ evicted' = [evicted EXCEPT ![t].page = Head(order)]
          /\ Goto(t, "evict")
          /\ UNCHANGED <<ram, order, disk, req, fetched, crashed, stored, overlap>>

(* mem_free: `if page_id in _sim_ram'.                                     *)
LookFree(t) ==
  /\ pc[t] = "free"
  /\ IF InRam(req[t].page)
     THEN /\ evicted' = [evicted EXCEPT ![t].page = req[t].page]
          /\ Goto(t, "evict")
          /\ UNCHANGED <<req, fetched>>
     ELSE Done(t)
  /\ UNCHANGED <<ram, order, disk, crashed, stored, overlap>>

(* _sim_disk[victim] = _sim_ram.pop(victim): the pop, and the assignment.  *)
Evict(t) ==
  LET v == evicted[t].page IN
  /\ pc[t] = "evict"
  /\ IF ~InRam(v) THEN Raise(t)
     ELSE /\ ram' = [ram EXCEPT ![v] = None]
          /\ order' = Without(order, v)
          /\ evicted' = [evicted EXCEPT ![t].content = ram[v]]
          /\ Goto(t, "save")
          /\ UNCHANGED <<disk, req, fetched, crashed, stored, overlap>>

(* Mutant: the page is dropped instead of saved.                           *)
SaveNothing(t) ==
  /\ pc[t] = "save"
  /\ IF req[t].call = "free" THEN Done(t)
     ELSE /\ evicted' = [evicted EXCEPT ![t] = Nothing]
          /\ Goto(t, "put")
          /\ UNCHANGED <<req, fetched>>
  /\ UNCHANGED <<ram, order, disk, crashed, stored, overlap>>

Save(t) ==
  /\ pc[t] = "save"
  /\ disk' = [disk EXCEPT ![evicted[t].page] = evicted[t].content]
  /\ IF req[t].call = "free" THEN Done(t)
     ELSE /\ evicted' = [evicted EXCEPT ![t] = Nothing]
          /\ Goto(t, "put")
          /\ UNCHANGED <<req, fetched>>
  /\ UNCHANGED <<ram, order, crashed, stored, overlap>>

(* Mutant: a key that is there gets a second place.                        *)
AssignRamAgain(p, c) ==
  /\ ram' = [ram EXCEPT ![p] = c]
  /\ order' = Append(order, p)

(* _sim_ram[page_id] = content; a key that is there keeps its place.       *)
AssignRam(p, c) ==
  /\ ram' = [ram EXCEPT ![p] = c]
  /\ order' = IF InRam(p) THEN order ELSE Append(order, p)

PutAlloc(t) ==
  /\ pc[t] = "put" /\ req[t].call = "alloc"
  /\ AssignRam(req[t].page, req[t].content)
  /\ stored' = stored \cup {req[t].page}
  /\ crashed' = crashed \ {req[t].page}
  /\ Goto(t, "backup")
  /\ UNCHANGED <<disk, req, fetched, evicted, overlap>>

(* _sim_disk[page_id] = content.                                           *)
Backup(t) ==
  /\ pc[t] = "backup"
  /\ disk' = [disk EXCEPT ![req[t].page] = req[t].content]
  /\ Done(t)
  /\ UNCHANGED <<ram, order, crashed, stored, overlap>>

-----------------------------------------------------------------------------
(* return _sim_ram[page_id].                                               *)
Hit(t) ==
  /\ pc[t] = "hit"
  /\ IF ~InRam(req[t].page) THEN Raise(t)
     ELSE Done(t) /\ UNCHANGED <<ram, order, disk, crashed, stored, overlap>>

(* `if page_id in _sim_disk'.                                              *)
LookDisk(t) ==
  LET p == req[t].page IN
  /\ pc[t] = "look_disk"
  /\ Goto(t, IF OnDisk(p) THEN "fetch" ELSE "search")
  /\ fetched' = IF OnDisk(p) THEN [fetched EXCEPT ![t].page = p] ELSE fetched
  /\ UNCHANGED <<ram, order, disk, req, evicted, crashed, stored, overlap>>

(* The search over _sim_disk: a page with an id that is not negative, or   *)
(* none; iterating raises RuntimeError if another thread resizes the disk. *)
Find(t, p) ==
  /\ pc[t] = "search" /\ OnDisk(p) /\ p >= 0
  /\ fetched' = [fetched EXCEPT ![t].page = p]
  /\ Goto(t, "fetch")
  /\ UNCHANGED <<ram, order, disk, req, evicted, crashed, stored, overlap>>

FindNothing(t) ==
  /\ pc[t] = "search"
  /\ Done(t)
  /\ UNCHANGED <<ram, order, disk, crashed, stored, overlap>>

(* content = _sim_disk.pop(page_id).                                       *)
Fetch(t) ==
  LET p == fetched[t].page IN
  /\ pc[t] = "fetch"
  /\ IF ~OnDisk(p) THEN Raise(t)
     ELSE /\ disk' = [disk EXCEPT ![p] = None]
          /\ fetched' = [fetched EXCEPT ![t].content = disk[p]]
          /\ Goto(t, "room")
          /\ UNCHANGED <<ram, order, req, evicted, crashed, stored, overlap>>

(* Mutant: the page found by the search is kept under the id asked for.    *)
PutReadHere(t) ==
  /\ pc[t] = "put" /\ req[t].call = "read"
  /\ AssignRam(req[t].page, fetched[t].content)
  /\ Done(t)
  /\ UNCHANGED <<disk, crashed, stored, overlap>>

(* _sim_ram[page_id] = content, with the id of the page that was found.    *)
PutRead(t) ==
  /\ pc[t] = "put" /\ req[t].call = "read"
  /\ AssignRam(fetched[t].page, fetched[t].content)
  /\ Done(t)
  /\ UNCHANGED <<disk, crashed, stored, overlap>>

-----------------------------------------------------------------------------
SimStep(t) ==
  \/ LookAlloc(t) \/ LookRead(t) \/ LookFree(t) \/ Room(t) \/ ChooseVictim(t) \/ Evict(t) \/ Save(t)
  \/ PutAlloc(t) \/ Backup(t) \/ Hit(t) \/ LookDisk(t) \/ (\E p \in Pages : Find(t, p))
  \/ FindNothing(t) \/ Fetch(t) \/ PutRead(t)

SimCall(t) ==
  \E p \in Pages : MemRead(t, p) \/ MemFree(t, p) \/ \E c \in Contents : MemAlloc(t, p, c)

SimNext == \E t \in Threads : SimCall(t) \/ SimStep(t)

SimSpec == SimInit /\ [][SimNext]_simVars

-----------------------------------------------------------------------------
Popped == [page : Pages \cup {None}, content : Contents \cup {None}]

(* Type correctness; the order lists each key of _sim_ram once.            *)
SimTypeOK ==
  /\ ram \in [Pages -> Contents \cup {None}]
  /\ disk \in [Pages -> Contents \cup {None}]
  /\ pc \in [Threads -> {"idle", "alloc", "read", "free", "room", "victim", "evict", "save", "put",
                         "backup", "hit", "look_disk", "search", "fetch"}]
  /\ req \in [Threads -> [call : {"none", "alloc", "read", "free"}, page : Pages \cup {None},
                          content : Contents \cup {None}]]
  /\ fetched \in [Threads -> Popped]
  /\ evicted \in [Threads -> Popped]
  /\ crashed \subseteq Pages
  /\ stored \subseteq Pages
  /\ overlap \in BOOLEAN
  /\ order \in Seq(Pages)
  /\ \A i, j \in DOMAIN order : order[i] = order[j] => i = j
  /\ \A p \in Pages : InRam(p) <=> p \in Range(order)

(* RAM is over its capacity only after two calls overlapped.  Overlapping  *)
(* calls overfill it for good: two that pass the test of the capacity      *)
(* together, or one whose page is evicted after it found it in RAM.        *)
OverfullHasCause == Len(order) > RamCap => overlap

Held(t, p) == \/ fetched[t].page = p /\ fetched[t].content # None
              \/ evicted[t].page = p /\ evicted[t].content # None

(* A page once allocated is in RAM, on the disk or in the hands of a       *)
(* thread, unless a call raised an exception while it held the page.       *)
LostOnlyByException ==
  \A p \in stored \ crashed : InRam(p) \/ OnDisk(p) \/ \E t \in Threads : Held(t, p)

(* The content a page has, wherever it is; RAM goes before the disk.       *)
Store ==
  [p \in Pages |->
     IF InRam(p) THEN ram[p] ELSE IF OnDisk(p) THEN disk[p]
     ELSE IF \E t \in Threads : fetched[t].page = p
     THEN fetched[CHOOSE t \in Threads : fetched[t].page = p].content
     ELSE IF \E t \in Threads : evicted[t].page = p
     THEN evicted[CHOOSE t \in Threads : evicted[t].page = p].content
     ELSE None]

PS == INSTANCE PageStore WITH store <- Store, open <- req

(* As long as no two calls overlap, the simulation implements PageStore:   *)
(* each page holds what the last _sim_mem_alloc of it wrote.  Evictions,   *)
(* faults and explicit page-outs change no content, and an allocation that *)
(* has returned is kept.                                                   *)
SequentialStore == PS!Init /\ [][overlap' \/ PS!Next]_<<Store, req, overlap>>
=============================================================================
