-------------------------- MODULE SimMemoryProofs ---------------------------
(***************************************************************************)
(* Proofs about SimMemory for any number of threads, any page ids and any  *)
(* capacity: its types, that RAM is overfull and pages are lost for the    *)
(* named causes only, and that calls one after the other implement         *)
(* PageStore.                                                              *)
(***************************************************************************)
EXTENDS SimMemory, ListLemmas

Labels == {"idle", "alloc", "read", "free", "room", "victim", "evict", "save", "put",
           "backup", "hit", "look_disk", "search", "fetch"}
Calls  == [call : {"none", "alloc", "read", "free"}, page : Pages \cup {None},
           content : Contents \cup {None}]

(* What a call of a thread holds at each place l: the request r, the page f*)
(* it fetches and the page e it evicts.                                    *)
ShapeOf(l, r, f, e) ==
  /\ l = "idle" => r = NoCall
  /\ l # "idle" => r.page \in Pages /\ r.call # "none"
  /\ l \in {"alloc", "backup"} => r.call = "alloc"
  /\ l \in {"read", "hit", "look_disk", "search", "fetch"} => r.call = "read"
  /\ l = "free" => r.call = "free"
  /\ l \in {"room", "victim", "put"} => r.call \in {"alloc", "read"}
  /\ r.call = "alloc" => r.content \in Contents
  /\ f.content # None <=> r.call = "read" /\ l \in {"room", "victim", "evict", "save", "put"}
  /\ f.page # None <=> f.content # None \/ l = "fetch"
  /\ e.content # None <=> l = "save"
  /\ e.page # None <=> l \in {"evict", "save"}

Shape(t) == ShapeOf(pc[t], req[t], fetched[t], evicted[t])

ThreadsOK ==
  /\ pc \in [Threads -> Labels] /\ req \in [Threads -> Calls]
  /\ fetched \in [Threads -> Popped] /\ evicted \in [Threads -> Popped]
  /\ \A t \in Threads : Shape(t)

RamOK ==
  /\ ram \in [Pages -> Contents \cup {None}]
  /\ order \in Seq(Pages) /\ IsInjective(order)
  /\ \A p \in Pages : InRam(p) <=> p \in Range(order)

SimInv ==
  /\ ThreadsOK /\ RamOK
  /\ disk \in [Pages -> Contents \cup {None}]
  /\ crashed \subseteq Pages /\ stored \subseteq Pages /\ overlap \in BOOLEAN

(* The thread t goes to l with the request r and the pages f and e.        *)
Moves(t, l, r, f, e) ==
  /\ pc' = [pc EXCEPT ![t] = l] /\ req' = [req EXCEPT ![t] = r]
  /\ fetched' = [fetched EXCEPT ![t] = f] /\ evicted' = [evicted EXCEPT ![t] = e]

LEMMA MovesKeeps ==
  ASSUME ThreadsOK, NEW t \in Threads, NEW l \in Labels, NEW r \in Calls, NEW f \in Popped,
         NEW e \in Popped, Moves(t, l, r, f, e), ShapeOf(l, r, f, e)
  PROVE  /\ ThreadsOK' /\ pc'[t] = l /\ req'[t] = r /\ fetched'[t] = f /\ evicted'[t] = e
         /\ \A u \in Threads \ {t} : /\ pc'[u] = pc[u] /\ req'[u] = req[u]
                                    /\ fetched'[u] = fetched[u] /\ evicted'[u] = evicted[u]
<1>1. /\ pc' \in [Threads -> Labels] /\ req' \in [Threads -> Calls]
      /\ fetched' \in [Threads -> Popped] /\ evicted' \in [Threads -> Popped]
      /\ pc'[t] = l /\ req'[t] = r /\ fetched'[t] = f /\ evicted'[t] = e
      /\ \A u \in Threads \ {t} : /\ pc'[u] = pc[u] /\ req'[u] = req[u]
                                 /\ fetched'[u] = fetched[u] /\ evicted'[u] = evicted[u]
  BY DEF ThreadsOK, Moves
<1>2. \A u \in Threads : Shape(u)'
  BY <1>1 DEF ThreadsOK, Shape
<1> QED
  BY <1>1, <1>2 DEF ThreadsOK

(* A step of t is a move of t that keeps the shape.                        *)
Good(t, l, r, f, e) ==
  l \in Labels /\ r \in Calls /\ f \in Popped /\ e \in Popped /\ Moves(t, l, r, f, e)
  /\ ShapeOf(l, r, f, e)

LEMMA Nothings == Nothing \in Popped /\ NoCall \in Calls /\ ShapeOf("idle", NoCall, Nothing, Nothing)
  BY NoneAssumption DEF Nothing, NoCall, Popped, Calls, ShapeOf

LEMMA DoneGood ==
  ASSUME NEW t \in Threads, Done(t)
  PROVE  Good(t, "idle", NoCall, Nothing, Nothing)
  BY Nothings DEF Done, Goto, Good, Moves, Labels

LEMMA MoveOf ==
  ASSUME SimInv, NEW t \in Threads, SimCall(t) \/ SimStep(t)
  PROVE  \E l, r, f, e : Good(t, l, r, f, e)
<1> DEFINE Goal == \E l, r, f, e : Good(t, l, r, f, e)
<1>0. /\ pc \in [Threads -> Labels] /\ req \in [Threads -> Calls]
      /\ fetched \in [Threads -> Popped] /\ evicted \in [Threads -> Popped]
      /\ ShapeOf(pc[t], req[t], fetched[t], evicted[t])
      /\ req = [req EXCEPT ![t] = req[t]] /\ fetched = [fetched EXCEPT ![t] = fetched[t]]
      /\ evicted = [evicted EXCEPT ![t] = evicted[t]]
  BY DEF SimInv, ThreadsOK, Shape
<1>a. /\ pc[t] \in Labels /\ req[t] \in Calls /\ fetched[t] \in Popped /\ evicted[t] \in Popped
  BY <1>0
<1>1. ASSUME NEW l \in Labels, NEW k \in Labels, Branch(t, k, l),
             ShapeOf(l, req[t], fetched[t], evicted[t])
      PROVE  Goal
  <2>1. Good(t, l, req[t], fetched[t], evicted[t])
    BY <1>0, <1>a, <1>1 DEF Branch, Goto, Good, Moves
  <2> QED
    BY <2>1
<1>2. ASSUME Done(t) PROVE Goal
  BY <1>2, DoneGood
<1>3. ASSUME SimCall(t) PROVE Goal
  <2>1. PICK name \in {"alloc", "read", "free"}, p \in Pages, c \in Contents \cup {None} :
          Call(t, name, p, c) /\ (name = "alloc" => c \in Contents)
    BY <1>3 DEF SimCall, MemAlloc, MemRead, MemFree
  <2> DEFINE r == [call |-> name, page |-> p, content |-> c]
  <2>2. r \in Calls
    BY DEF Calls
  <2>3. ShapeOf(name, r, fetched[t], evicted[t])
    BY <1>0, <2>1 DEF Call, ShapeOf, NoCall
  <2>4. Good(t, name, r, fetched[t], evicted[t])
    BY <1>0, <1>a, <2>1, <2>2, <2>3 DEF Call, Goto, Good, Moves, Labels
  <2> QED
    BY <2>4
<1>4. ASSUME LookAlloc(t) \/ LookRead(t) \/ Room(t) PROVE Goal
  <2>1. PICK k \in Labels, l \in Labels : Branch(t, k, l)
            /\ (<<k, l>> \in {<<"alloc", "put">>, <<"alloc", "room">>, <<"read", "hit">>,
                              <<"read", "look_disk">>, <<"room", "victim">>, <<"room", "put">>})
    BY <1>4 DEF LookAlloc, LookRead, Room, Labels
  <2>2. ShapeOf(l, req[t], fetched[t], evicted[t])
    BY <1>0, <2>1 DEF Branch, ShapeOf
  <2> QED
    BY <1>1, <2>1, <2>2
<1>5. ASSUME NEW e \in Popped, ChooseVictim(t) \/ LookFree(t), Goto(t, "evict"), e.page # None,
             evicted' = [evicted EXCEPT ![t] = e], UNCHANGED <<req, fetched>>, e.content = None
      PROVE  Goal
  <2>1. ShapeOf("evict", req[t], fetched[t], e)
    BY <1>0, <1>5 DEF ChooseVictim, LookFree, ShapeOf
  <2> QED
    BY <1>0, <1>a, <1>5, <2>1 DEF Goto, Good, Moves, Labels
<1>6. ASSUME ChooseVictim(t) PROVE Goal
  <2>1. CASE order = <<>>
    BY <1>2, <1>6, <2>1 DEF ChooseVictim, Raise
  <2>2. CASE order # <<>>
    <3> DEFINE e == [evicted[t] EXCEPT !.page = Head(order)]
    <3>1. Head(order) \in Pages /\ Head(order) # None
      <4>1. Head(order) \in Pages
        BY <2>2 DEF SimInv, RamOK
      <4> QED
        BY <4>1, NoneAssumption
    <3>2. evicted[t].content = None
      BY <1>0, <1>6 DEF ChooseVictim, ShapeOf
    <3>3. e \in Popped /\ e.page # None /\ e.content = None
      BY <1>a, <3>1, <3>2 DEF Popped
    <3> QED
      BY <1>5, <1>6, <2>2, <3>3 DEF ChooseVictim
  <2> QED
    BY <2>1, <2>2
<1>7. ASSUME LookFree(t) PROVE Goal
  <2>1. CASE ~InRam(req[t].page)
    BY <1>2, <1>7, <2>1 DEF LookFree
  <2>2. CASE InRam(req[t].page)
    <3> DEFINE e == [evicted[t] EXCEPT !.page = req[t].page]
    <3>1. req[t].page \in Pages /\ req[t].page # None /\ evicted[t].content = None
      BY <1>0, <1>7, NoneAssumption DEF LookFree, ShapeOf
    <3>2. e \in Popped /\ e.page # None /\ e.content = None
      BY <1>a, <3>1 DEF Popped
    <3> QED
      BY <1>5, <1>7, <2>2, <3>2 DEF LookFree
  <2> QED
    BY <2>1, <2>2
<1>8. ASSUME Evict(t) PROVE Goal
  <2>1. CASE ~InRam(evicted[t].page)
    BY <1>2, <1>8, <2>1 DEF Evict, Raise
  <2>2. CASE InRam(evicted[t].page)
    <3> DEFINE e == [evicted[t] EXCEPT !.content = ram[evicted[t].page]]
    <3>1. /\ evicted[t].page \in Pages /\ ram[evicted[t].page] \in Contents
      BY <1>0, <1>a, <1>8, <2>2 DEF Evict, ShapeOf, Popped, InRam, SimInv, RamOK
    <3>2. e \in Popped /\ e.page # None /\ e.content # None
      BY <1>a, <3>1, NoneAssumption DEF Popped
    <3>3. ShapeOf("save", req[t], fetched[t], e)
      BY <1>0, <1>8, <3>2 DEF Evict, ShapeOf
    <3> QED
      BY <1>0, <1>a, <1>8, <2>2, <3>2, <3>3 DEF Evict, Goto, Good, Moves, Labels
  <2> QED
    BY <2>1, <2>2
<1>9. ASSUME Save(t) PROVE Goal
  <2>1. CASE req[t].call = "free"
    BY <1>2, <1>9, <2>1 DEF Save
  <2>2. CASE req[t].call # "free"
    <3>1. req[t].call \in {"alloc", "read"}
      BY <1>0, <1>a, <1>9, <2>2 DEF Save, ShapeOf, Calls
    <3>2. ShapeOf("put", req[t], fetched[t], Nothing)
      BY <1>0, <1>9, <3>1 DEF Save, ShapeOf, Nothing
    <3> QED
      BY <1>0, <1>a, <1>9, <2>2, <3>2, Nothings DEF Save, Goto, Good, Moves, Labels
  <2> QED
    BY <2>1, <2>2
<1>10. ASSUME PutAlloc(t) PROVE Goal
  <2>1. ShapeOf("backup", req[t], fetched[t], evicted[t])
    BY <1>0, <1>10 DEF PutAlloc, ShapeOf
  <2> QED
    BY <1>0, <1>a, <1>10, <2>1 DEF PutAlloc, Goto, Good, Moves, Labels
<1>11. ASSUME Hit(t) \/ Backup(t) \/ FindNothing(t) \/ PutRead(t) PROVE Goal
  BY <1>2, <1>11 DEF Hit, Backup, FindNothing, PutRead, Raise
<1>12. ASSUME NEW p \in Pages, fetched' = [fetched EXCEPT ![t].page = p], Goto(t, "fetch"),
              UNCHANGED <<req, evicted>>, pc[t] \in {"look_disk", "search"}
       PROVE  Goal
  <2> DEFINE f == [fetched[t] EXCEPT !.page = p]
  <2>1. f \in Popped /\ f.page # None /\ f.content = fetched[t].content
    BY <1>a, NoneAssumption DEF Popped
  <2>2. ShapeOf("fetch", req[t], f, evicted[t])
    BY <1>0, <1>12, <2>1 DEF ShapeOf
  <2> QED
    BY <1>0, <1>a, <1>12, <2>1, <2>2 DEF Goto, Good, Moves, Labels
<1>13. ASSUME LookDisk(t) PROVE Goal
  <2>0. req[t].page \in Pages
    BY <1>0, <1>13 DEF LookDisk, ShapeOf
  <2>1. CASE OnDisk(req[t].page)
    BY <1>12, <1>13, <2>0, <2>1 DEF LookDisk
  <2>2. CASE ~OnDisk(req[t].page)
    <3>1. ShapeOf("search", req[t], fetched[t], evicted[t])
      BY <1>0, <1>13 DEF LookDisk, ShapeOf
    <3> QED
      BY <1>0, <1>a, <1>13, <2>2, <3>1 DEF LookDisk, Goto, Good, Moves, Labels
  <2> QED
    BY <2>1, <2>2
<1>14. ASSUME NEW p \in Pages, Find(t, p) PROVE Goal
  BY <1>12, <1>14 DEF Find
<1>15. ASSUME Fetch(t) PROVE Goal
  <2>1. CASE ~OnDisk(fetched[t].page)
    BY <1>2, <1>15, <2>1 DEF Fetch, Raise
  <2>2. CASE OnDisk(fetched[t].page)
    <3> DEFINE f == [fetched[t] EXCEPT !.content = disk[fetched[t].page]]
    <3>1. fetched[t].page \in Pages /\ disk[fetched[t].page] \in Contents
      BY <1>0, <1>a, <1>15, <2>2 DEF Fetch, ShapeOf, Popped, OnDisk, SimInv
    <3>2. f \in Popped /\ f.page # None /\ f.content # None
      BY <1>a, <3>1, NoneAssumption DEF Popped
    <3>3. ShapeOf("room", req[t], f, evicted[t])
      BY <1>0, <1>15, <3>2 DEF Fetch, ShapeOf
    <3> QED
      BY <1>0, <1>a, <1>15, <2>2, <3>2, <3>3 DEF Fetch, Goto, Good, Moves, Labels
  <2> QED
    BY <2>1, <2>2
<1> QED
  BY <1>3, <1>4, <1>6, <1>7, <1>8, <1>9, <1>10, <1>11, <1>13, <1>14, <1>15 DEF SimStep

-----------------------------------------------------------------------------
(* RAM and the disk.                                                       *)
LEMMA RamEvicted ==
  ASSUME RamOK, NEW v \in Pages, InRam(v), ram' = [ram EXCEPT ![v] = None],
         order' = Without(order, v)
  PROVE  /\ RamOK' /\ Len(order') = Len(order) - 1
         /\ \A p \in Pages : ram'[p] = IF p = v THEN None ELSE ram[p]
<1>1. /\ order' \in Seq(Pages) /\ Range(order') = Range(order) \ {v} /\ IsInjective(order')
      /\ Len(order') = Len(order) - 1
  BY WithoutOf DEF RamOK
<1>2. \A p \in Pages : ram'[p] = IF p = v THEN None ELSE ram[p]
  BY DEF RamOK
<1>3. ram' \in [Pages -> Contents \cup {None}]
  BY DEF RamOK
<1>4. \A p \in Pages : InRam(p)' <=> p \in Range(order')
  BY <1>1, <1>2 DEF RamOK, InRam
<1> QED
  BY <1>1, <1>2, <1>3, <1>4 DEF RamOK

LEMMA RamAssigned ==
  ASSUME RamOK, NEW v \in Pages, NEW c \in Contents, AssignRam(v, c)
  PROVE  /\ RamOK' /\ Len(order') = IF InRam(v) THEN Len(order) ELSE Len(order) + 1
         /\ \A p \in Pages : ram'[p] = IF p = v THEN c ELSE ram[p]
<1>0. c # None
  BY NoneAssumption
<1>2. \A p \in Pages : ram'[p] = IF p = v THEN c ELSE ram[p]
  BY DEF RamOK, AssignRam
<1>3. ram' \in [Pages -> Contents \cup {None}]
  BY DEF RamOK, AssignRam
<1>1. /\ order' \in Seq(Pages) /\ Range(order') = Range(order) \cup {v} /\ IsInjective(order')
      /\ Len(order') = IF InRam(v) THEN Len(order) ELSE Len(order) + 1
  <2>1. CASE InRam(v)
    BY <2>1 DEF RamOK, AssignRam
  <2>2. CASE ~InRam(v)
    <3>1. order' = Append(order, v) /\ v \notin Range(order)
      BY <2>2 DEF RamOK, AssignRam
    <3> QED
      BY <2>2, <3>1, AppendNew DEF RamOK
  <2> QED
    BY <2>1, <2>2
<1>4. \A p \in Pages : InRam(p)' <=> p \in Range(order')
  BY <1>0, <1>1, <1>2 DEF RamOK, InRam
<1> QED
  BY <1>1, <1>2, <1>3, <1>4 DEF RamOK

(* What the thread holds where it puts it somewhere.                       *)
LEMMA Holds ==
  ASSUME SimInv, NEW t \in Threads
  PROVE  /\ pc[t] = "save" => evicted[t].page \in Pages /\ evicted[t].content \in Contents
         /\ pc[t] = "evict" => evicted[t].page \in Pages
         /\ pc[t] = "put" /\ req[t].call = "read" =>
              fetched[t].page \in Pages /\ fetched[t].content \in Contents
         /\ pc[t] = "fetch" => fetched[t].page \in Pages
         /\ req[t].call = "alloc" => req[t].page \in Pages /\ req[t].content \in Contents
         /\ fetched[t].content # None => fetched[t].page \in Pages
         /\ pc[t] # "idle" => req[t].page \in Pages
<1>1. /\ fetched[t] \in Popped /\ evicted[t] \in Popped
      /\ ShapeOf(pc[t], req[t], fetched[t], evicted[t])
  BY DEF SimInv, ThreadsOK, Shape
<1>2. req[t].call = "alloc" => pc[t] # "idle"
  BY <1>1 DEF ShapeOf, NoCall
<1> QED
  BY <1>1, <1>2 DEF ShapeOf, Popped

LEMMA DataOf ==
  ASSUME SimInv, NEW t \in Threads, SimCall(t) \/ SimStep(t)
  PROVE  /\ RamOK' /\ disk' \in [Pages -> Contents \cup {None}]
         /\ crashed' \subseteq Pages /\ stored' \subseteq Pages /\ overlap' \in BOOLEAN
<1> DEFINE Goal == /\ RamOK' /\ disk' \in [Pages -> Contents \cup {None}]
                   /\ crashed' \subseteq Pages /\ stored' \subseteq Pages /\ overlap' \in BOOLEAN
<1>0. /\ RamOK /\ disk \in [Pages -> Contents \cup {None}]
      /\ crashed \subseteq Pages /\ stored \subseteq Pages /\ overlap \in BOOLEAN
  BY DEF SimInv
<1>1. ASSUME UNCHANGED <<ram, order>> PROVE RamOK'
  BY <1>0, <1>1 DEF RamOK, InRam
<1>2. ASSUME UNCHANGED <<ram, order, disk, stored>>, crashed' \subseteq Pages, overlap' \in BOOLEAN
      PROVE  Goal
  BY <1>0, <1>1, <1>2
<1>3. ASSUME SimCall(t) PROVE Goal
  <2>1. UNCHANGED <<ram, order, disk, crashed, stored>> /\ overlap' \in BOOLEAN
    BY <1>0, <1>3 DEF SimCall, MemAlloc, MemRead, MemFree, Call
  <2> QED
    BY <1>0, <1>2, <2>1
<1>4. ASSUME LookAlloc(t) \/ LookRead(t) \/ Room(t) \/ LookFree(t) \/ LookDisk(t)
             \/ (\E p \in Pages : Find(t, p)) \/ FindNothing(t)
      PROVE  Goal
  <2>1. UNCHANGED <<ram, order, disk, crashed, stored, overlap>>
    BY <1>4 DEF LookAlloc, LookRead, Room, Branch, LookFree, LookDisk, Find, FindNothing
  <2> QED
    BY <1>0, <1>2, <2>1
<1>5. ASSUME Raise(t) PROVE Goal
  <2>1. crashed' \subseteq Pages
    BY <1>0, <1>5, Holds DEF Raise
  <2> QED
    BY <1>0, <1>2, <1>5, <2>1 DEF Raise
<1>6. ASSUME ChooseVictim(t) \/ Hit(t) PROVE Goal
  BY <1>0, <1>2, <1>5, <1>6 DEF ChooseVictim, Hit
<1>7. ASSUME Evict(t), InRam(evicted[t].page) PROVE Goal
  <2>1. RamOK'
    BY <1>0, <1>7, Holds, RamEvicted DEF Evict
  <2> QED
    BY <1>0, <1>7, <2>1 DEF Evict
<1>8. ASSUME Save(t) \/ Backup(t) \/ (Fetch(t) /\ OnDisk(fetched[t].page)) PROVE Goal
  <2>1. disk' \in [Pages -> Contents \cup {None}]
    <3>1. CASE Save(t)
      BY <1>0, <3>1, Holds DEF Save
    <3>2. CASE Backup(t)
      <4>1. req[t].page \in Pages /\ req[t].content \in Contents
        BY <3>2, Holds DEF Backup, SimInv, ThreadsOK, Shape, ShapeOf
      <4> QED
        BY <1>0, <3>2, <4>1 DEF Backup
    <3>3. CASE Fetch(t) /\ OnDisk(fetched[t].page)
      BY <1>0, <3>3 DEF Fetch
    <3> QED
      BY <1>8, <3>1, <3>2, <3>3
  <2>2. UNCHANGED <<ram, order, crashed, stored, overlap>>
    BY <1>8 DEF Save, Backup, Fetch
  <2> QED
    BY <1>0, <1>1, <2>1, <2>2
<1>9. ASSUME PutAlloc(t) PROVE Goal
  <2>1. RamOK' /\ req[t].page \in Pages
    BY <1>0, <1>9, Holds, RamAssigned DEF PutAlloc
  <2> QED
    BY <1>0, <1>9, <2>1 DEF PutAlloc
<1>10. ASSUME PutRead(t) PROVE Goal
  <2>1. RamOK'
    BY <1>0, <1>10, Holds, RamAssigned DEF PutRead
  <2> QED
    BY <1>0, <1>10, <2>1 DEF PutRead
<1>11. Evict(t) /\ ~InRam(evicted[t].page) => Raise(t)
  BY DEF Evict
<1>12. Fetch(t) /\ ~OnDisk(fetched[t].page) => Raise(t)
  BY DEF Fetch
<1> QED
  BY <1>3, <1>4, <1>5, <1>6, <1>7, <1>8, <1>9, <1>10, <1>11, <1>12 DEF SimStep

LEMMA InvStep == SimInv /\ [SimNext]_simVars => SimInv'
<1> SUFFICES ASSUME SimInv, [SimNext]_simVars PROVE SimInv'
  OBVIOUS
<1>1. ASSUME NEW t \in Threads, SimCall(t) \/ SimStep(t) PROVE SimInv'
  <2>1. PICK l, r, f, e : Good(t, l, r, f, e)
    BY <1>1, MoveOf
  <2>2. ThreadsOK'
    BY <2>1, MovesKeeps DEF Good, SimInv
  <2> QED
    BY <1>1, <2>2, DataOf DEF SimInv
<1>2. CASE UNCHANGED simVars
  BY <1>2 DEF simVars, SimInv, ThreadsOK, RamOK, Shape, InRam
<1> QED
  BY <1>1, <1>2 DEF SimNext

LEMMA InvInit == SimInit => SimInv
<1> SUFFICES ASSUME SimInit PROVE SimInv
  OBVIOUS
<1>1. ThreadsOK
  BY Nothings DEF SimInit, ThreadsOK, Shape, Labels
<1>2. order \in Seq(Pages) /\ Range(order) = {} /\ IsInjective(order)
  <2>1. order \in Seq(Pages) /\ Len(order) = 0
    BY DEF SimInit
  <2>2. DOMAIN order = {}
    BY DEF SimInit
  <2>3. Range(order) = {}
    BY <2>2 DEF Range
  <2>4. IsInjective(order)
    BY <2>2 DEF IsInjective
  <2> QED
    BY <2>1, <2>3, <2>4
<1>3. RamOK
  BY <1>2 DEF SimInit, RamOK, InRam
<1> QED
  BY <1>1, <1>3 DEF SimInit, SimInv

(* The types are kept and the order lists each key of _sim_ram once, in    *)
(* every interleaving of calls on any number of threads.                   *)
THEOREM SimulationTypes == SimSpec => []SimTypeOK
<1>1. SimInv => SimTypeOK
  <2> SUFFICES ASSUME SimInv PROVE SimTypeOK
    OBVIOUS
  <2>1. \A i, j \in DOMAIN order : order[i] = order[j] => i = j
    BY Elements DEF SimInv, RamOK
  <2>2. \A p \in Pages : InRam(p) <=> p \in Range(order)
    BY DEF SimInv, RamOK
  <2> QED
    BY <2>1, <2>2 DEF SimInv, ThreadsOK, RamOK, SimTypeOK, Labels, Calls
<1> QED
  BY <1>1, InvInit, InvStep, PTL DEF SimSpec

-----------------------------------------------------------------------------
(* No page gets lost.                                                      *)
InHands(p) == InRam(p) \/ OnDisk(p) \/ \E u \in Threads : Held(u, p)

LEMMA LostStep == SimInv /\ LostOnlyByException /\ [SimNext]_simVars => LostOnlyByException'
<1> SUFFICES ASSUME SimInv, LostOnlyByException, [SimNext]_simVars PROVE LostOnlyByException'
  OBVIOUS
<1> USE NoneAssumption
<1>0. \A p \in stored \ crashed : InHands(p)
  BY DEF LostOnlyByException, InHands
<1>a. stored \subseteq Pages /\ crashed \subseteq Pages
  BY DEF SimInv
<1> DEFINE Safe(p) == InHands(p) => InHands(p)' \/ p \in crashed'
<1>1. ASSUME \A p \in Pages : Safe(p), stored' = stored, crashed \subseteq crashed'
      PROVE  LostOnlyByException'
  <2>1. \A p \in stored' \ crashed' : InHands(p)'
    BY <1>0, <1>a, <1>1
  <2> QED
    BY <2>1 DEF LostOnlyByException, InHands
<1>2. ASSUME UNCHANGED <<ram, disk, stored, crashed>>, \A u \in Threads, p \in Pages : Held(u, p) => Held(u, p)'
      PROVE  LostOnlyByException'
  <2>1. \A p \in Pages : Safe(p)
    BY <1>2 DEF InHands, InRam, OnDisk
  <2> QED
    BY <1>1, <1>2, <2>1
<1>3. ASSUME NEW t \in Threads, SimCall(t) \/ SimStep(t) PROVE LostOnlyByException'
  <2>1. PICK l, r, f, e : Good(t, l, r, f, e)
    BY <1>3, MoveOf
  <2>2. /\ ThreadsOK' /\ fetched'[t] = f /\ evicted'[t] = e
        /\ \A u \in Threads \ {t} : fetched'[u] = fetched[u] /\ evicted'[u] = evicted[u]
    BY <2>1, MovesKeeps DEF Good, SimInv
  <2>3. \A u \in Threads \ {t}, p \in Pages : Held(u, p)' <=> Held(u, p)
    BY <2>2 DEF Held
  <2>4. /\ fetched[t].content # None <=>
             req[t].call = "read" /\ pc[t] \in {"room", "victim", "evict", "save", "put"}
        /\ evicted[t].content # None <=> pc[t] = "save"
    BY DEF SimInv, ThreadsOK, Shape, ShapeOf
  <2>t. /\ fetched \in [Threads -> Popped] /\ evicted \in [Threads -> Popped]
        /\ ram \in [Pages -> Contents \cup {None}] /\ disk \in [Pages -> Contents \cup {None}]
        /\ fetched[t] \in Popped /\ evicted[t] \in Popped
    BY DEF SimInv, ThreadsOK, RamOK
  <2>5. ASSUME UNCHANGED <<ram, disk, stored, crashed>>,
               f.content = fetched[t].content /\ e.content = evicted[t].content,
               fetched[t].content # None => f.page = fetched[t].page,
               evicted[t].content # None => e.page = evicted[t].page
        PROVE  LostOnlyByException'
    <3>1. \A p \in Pages : Held(t, p) => Held(t, p)'
      BY <2>2, <2>5 DEF Held
    <3> QED
      BY <1>2, <2>3, <2>5, <3>1
  <2>6. CASE SimCall(t) \/ LookAlloc(t) \/ LookRead(t) \/ Room(t)
    <3>1. UNCHANGED <<ram, disk, stored, crashed, fetched, evicted>>
      BY <2>6 DEF SimCall, MemAlloc, MemRead, MemFree, Call, LookAlloc, LookRead, Room, Branch
    <3> QED
      BY <2>2, <2>5, <3>1
  <2>7. CASE LookDisk(t) \/ \E p \in Pages : Find(t, p)
    <3>1. /\ UNCHANGED <<ram, disk, stored, crashed, evicted>> /\ fetched[t].content = None
          /\ fetched' = fetched \/ \E p \in Pages : fetched' = [fetched EXCEPT ![t].page = p]
      BY <2>4, <2>7, Holds DEF LookDisk, Find
    <3>2. fetched'[t].content = None
      BY <2>t, <3>1 DEF Popped
    <3> QED
      BY <2>2, <2>5, <3>1, <3>2
  <2>8. ASSUME Raise(t), pc[t] # "save" PROVE LostOnlyByException'
    <3>1. \A p \in Pages : Held(t, p) => p \in crashed'
      BY <2>4, <2>8 DEF Raise, Held
    <3>2. \A p \in Pages : Safe(p)
      BY <2>3, <2>8, <3>1 DEF Raise, InHands, InRam, OnDisk
    <3> QED
      BY <1>1, <2>8, <3>2 DEF Raise
  <2>9. ASSUME UNCHANGED <<ram, disk, stored, crashed>>, \A p \in Pages : ~Held(t, p)
        PROVE  LostOnlyByException'
    BY <1>2, <2>3, <2>9
  <2>10. CASE FindNothing(t) \/ (LookFree(t) /\ ~InRam(req[t].page)) \/ (Hit(t) /\ InRam(req[t].page))
    <3>1. UNCHANGED <<ram, disk, stored, crashed>> /\ \A p \in Pages : ~Held(t, p)
      <4>1. pc[t] \in {"search", "free", "hit"}
        BY <2>10 DEF FindNothing, LookFree, Hit
      <4> QED
        BY <2>4, <2>10, <4>1 DEF FindNothing, LookFree, Hit, Held
    <3> QED
      BY <2>9, <3>1
  <2>11. CASE (LookFree(t) /\ InRam(req[t].page)) \/ (ChooseVictim(t) /\ order # <<>>)
    <3>1. /\ UNCHANGED <<ram, disk, stored, crashed, fetched>> /\ evicted[t].content = None
          /\ \E p : evicted' = [evicted EXCEPT ![t].page = p]
      BY <2>4, <2>11 DEF LookFree, ChooseVictim
    <3>2. evicted'[t].content = None
      BY <2>t, <3>1 DEF Popped
    <3> QED
      BY <2>2, <2>5, <3>1, <3>2
  <2>12. CASE Evict(t) /\ InRam(evicted[t].page)
    <3> DEFINE v == evicted[t].page
    <3>1. /\ v \in Pages /\ ram' = [ram EXCEPT ![v] = None] /\ UNCHANGED <<disk, stored, crashed, fetched>>
          /\ evicted' = [evicted EXCEPT ![t].content = ram[v]] /\ pc[t] = "evict"
      BY <2>12, Holds DEF Evict
    <3>2. Held(t, v)'
      BY <2>t, <2>12, <3>1 DEF Held, InRam, Popped
    <3>3. \A p \in Pages : Held(t, p) => Held(t, p)'
      BY <2>4, <3>1 DEF Held
    <3>4. \A p \in Pages : Safe(p)
      BY <2>t, <2>3, <3>1, <3>2, <3>3 DEF InHands, InRam, OnDisk
    <3> QED
      BY <1>1, <3>1, <3>4
  <2>13. CASE Save(t)
    <3> DEFINE v == evicted[t].page
    <3>1. /\ v \in Pages /\ evicted[t].content \in Contents
          /\ disk' = [disk EXCEPT ![v] = evicted[t].content] /\ UNCHANGED <<ram, stored, crashed>>
      BY <2>13, Holds DEF Save
    <3>2. \A p \in Pages : OnDisk(p)' <=> OnDisk(p) \/ p = v
      BY <2>t, <3>1 DEF OnDisk
    <3>3. \A p \in Pages : Held(t, p) => p = v \/ Held(t, p)'
      <4>1. CASE req[t].call = "free"
        BY <2>4, <4>1 DEF Held
      <4>2. CASE req[t].call # "free"
        BY <2>13, <4>2 DEF Save, Held
      <4> QED
        BY <4>1, <4>2
    <3>4. \A p \in Pages : Safe(p)
      BY <2>3, <3>1, <3>2, <3>3 DEF InHands, InRam
    <3> QED
      BY <1>1, <3>1, <3>4
  <2>14. CASE PutRead(t)
    <3> DEFINE v == fetched[t].page
    <3>1. /\ v \in Pages /\ fetched[t].content \in Contents /\ AssignRam(v, fetched[t].content)
          /\ UNCHANGED <<disk, stored, crashed>> /\ pc[t] = "put"
      BY <2>14, Holds DEF PutRead
    <3>2. \A p \in Pages : InRam(p)' <=> InRam(p) \/ p = v
      BY <2>t, <3>1 DEF InRam, AssignRam
    <3>3. \A p \in Pages : Held(t, p) => p = v
      BY <2>4, <3>1 DEF Held
    <3>4. \A p \in Pages : Safe(p)
      BY <2>3, <3>1, <3>2, <3>3 DEF InHands, OnDisk
    <3> QED
      BY <1>1, <3>1, <3>4
  <2>15. CASE PutAlloc(t)
    <3> DEFINE v == req[t].page
    <3>1. /\ v \in Pages /\ req[t].content \in Contents /\ AssignRam(v, req[t].content)
          /\ stored' = stored \cup {v} /\ crashed' = crashed \ {v} /\ UNCHANGED <<disk, fetched, evicted>>
      BY <2>15, Holds DEF PutAlloc
    <3>2. \A p \in Pages : InRam(p)' <=> InRam(p) \/ p = v
      BY <2>t, <3>1 DEF InRam, AssignRam
    <3>3. \A p \in stored' \ crashed' : InHands(p)'
      BY <1>0, <1>a, <3>1, <3>2 DEF InHands, OnDisk, Held
    <3> QED
      BY <3>3 DEF LostOnlyByException, InHands
  <2>16. CASE Backup(t)
    <3>1. /\ pc[t] = "backup" /\ UNCHANGED <<ram, stored, crashed>>
          /\ disk' = [disk EXCEPT ![req[t].page] = req[t].content] /\ req[t].content \in Contents
      BY <2>16 DEF Backup, SimInv, ThreadsOK, Shape, ShapeOf
    <3>2. \A p \in Pages : OnDisk(p) => OnDisk(p)'
      BY <2>t, <3>1 DEF OnDisk
    <3>3. \A p \in Pages : ~Held(t, p)
      BY <2>4, <3>1 DEF Held
    <3>4. \A p \in Pages : Safe(p)
      BY <2>3, <3>1, <3>2, <3>3 DEF InHands, InRam
    <3> QED
      BY <1>1, <3>1, <3>4
  <2>17. CASE Fetch(t) /\ OnDisk(fetched[t].page)
    <3> DEFINE v == fetched[t].page
    <3>1. /\ v \in Pages /\ disk' = [disk EXCEPT ![v] = None] /\ UNCHANGED <<ram, stored, crashed, evicted>>
          /\ fetched' = [fetched EXCEPT ![t].content = disk[v]] /\ pc[t] = "fetch"
      BY <2>17, Holds DEF Fetch
    <3>2. Held(t, v)'
      BY <2>t, <2>17, <3>1 DEF Held, OnDisk, Popped
    <3>3. \A p \in Pages : Held(t, p) => Held(t, p)'
      BY <2>4, <3>1 DEF Held
    <3>4. \A p \in Pages : Safe(p)
      BY <2>t, <2>3, <3>1, <3>2, <3>3 DEF InHands, InRam, OnDisk
    <3> QED
      BY <1>1, <3>1, <3>4
  <2>18. CASE (Fetch(t) /\ ~OnDisk(fetched[t].page)) \/ (Evict(t) /\ ~InRam(evicted[t].page))
              \/ (ChooseVictim(t) /\ order = <<>>) \/ (Hit(t) /\ ~InRam(req[t].page))
    BY <2>8, <2>18 DEF Fetch, Evict, ChooseVictim, Hit
  <2> QED
    BY <1>3, <2>6, <2>7, <2>10, <2>11, <2>12, <2>13, <2>14, <2>15, <2>16, <2>17, <2>18 DEF SimStep
<1>4. CASE UNCHANGED simVars
  BY <1>2, <1>4 DEF simVars, Held
<1> QED
  BY <1>3, <1>4 DEF SimNext

(* However the calls interleave, a page once allocated is somewhere, unless*)
(* a call raised an exception while it held it.                            *)
THEOREM NothingLost == SimSpec => []LostOnlyByException
<1>1. SimInit => LostOnlyByException
  BY DEF SimInit, LostOnlyByException
<1> QED
  BY <1>1, InvInit, InvStep, LostStep, PTL DEF SimSpec

-----------------------------------------------------------------------------
(* Calls one after the other.  While no two calls have overlapped, at most *)
(* one thread t is in a call, and what it sees stays so until it acts: the *)
(* places where a page is agree on its content, but for the backup of the  *)
(* page that is being written.                                             *)
OthersIdle(t) == \A u \in Threads \ {t} : pc[u] = "idle"

Fetched(t, p) == fetched[t].page = p /\ fetched[t].content # None
Evicted(t, p) == evicted[t].page = p /\ evicted[t].content # None

Agree(t, p) ==
  /\ InRam(p) /\ OnDisk(p) => ram[p] = disk[p] \/ (pc[t] = "backup" /\ req[t].page = p)
  /\ Fetched(t, p) => /\ InRam(p) => ram[p] = fetched[t].content
                      /\ OnDisk(p) => disk[p] = fetched[t].content
  /\ Evicted(t, p) => /\ ~InRam(p)
                      /\ OnDisk(p) => disk[p] = evicted[t].content
                      /\ Fetched(t, p) => fetched[t].content = evicted[t].content

Target(t) == IF req[t].call = "read" THEN fetched[t].page ELSE req[t].page

Places(t) ==
  /\ Len(order) <= RamCap
  /\ pc[t] = "victim" => order # <<>>
  /\ pc[t] = "save" => Len(order) < RamCap
  /\ pc[t] = "put" => Len(order) < RamCap \/ InRam(Target(t))
  /\ pc[t] = "evict" => InRam(evicted[t].page)
  /\ pc[t] = "fetch" => OnDisk(fetched[t].page)
  /\ pc[t] = "backup" => ram[req[t].page] = req[t].content

Solo(t) == Places(t) /\ \A p \in Pages : Agree(t, p)

(* The content of a page when only t may hold it.                          *)
StoreOf(t, p) ==
  IF InRam(p) THEN ram[p] ELSE IF OnDisk(p) THEN disk[p]
  ELSE IF fetched[t].page = p THEN fetched[t].content
  ELSE IF evicted[t].page = p THEN evicted[t].content ELSE None

Sequential ==
  ~overlap => \A t \in Threads : /\ pc[t] # "idle" => OthersIdle(t)
                                 /\ OthersIdle(t) => Solo(t)

LEMMA StoreIs ==
  ASSUME SimInv, NEW t \in Threads, OthersIdle(t)
  PROVE  Store = [p \in Pages |-> StoreOf(t, p)]
<1>1. \A u \in Threads \ {t} : fetched[u].page = None /\ evicted[u].page = None
  BY DEF OthersIdle, SimInv, ThreadsOK, Shape, ShapeOf
<1>2. ASSUME NEW p \in Pages
      PROVE  /\ (\E u \in Threads : fetched[u].page = p) <=> fetched[t].page = p
             /\ (\E u \in Threads : evicted[u].page = p) <=> evicted[t].page = p
             /\ fetched[t].page = p => (CHOOSE u \in Threads : fetched[u].page = p) = t
             /\ evicted[t].page = p => (CHOOSE u \in Threads : evicted[u].page = p) = t
  <2>1. p # None
    BY NoneAssumption
  <2> QED
    BY <1>1, <2>1
<1> QED
  BY <1>2 DEF Store, StoreOf

(* What a step of t in a call of its own does to what it relies on.        *)
LEMMA SoloStep ==
  ASSUME SimInv, NEW t \in Threads, Solo(t), SimStep(t), ~PutAlloc(t)
  PROVE  Solo(t)' /\ \A p \in Pages : StoreOf(t, p)' = StoreOf(t, p)
<1> USE NoneAssumption, RamCapAssumption
<1> DEFINE Goal == Solo(t)' /\ \A p \in Pages : StoreOf(t, p)' = StoreOf(t, p)
<1>t. /\ pc \in [Threads -> Labels] /\ req \in [Threads -> Calls]
      /\ fetched \in [Threads -> Popped] /\ evicted \in [Threads -> Popped]
      /\ fetched[t] \in Popped /\ evicted[t] \in Popped /\ req[t] \in Calls
      /\ ShapeOf(pc[t], req[t], fetched[t], evicted[t])
      /\ ram \in [Pages -> Contents \cup {None}] /\ disk \in [Pages -> Contents \cup {None}]
      /\ order \in Seq(Pages) /\ Len(order) \in Nat /\ \A p \in Pages : InRam(p) <=> p \in Range(order)
  BY DEF SimInv, ThreadsOK, RamOK, Shape
<1>s. Places(t) /\ \A p \in Pages : Agree(t, p)
  BY DEF Solo
<1>0. PICK l, r, f, e : Good(t, l, r, f, e)
  BY MoveOf
<1>m. /\ pc'[t] = l /\ req'[t] = r /\ fetched'[t] = f /\ evicted'[t] = e
      /\ ShapeOf(l, r, f, e)
  BY <1>0, MovesKeeps DEF Good, SimInv
(* A step that moves only the thread: its pages lose no content.           *)
<1>1. ASSUME UNCHANGED <<ram, order, disk>>, Places(t)', pc[t] # "backup",
             f.content = fetched[t].content, e.content = evicted[t].content,
             f.content # None => f.page = fetched[t].page, e.content # None => e.page = evicted[t].page,
             f.content = None => f.page = None \/ OnDisk(f.page),
             e.content = None => e.page = None \/ InRam(e.page),
             fetched[t].content = None => fetched[t].page = None \/ OnDisk(fetched[t].page),
             evicted[t].content = None => evicted[t].page = None \/ InRam(evicted[t].page)
      PROVE  Goal
  <2>1. ASSUME NEW p \in Pages PROVE Agree(t, p)'
    BY <1>s, <1>m, <1>1 DEF Agree, Fetched, Evicted, InRam, OnDisk
  <2>2. ASSUME NEW p \in Pages PROVE StoreOf(t, p)' = StoreOf(t, p)
    BY <1>m, <1>1 DEF StoreOf, InRam, OnDisk
  <2> QED
    BY <1>1, <2>1, <2>2 DEF Solo
<1>2. ASSUME Done(t), UNCHANGED <<ram, order, disk>>, pc[t] \in {"free", "hit", "search"} PROVE Goal
  <2>1. f = Nothing /\ e = Nothing /\ l = "idle"
    BY <1>t, <1>m, <1>2 DEF Done, Goto
  <2>2. Places(t)'
    BY <1>s, <1>m, <1>2, <2>1 DEF Places
  <2> QED
    BY <1>1, <1>2, <1>t, <2>1, <2>2 DEF ShapeOf, Nothing
<1>3. CASE LookAlloc(t) \/ LookRead(t) \/ Room(t)
  <2>1. /\ UNCHANGED <<ram, order, disk, req, fetched, evicted>> /\ pc[t] \in {"alloc", "read", "room"}
        /\ l \in {"put", "room", "hit", "look_disk", "victim"}
        /\ l = "victim" => Len(order) >= RamCap
        /\ l = "put" => Len(order) < RamCap \/ (req[t].call = "alloc" /\ InRam(req[t].page))
    BY <1>t, <1>m, <1>3 DEF LookAlloc, LookRead, Room, Branch, Goto, ShapeOf
  <2>2. Len(order) >= RamCap => order # <<>>
    BY <1>t
  <2>3. Places(t)'
    BY <1>s, <1>m, <2>1, <2>2 DEF Places, Target, InRam
  <2> QED
    BY <1>1, <1>m, <1>t, <2>1, <2>3 DEF ShapeOf
<1>4. CASE LookFree(t)
  <2>1. CASE InRam(req[t].page)
    <3>1. UNCHANGED <<ram, order, disk, req, fetched>> /\ pc[t] = "free" /\ l = "evict"
          /\ e.page = req[t].page /\ e.content = None
      BY <1>t, <1>m, <1>4, <2>1 DEF LookFree, Goto, ShapeOf, Popped
    <3>2. Places(t)'
      BY <1>s, <1>m, <2>1, <3>1 DEF Places, InRam
    <3> QED
      BY <1>1, <1>m, <1>t, <2>1, <3>1, <3>2 DEF ShapeOf
  <2>2. CASE ~InRam(req[t].page)
    BY <1>2, <1>4, <2>2 DEF LookFree
  <2> QED
    BY <2>1, <2>2
<1>5. CASE ChooseVictim(t)
  <2>1. UNCHANGED <<ram, order, disk, req, fetched>> /\ pc[t] = "victim" /\ l = "evict"
        /\ e.page = Head(order) /\ e.content = None /\ order # <<>>
    BY <1>s, <1>t, <1>m, <1>5 DEF ChooseVictim, Goto, ShapeOf, Popped, Places
  <2>2. InRam(Head(order))
    BY <1>t, <2>1, TailOf
  <2>3. Places(t)'
    BY <1>s, <1>m, <2>1, <2>2 DEF Places, InRam
  <2> QED
    BY <1>1, <1>m, <1>t, <2>1, <2>2, <2>3 DEF ShapeOf
<1>6. ASSUME LookDisk(t) \/ \E p \in Pages : Find(t, p) PROVE Goal
  <2>1. /\ UNCHANGED <<ram, order, disk, req, evicted>> /\ pc[t] \in {"look_disk", "search"}
        /\ \/ l = "search" /\ fetched' = fetched
           \/ /\ l = "fetch"
              /\ \E p \in Pages : OnDisk(p) /\ fetched' = [fetched EXCEPT ![t].page = p]
    BY <1>t, <1>m, <1>6, Holds DEF LookDisk, Find, Goto
  <2>2. f.content = fetched[t].content /\ f.content = None /\ (l = "fetch" => OnDisk(f.page))
    BY <1>t, <1>m, <2>1 DEF ShapeOf, Popped
  <2>3. Places(t)'
    BY <1>s, <1>m, <2>1, <2>2 DEF Places, OnDisk
  <2>4. e = evicted[t] /\ e.content = None /\ e.page = None /\ fetched[t].page = None
    BY <1>t, <1>m, <2>1 DEF ShapeOf
  <2>5. f.page = None \/ OnDisk(f.page)
    BY <1>m, <2>1, <2>2, <2>4
  <2> QED
    BY <1>1, <2>1, <2>2, <2>3, <2>4, <2>5
<1>7. CASE FindNothing(t)
  BY <1>2, <1>7 DEF FindNothing
<1>8. CASE Hit(t)
  BY <1>2, <1>8 DEF Hit, Raise
<1>9. ASSUME Evict(t) PROVE Goal
  <2> DEFINE v == evicted[t].page
  <2>1. /\ v \in Pages /\ InRam(v) /\ ram' = [ram EXCEPT ![v] = None] /\ order' = Without(order, v)
        /\ evicted' = [evicted EXCEPT ![t].content = ram[v]] /\ l = "save" /\ pc[t] = "evict"
        /\ UNCHANGED <<disk, req, fetched>>
    BY <1>t, <1>s, <1>m, <1>9, Holds DEF Evict, Goto, Places
  <2>2. /\ Len(order') = Len(order) - 1 /\ \A p \in Pages : ram'[p] = IF p = v THEN None ELSE ram[p]
    BY <2>1, RamEvicted DEF SimInv
  <2>3. e.page = v /\ e.content = ram[v] /\ e.content # None /\ f = fetched[t]
    BY <1>t, <1>m, <2>1 DEF Popped, InRam
  <2>4. Len(order') < RamCap /\ Len(order') <= RamCap
    BY <1>t, <1>s, <2>2 DEF Places
  <2>5. Places(t)'
    BY <1>m, <2>1, <2>4 DEF Places
  <2>6. ASSUME NEW p \in Pages PROVE Agree(t, p)'
    BY <1>s, <1>m, <2>1, <2>2, <2>3, <2>6 DEF Agree, Fetched, Evicted, InRam, OnDisk
  <2>7. ASSUME NEW p \in Pages PROVE StoreOf(t, p)' = StoreOf(t, p)
    <3>1. fetched[t].page = p => fetched[t].content # None
      BY <1>t, <2>1, <2>7 DEF ShapeOf
    <3> QED
      BY <1>s, <1>m, <2>1, <2>2, <2>3, <2>7, <3>1 DEF Agree, Fetched, StoreOf, InRam, OnDisk
  <2> QED
    BY <2>5, <2>6, <2>7 DEF Solo
<1>10. ASSUME Save(t) PROVE Goal
  <2> DEFINE v == evicted[t].page  c == evicted[t].content
  <2>1. /\ v \in Pages /\ c \in Contents /\ c # None /\ disk' = [disk EXCEPT ![v] = c] /\ pc[t] = "save"
        /\ UNCHANGED <<ram, order>> /\ Evicted(t, v)
    BY <1>t, <1>10, Holds DEF Save, Evicted
  <2>2. \A p \in Pages : disk'[p] = IF p = v THEN c ELSE disk[p]
    BY <1>t, <2>1
  <2>3. /\ e = Nothing
        /\ \/ l = "idle" /\ f = Nothing /\ fetched[t].content = None
           \/ l = "put" /\ f = fetched[t] /\ UNCHANGED req
    BY <1>t, <1>m, <1>10 DEF Save, Done, Goto, ShapeOf
  <2>4. Places(t)'
    BY <1>s, <1>m, <2>1, <2>3 DEF Places, Target
  <2>5. ASSUME NEW p \in Pages PROVE Agree(t, p)'
    BY <1>s, <1>m, <2>1, <2>2, <2>3, <2>5 DEF Agree, Fetched, Evicted, InRam, OnDisk, Nothing
  <2>6. ASSUME NEW p \in Pages PROVE StoreOf(t, p)' = StoreOf(t, p)
    <3>1. fetched[t].page = p => fetched[t].content # None
      BY <1>t, <2>1, <2>6 DEF ShapeOf
    <3>2. p # None
      OBVIOUS
    <3> QED
      BY <1>s, <1>m, <2>1, <2>2, <2>3, <2>6, <3>1, <3>2
      DEF Agree, Fetched, Evicted, StoreOf, InRam, OnDisk, Nothing
  <2> QED
    BY <2>4, <2>5, <2>6 DEF Solo
<1>11. ASSUME PutRead(t) PROVE Goal
  <2> DEFINE v == fetched[t].page  c == fetched[t].content
  <2>1. /\ v \in Pages /\ c \in Contents /\ c # None /\ AssignRam(v, c) /\ Fetched(t, v)
        /\ disk' = disk /\ f = Nothing /\ e = Nothing /\ l = "idle" /\ pc[t] = "put"
        /\ req[t].call = "read" /\ evicted[t].page = None
    BY <1>t, <1>m, <1>11, Holds DEF PutRead, Done, Goto, Fetched, ShapeOf
  <2>2. /\ Len(order') = IF InRam(v) THEN Len(order) ELSE Len(order) + 1
        /\ \A p \in Pages : ram'[p] = IF p = v THEN c ELSE ram[p]
    BY <2>1, RamAssigned DEF SimInv
  <2>3. Places(t)'
    BY <1>s, <1>t, <1>m, <2>1, <2>2 DEF Places, Target
  <2>4. ASSUME NEW p \in Pages PROVE Agree(t, p)'
    BY <1>s, <1>m, <2>1, <2>2, <2>4 DEF Agree, Fetched, Evicted, InRam, OnDisk, Nothing
  <2>5. ASSUME NEW p \in Pages PROVE StoreOf(t, p)' = StoreOf(t, p)
    BY <1>s, <1>m, <2>1, <2>2, <2>5 DEF Agree, Fetched, StoreOf, InRam, OnDisk, Nothing
  <2> QED
    BY <2>3, <2>4, <2>5 DEF Solo
<1>12. ASSUME Backup(t) PROVE Goal
  <2> DEFINE v == req[t].page  c == req[t].content
  <2>1. /\ v \in Pages /\ c \in Contents /\ disk' = [disk EXCEPT ![v] = c] /\ pc[t] = "backup"
        /\ UNCHANGED <<ram, order>> /\ f = Nothing /\ e = Nothing /\ l = "idle" /\ ram[v] = c
        /\ fetched[t].page = None /\ evicted[t].page = None
    BY <1>t, <1>s, <1>m, <1>12 DEF Backup, Done, Goto, ShapeOf, Places
  <2>2. \A p \in Pages : disk'[p] = IF p = v THEN c ELSE disk[p]
    BY <1>t, <2>1
  <2>3. Places(t)'
    BY <1>s, <1>m, <2>1 DEF Places
  <2>4. ASSUME NEW p \in Pages PROVE Agree(t, p)'
    BY <1>s, <1>m, <2>1, <2>2, <2>4 DEF Agree, Fetched, Evicted, InRam, OnDisk, Nothing
  <2>5. ASSUME NEW p \in Pages PROVE StoreOf(t, p)' = StoreOf(t, p)
    BY <1>s, <1>m, <2>1, <2>2, <2>5 DEF StoreOf, InRam, OnDisk, Nothing
  <2> QED
    BY <2>3, <2>4, <2>5 DEF Solo
<1>13. ASSUME Fetch(t) PROVE Goal
  <2> DEFINE v == fetched[t].page
  <2>1. /\ v \in Pages /\ OnDisk(v) /\ disk' = [disk EXCEPT ![v] = None] /\ pc[t] = "fetch"
        /\ fetched' = [fetched EXCEPT ![t].content = disk[v]] /\ l = "room"
        /\ UNCHANGED <<ram, order, req, evicted>>
    BY <1>t, <1>s, <1>m, <1>13, Holds DEF Fetch, Goto, Places
  <2>2. \A p \in Pages : disk'[p] = IF p = v THEN None ELSE disk[p]
    BY <1>t, <2>1
  <2>3. f.page = v /\ f.content = disk[v] /\ f.content # None /\ e = evicted[t] /\ e.page = None
        /\ e.content = None
    BY <1>t, <1>m, <2>1 DEF Popped, OnDisk, ShapeOf
  <2>4. Places(t)'
    BY <1>s, <1>m, <2>1 DEF Places
  <2>5. ASSUME NEW p \in Pages PROVE Agree(t, p)'
    BY <1>s, <1>m, <2>1, <2>2, <2>3, <2>5 DEF Agree, Fetched, Evicted, InRam, OnDisk
  <2>6. ASSUME NEW p \in Pages PROVE StoreOf(t, p)' = StoreOf(t, p)
    BY <1>s, <1>m, <2>1, <2>2, <2>3, <2>6 DEF Agree, StoreOf, InRam, OnDisk
  <2> QED
    BY <2>4, <2>5, <2>6 DEF Solo
<1> QED
  BY <1>3, <1>4, <1>5, <1>6, <1>7, <1>8, <1>9, <1>10, <1>11, <1>12, <1>13 DEF SimStep

(* The one step that changes what a page holds.                            *)
LEMMA SoloWrite ==
  ASSUME SimInv, NEW t \in Threads, Solo(t), PutAlloc(t)
  PROVE  /\ Solo(t)' /\ req[t].page \in Pages /\ req[t].content \in Contents
         /\ \A p \in Pages :
              StoreOf(t, p)' = IF p = req[t].page THEN req[t].content ELSE StoreOf(t, p)
<1> USE NoneAssumption
<1> DEFINE v == req[t].page  c == req[t].content
<1>1. /\ ShapeOf(pc[t], req[t], fetched[t], evicted[t]) /\ Places(t) /\ \A p \in Pages : Agree(t, p)
      /\ pc \in [Threads -> Labels] /\ Len(order) \in Nat
  BY DEF SimInv, ThreadsOK, RamOK, Shape, Solo
<1>2. /\ v \in Pages /\ c \in Contents /\ c # None /\ AssignRam(v, c) /\ pc'[t] = "backup" /\ pc[t] = "put"
      /\ UNCHANGED <<disk, req, fetched, evicted>> /\ req[t].call = "alloc"
  BY <1>1, Holds DEF PutAlloc, Goto
<1>3. fetched[t].page = None /\ evicted[t].page = None
  BY <1>1, <1>2 DEF ShapeOf
<1>4. /\ Len(order') = IF InRam(v) THEN Len(order) ELSE Len(order) + 1
      /\ \A p \in Pages : ram'[p] = IF p = v THEN c ELSE ram[p]
  BY <1>2, RamAssigned DEF SimInv
<1>5. Places(t)'
  BY <1>1, <1>2, <1>4, RamCapAssumption DEF Places, Target
<1>6. ASSUME NEW p \in Pages PROVE Agree(t, p)'
  BY <1>1, <1>2, <1>3, <1>4, <1>6 DEF Agree, Fetched, Evicted, InRam, OnDisk
<1>7. ASSUME NEW p \in Pages PROVE StoreOf(t, p)' = IF p = v THEN c ELSE StoreOf(t, p)
  BY <1>2, <1>3, <1>4, <1>7 DEF StoreOf, InRam, OnDisk
<1> QED
  BY <1>2, <1>5, <1>6, <1>7 DEF Solo

(* A call ends without an exception, and an allocation when its page has   *)
(* the content it wrote.                                                   *)
LEMMA SoloReturn ==
  ASSUME SimInv, NEW t \in Threads, Solo(t), SimStep(t)
  PROVE  \/ req' = req
         \/ /\ req' = [req EXCEPT ![t] = NoCall] /\ req[t].call # "none"
            /\ req[t].call = "alloc" => ram[req[t].page] = req[t].content
<1> DEFINE Goal == \/ req' = req
                   \/ /\ req' = [req EXCEPT ![t] = NoCall] /\ req[t].call # "none"
                      /\ req[t].call = "alloc" => ram[req[t].page] = req[t].content
<1>1. ShapeOf(pc[t], req[t], fetched[t], evicted[t]) /\ Places(t)
  BY DEF SimInv, ThreadsOK, Shape, Solo
<1>2. ASSUME pc[t] \in {"free", "hit", "search"}, Done(t) PROVE Goal
  BY <1>1, <1>2 DEF Done, ShapeOf
<1>3. CASE LookAlloc(t) \/ LookRead(t) \/ Room(t) \/ PutAlloc(t) \/ LookDisk(t) \/ \E p \in Pages : Find(t, p)
  BY <1>3 DEF LookAlloc, LookRead, Room, Branch, PutAlloc, LookDisk, Find
<1>4. CASE LookFree(t) \/ FindNothing(t) \/ Hit(t)
  BY <1>2, <1>4 DEF LookFree, FindNothing, Hit, Raise
<1>5. CASE ChooseVictim(t) \/ Evict(t) \/ Fetch(t)
  BY <1>1, <1>5 DEF ChooseVictim, Evict, Fetch, Places
<1>6. CASE Save(t) \/ PutRead(t)
  BY <1>1, <1>6 DEF Save, PutRead, Done, ShapeOf
<1>7. CASE Backup(t)
  BY <1>1, <1>7 DEF Backup, Done, Places, ShapeOf
<1> QED
  BY <1>3, <1>4, <1>5, <1>6, <1>7 DEF SimStep

-----------------------------------------------------------------------------
SeqInv == SimInv /\ Sequential /\ (~overlap => Len(order) <= RamCap)

LEMMA StoreIsNext ==
  ASSUME NEW t \in Threads
  PROVE  SimInv' /\ OthersIdle(t)' => Store' = [p \in Pages |-> StoreOf(t, p)']
<1> DEFINE F == SimInv /\ OthersIdle(t) => Store = [p \in Pages |-> StoreOf(t, p)]
<1>1. F
  BY StoreIs
<1> HIDE DEF F
<1>2. F'
  BY <1>1, PTL
<1> QED
  BY <1>2 DEF F

(* A step that leaves no overlap behind is that of the only thread, and a  *)
(* step of the abstract store or none.                                     *)
LEMMA AloneStep ==
  ASSUME SeqInv, ~overlap', NEW t \in Threads, SimCall(t) \/ SimStep(t)
  PROVE  /\ Sequential' /\ Len(order')  <= RamCap
         /\ UNCHANGED <<Store, req>> \/ PS!Next
<1>0. SimInv /\ SimInv'
  BY InvStep DEF SeqInv, SimNext
<1>1. ~overlap /\ OthersIdle(t)
  <2>1. CASE SimCall(t)
    <3>1. overlap' = (overlap \/ \E u \in Threads : pc[u] # "idle")
      BY <2>1 DEF SimCall, MemAlloc, MemRead, MemFree, Call
    <3> QED
      BY <3>1 DEF OthersIdle
  <2>2. CASE SimStep(t)
    <3>1. overlap' = overlap
      BY <2>2 DEF SimStep, LookAlloc, LookRead, Room, Branch, LookFree, ChooseVictim, Evict, Save, PutAlloc,
                  Backup, Hit, LookDisk, Find, FindNothing, Fetch, PutRead, Raise
    <3>2. pc[t] # "idle"
      BY <2>2 DEF SimStep, LookAlloc, LookRead, Room, Branch, LookFree, ChooseVictim, Evict, Save, PutAlloc,
                  Backup, Hit, LookDisk, Find, FindNothing, Fetch, PutRead
    <3> QED
      BY <3>1, <3>2 DEF SeqInv, Sequential
  <2> QED
    BY <2>1, <2>2
<1>2. Solo(t)
  BY <1>1 DEF SeqInv, Sequential
<1>3. PICK l, r, f, e : Good(t, l, r, f, e)
  BY <1>0, MoveOf
<1>4. OthersIdle(t)'
  BY <1>0, <1>1, <1>3, MovesKeeps DEF OthersIdle, Good, SimInv
<1>5. Store = [p \in Pages |-> StoreOf(t, p)]
  BY <1>0, <1>1, StoreIs
<1>6. Store' = [p \in Pages |-> StoreOf(t, p)']
  BY <1>0, <1>4, StoreIsNext
<1>a. ASSUME Solo(t)' PROVE Sequential' /\ Len(order') <= RamCap
  <2>1. Len(order') <= RamCap
    BY <1>a DEF Solo, Places
  <2>2. ASSUME NEW u \in Threads, pc'[u] # "idle" PROVE OthersIdle(u)'
    BY <1>4, <2>2 DEF OthersIdle
  <2>3. ASSUME NEW u \in Threads \ {t}, OthersIdle(u)' PROVE Solo(u)'
    <3>1. pc'[u] = "idle" /\ pc'[t] = "idle"
      BY <1>4, <2>3 DEF OthersIdle
    <3>2. fetched'[u].content = None /\ evicted'[u].content = None
      BY <1>0, <3>1 DEF SimInv, ThreadsOK, Shape, ShapeOf
    <3> QED
      BY <1>a, <3>1, <3>2 DEF Solo, Places, Agree, Fetched, Evicted, InRam, OnDisk
  <2> QED
    BY <1>a, <2>1, <2>2, <2>3 DEF Sequential
<1>7. CASE SimStep(t) /\ ~PutAlloc(t)
  <2>1. Solo(t)' /\ \A p \in Pages : StoreOf(t, p)' = StoreOf(t, p)
    BY <1>0, <1>2, <1>7, SoloStep
  <2>2. Store' = Store
    BY <1>5, <1>6, <2>1
  <2>3. CASE req' = req
    BY <1>a, <2>1, <2>2, <2>3
  <2>4. CASE /\ req' = [req EXCEPT ![t] = NoCall] /\ req[t].call # "none"
             /\ req[t].call = "alloc" => ram[req[t].page] = req[t].content
    <3>1. ASSUME req[t] \in PS!Allocs PROVE PS!Written(req[t])
      <4>1. /\ req[t].call = "alloc" /\ req[t].page \in Pages /\ req[t].content \in Contents
        BY <3>1 DEF PS!Allocs
      <4>2. InRam(req[t].page) /\ ram[req[t].page] = req[t].content
        BY <2>4, <4>1, NoneAssumption DEF InRam
      <4>3. Store[req[t].page] = req[t].content
        BY <1>5, <4>1, <4>2 DEF StoreOf
      <4> QED
        BY <4>3 DEF PS!Written
    <3>2. req[t] # PS!NoCall /\ req' = [req EXCEPT ![t] = PS!NoCall]
      BY <2>4 DEF PS!NoCall, NoCall
    <3>3. PS!Return(t)
      BY <2>2, <3>1, <3>2 DEF PS!Return
    <3> QED
      BY <1>a, <2>1, <3>3 DEF PS!Next
  <2> QED
    BY <1>0, <1>2, <1>7, <2>3, <2>4, SoloReturn
<1>8. CASE PutAlloc(t)
  <2> DEFINE v == req[t].page  c == req[t].content
  <2>1. /\ Solo(t)' /\ v \in Pages /\ c \in Contents
        /\ \A p \in Pages : StoreOf(t, p)' = IF p = v THEN c ELSE StoreOf(t, p)
    BY <1>0, <1>2, <1>8, SoloWrite
  <2>2. Store' = [Store EXCEPT ![v] = c]
    BY <1>5, <1>6, <2>1
  <2>3. req[t] \in PS!Allocs /\ req' = req
    BY <1>0, <1>8, <2>1 DEF PutAlloc, PS!Allocs, SimInv, ThreadsOK, Calls
  <2>4. PS!Write(t)
    BY <2>2, <2>3 DEF PS!Write
  <2> QED
    BY <1>a, <2>1, <2>4 DEF PS!Next
<1>9. CASE SimCall(t)
  <2>1. /\ UNCHANGED <<ram, order, disk, fetched, evicted>> /\ pc[t] = "idle"
        /\ \E k \in {"alloc", "read", "free"} : pc' = [pc EXCEPT ![t] = k]
    BY <1>9 DEF SimCall, MemAlloc, MemRead, MemFree, Call, Goto
  <2>2. pc'[t] \in {"alloc", "read", "free"}
    BY <1>0, <2>1 DEF SimInv, ThreadsOK
  <2>3. Solo(t)'
    BY <1>2, <2>1, <2>2 DEF Solo, Places, Agree, Fetched, Evicted, InRam, OnDisk
  <2>4. Store' = Store
    BY <1>5, <1>6, <2>1 DEF StoreOf, InRam, OnDisk
  <2>5. \E q \in PS!Allocs \cup PS!Others : req' = [req EXCEPT ![t] = q]
    <3>1. ASSUME NEW p \in Pages, NEW c \in Contents PROVE [call |-> "alloc", page |-> p, content |-> c] \in PS!Allocs
      BY DEF PS!Allocs
    <3>2. ASSUME NEW p \in Pages, NEW k \in {"read", "free"}
          PROVE  [call |-> k, page |-> p, content |-> None] \in PS!Others
      BY DEF PS!Others
    <3> QED
      BY <1>9, <3>1, <3>2 DEF SimCall, MemAlloc, MemRead, MemFree, Call
  <2>6. req[t] = PS!NoCall
    BY <1>0, <2>1 DEF SimInv, ThreadsOK, Shape, ShapeOf, PS!NoCall, NoCall
  <2>7. PS!Begin(t)
    BY <2>4, <2>5, <2>6 DEF PS!Begin
  <2> QED
    BY <1>a, <2>3, <2>7 DEF PS!Next
<1> QED
  BY <1>7, <1>8, <1>9

LEMMA SeqStep == SeqInv /\ [SimNext]_simVars => SeqInv'
<1> SUFFICES ASSUME SeqInv, [SimNext]_simVars PROVE SeqInv'
  OBVIOUS
<1>1. SimInv'
  BY InvStep DEF SeqInv
<1>2. ASSUME ~overlap' PROVE Sequential' /\ Len(order') <= RamCap
  <2>1. CASE SimNext
    BY <1>2, <2>1, AloneStep DEF SimNext
  <2>2. CASE UNCHANGED simVars
    BY <1>2, <2>2 DEF simVars, SeqInv, Sequential, OthersIdle, Solo, Places, Target, Agree, Fetched, Evicted,
                      InRam, OnDisk
  <2> QED
    BY <2>1, <2>2
<1> QED
  BY <1>1, <1>2 DEF SeqInv, Sequential

LEMMA SeqInit == SimInit => SeqInv
<1> SUFFICES ASSUME SimInit PROVE SeqInv
  OBVIOUS
<1>1. Len(order) = 0 /\ Len(order) <= RamCap
  BY RamCapAssumption DEF SimInit
<1>2. ASSUME NEW t \in Threads PROVE OthersIdle(t) /\ Solo(t)
  BY <1>1 DEF SimInit, OthersIdle, Solo, Places, Agree, Fetched, Evicted, InRam, OnDisk, Nothing
<1> QED
  BY <1>1, <1>2, InvInit DEF SeqInv, Sequential

(* RAM exceeds its capacity only after two calls have overlapped.          *)
THEOREM OverfullExplained == SimSpec => []OverfullHasCause
<1>1. SeqInv => OverfullHasCause
  <2> SUFFICES ASSUME SeqInv PROVE OverfullHasCause
    OBVIOUS
  <2>1. Len(order) \in Nat
    BY DEF SeqInv, SimInv, RamOK
  <2> QED
    BY <2>1, RamCapAssumption DEF SeqInv, OverfullHasCause
<1> QED
  BY <1>1, SeqInit, SeqStep, PTL DEF SimSpec

(* Calls one after the other implement the abstract store: until two calls *)
(* overlap the only step that changes a content is that of the allocation  *)
(* under way, which writes what it was called with, and no allocation      *)
(* returns without having written.                                         *)
THEOREM ImplementsStore == SimSpec => SequentialStore
<1>1. SimInit => PS!Init
  <2> SUFFICES ASSUME SimInit PROVE Store = [p \in Pages |-> None]
    BY DEF PS!Init, SimInit, PS!NoCall, NoCall
  <2>1. ASSUME NEW p \in Pages
        PROVE  /\ ~InRam(p) /\ ~OnDisk(p)
               /\ \A t \in Threads : fetched[t].page # p /\ evicted[t].page # p
    BY <2>1, NoneAssumption DEF SimInit, InRam, OnDisk, Nothing
  <2> QED
    BY <2>1 DEF Store
<1>2. SeqInv /\ [SimNext]_simVars => [overlap' \/ PS!Next]_<<Store, req, overlap>>
  <2> SUFFICES ASSUME SeqInv, [SimNext]_simVars, ~overlap'
               PROVE  [PS!Next]_<<Store, req, overlap>>
    OBVIOUS
  <2>1. CASE SimNext
    <3>1. ~overlap
      BY <2>1 DEF SimNext, SimCall, MemAlloc, MemRead, MemFree, Call, SimStep, LookAlloc, LookRead, Room, Branch,
                  LookFree, ChooseVictim, Evict, Save, PutAlloc, Backup, Hit, LookDisk, Find, FindNothing,
                  Fetch, PutRead, Raise
    <3>2. UNCHANGED <<Store, req>> \/ PS!Next
      BY <2>1, AloneStep DEF SimNext
    <3>3. overlap \in BOOLEAN /\ overlap' \in BOOLEAN
      BY InvStep DEF SeqInv, SimInv
    <3> QED
      BY <3>1, <3>2, <3>3
  <2>2. CASE UNCHANGED simVars
    <3>1. UNCHANGED <<ram, disk, fetched, evicted, req, overlap>>
      BY <2>2 DEF simVars
    <3> QED
      BY <3>1 DEF Store, InRam, OnDisk
  <2> QED
    BY <2>1, <2>2
<1> QED
  BY <1>1, <1>2, SeqInit, SeqStep, PTL DEF SimSpec, SequentialStore
=============================================================================
