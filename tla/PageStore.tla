------------------------------ MODULE PageStore -----------------------------
(***************************************************************************)
(* What a paged memory with a disk promises its callers: a page holds what *)
(* the last mem_alloc of it wrote, wherever the page is kept.  Only an     *)
(* alloc that is under way writes, its own content to its own page, and it *)
(* has written when it returns; reads, explicit page-outs and whatever     *)
(* they evict or fetch leave every content alone.                          *)
(***************************************************************************)
CONSTANTS Threads, Pages, Contents, None

VARIABLES
  store,  \* the content of each page, None before the first
  open    \* the call each thread has under way

NoCall  == [call |-> "none", page |-> None, content |-> None]
Allocs  == [call : {"alloc"}, page : Pages, content : Contents]
Others  == [call : {"read", "free"}, page : Pages, content : {None}]

Written(r) == store[r.page] = r.content

Init ==
  /\ store = [p \in Pages |-> None]
  /\ open = [t \in Threads |-> NoCall]

Begin(t) ==
  /\ open[t] = NoCall
  /\ \E r \in Allocs \cup Others : open' = [open EXCEPT ![t] = r]
  /\ UNCHANGED store

Write(t) ==
  /\ open[t] \in Allocs
  /\ store' = [store EXCEPT ![open[t].page] = open[t].content]
  /\ UNCHANGED open

Return(t) ==
  /\ open[t] # NoCall
  /\ open[t] \in Allocs => Written(open[t])
  /\ open' = [open EXCEPT ![t] = NoCall]
  /\ UNCHANGED store

Next == \E t \in Threads : Begin(t) \/ Write(t) \/ Return(t)
=============================================================================
