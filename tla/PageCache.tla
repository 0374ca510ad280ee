------------------------------ MODULE PageCache ------------------------------
(***************************************************************************)
(* What a page table promises its callers, whatever the policy: a cache    *)
(* of at most Frames pages.  A put of a cached page replaces its content;  *)
(* a put of another page into a full cache drops exactly one page, and     *)
(* names it to the caller; nothing else loses or changes a page.           *)
(***************************************************************************)
EXTENDS Integers, FiniteSets

CONSTANTS Pages, Contents, None, Frames

VARIABLES cache,   \* cache[p]: the content of p, None when p is not cached
          dropped  \* the page the last put dropped, -1 when it dropped none

Cached == {p \in Pages : cache[p] # None}

Init == /\ cache = [p \in Pages |-> None]
        /\ dropped = -1

Replace(p, c) ==
  /\ p \in Cached
  /\ cache' = [cache EXCEPT ![p] = c]
  /\ dropped' = -1

Add(p, c) ==
  /\ p \notin Cached
  /\ Cardinality(Cached) < Frames
  /\ cache' = [cache EXCEPT ![p] = c]
  /\ dropped' = -1

Exchange(p, v, c) ==
  /\ p \notin Cached
  /\ v \in Cached
  /\ Cardinality(Cached) = Frames
  /\ cache' = [cache EXCEPT ![v] = None, ![p] = c]
  /\ dropped' = v

Drop(p) ==
  /\ p \in Cached
  /\ cache' = [cache EXCEPT ![p] = None]
  /\ UNCHANGED dropped

Next ==
  \E p \in Pages :
    \/ Drop(p)
    \/ \E c \in Contents :
         \/ Replace(p, c)
         \/ Add(p, c)
         \/ \E v \in Pages : Exchange(p, v, c)

Spec == Init /\ [][Next]_<<cache, dropped>>
=============================================================================
