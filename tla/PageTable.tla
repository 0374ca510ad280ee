----------------------------- MODULE PageTable -----------------------------
(***************************************************************************)
(* The kernel's page table (kernel/page_table.h): a bounded set of         *)
(* resident pages, an arrival-ordered ring, and one auxiliary structure    *)
(* per replacement policy.  Every public operation holds mtx_ from its     *)
(* first line to its last, so each is one action here.                     *)
(*                                                                         *)
(* Abstracted: frame_id and dirty are written and never read; last_access  *)
(* is kept as the order `recency' it induces on the resident pages         *)
(* (distinct timestamps); an entry that is not valid keeps fields nobody   *)
(* reads, so all of them are NoEntry.                                      *)
(***************************************************************************)
EXTENDS Integers, FiniteSets, Lists

CONSTANTS Pages,      \* page ids clients use: ints, and the bridge may send negative ones
          Contents,   \* what a page can hold
          None,       \* the content of a page that is not resident
          RamFrames,  \* ram_capacity_
          Policies,   \* the replacement policies in use
          MaxFreq,    \* bound: a page is touched until its counter is MaxFreq
          MaxQueue    \* bound: fifo_q_ grows to MaxQueue

ASSUME PagesAssumption     == Pages \subseteq Int /\ IsFiniteSet(Pages)
ASSUME ContentsAssumption  == None \notin Contents
ASSUME RamFramesAssumption == RamFrames \in Nat \ {0}
ASSUME PoliciesAssumption  == Policies \subseteq {"LRU", "FIFO", "CLOCK", "LFU"}
ASSUME BoundsAssumption    == MaxFreq \in Nat /\ MaxQueue \in Nat

VARIABLES
  policy,   \* policy_
  table,    \* table_
  ring,     \* ring_, oldest arrival first
  lru,      \* lru_list_ (and lru_pos_, its index), most recent first
  fifo,     \* fifo_q_
  hand,     \* clock_hand_
  recency,  \* resident pages by last_access, oldest first
  evicted   \* what the last insert returned

ptVars == <<policy, table, ring, lru, fifo, hand, recency, evicted>>

NoPage == -1   \* the "no page" value of insert and _evict

UsedEntry(n, c) == [valid |-> TRUE, ref |-> TRUE, freq |-> n, content |-> c]
NewEntry(c)     == UsedEntry(1, c)
Unreferenced(e) == [valid |-> e.valid, ref |-> FALSE, freq |-> e.freq, content |-> e.content]
NoEntry         == [valid |-> FALSE, ref |-> FALSE, freq |-> 0, content |-> None]
Entry           == [valid : {TRUE}, ref : BOOLEAN, freq : Nat, content : Contents] \cup {NoEntry}

Resident == {p \in Pages : table[p].valid}

PTInit ==
  /\ policy \in Policies
  /\ table = [p \in Pages |-> NoEntry]
  /\ ring = <<>> /\ lru = <<>> /\ fifo = <<>> /\ recency = <<>>
  /\ hand = 0
  /\ evicted = NoPage

-----------------------------------------------------------------------------
(* _touch: what an access or an overwrite does to the lists; both also     *)
(* count the use and set the reference bit.                                *)

(* Mutant: the page stays where it is in the LRU list.                     *)
TouchInPlace(p) ==
  /\ table[p].freq < MaxFreq
  /\ recency' = Append(Without(recency, p), p)
  /\ lru' = lru

Touch(p) ==
  /\ table[p].freq < MaxFreq
  /\ recency' = Append(Without(recency, p), p)
  /\ lru' = IF policy = "LRU" /\ p \in Range(lru) THEN <<p>> \o Without(lru, p) ELSE lru

-----------------------------------------------------------------------------
(* _evict: the victim each policy picks on a ring that is not empty, and   *)
(* NoPage when the policy's list has run dry.                              *)

LruVictim  == IF lru = <<>> THEN NoPage ELSE Last(lru)
FifoVictim == IF fifo = <<>> THEN NoPage ELSE Head(fifo)

(* The clock: step d of the scan looks at ClockPage(d) and clears its      *)
(* reference bit unless it stops there; the second round (d >= n) finds    *)
(* the bits the first one cleared.                                         *)
ClockStart   == IF hand >= Len(ring) THEN 0 ELSE hand
ClockPage(d) == ring[((ClockStart + d) % Len(ring)) + 1]
ClockStops   == {d \in 0 .. 2 * Len(ring) - 1 :
                   table[ClockPage(d)].valid /\ (d >= Len(ring) \/ ~table[ClockPage(d)].ref)}
ClockSteps   == Min(ClockStops)
ClockPassed  == {ClockPage(d) : d \in 0 .. ClockSteps - 1}
ClockRest    == ((ClockStart + ClockSteps) % Len(ring)) + 1

(* Mutant: the scan moves the hand, the first of the ring goes.            *)
ClockVictimFirst == Head(ring)

ClockVictim  == IF ClockPage(ClockSteps) < 0 THEN Head(ring) ELSE ClockPage(ClockSteps)

(* The least frequently used page, the least recently used of them first.  *)
LeastUsed == {p \in Resident : \A q \in Resident : table[p].freq <= table[q].freq}
LfuVictim == IF Resident = {} THEN NoPage
             ELSE CHOOSE p \in LeastUsed :
                    \A i, j \in DOMAIN recency :
                      recency[i] = p /\ recency[j] \in LeastUsed => i <= j

Victim == CASE policy = "LRU"   -> LruVictim
            [] policy = "FIFO"  -> FifoVictim
            [] policy = "CLOCK" -> ClockVictim
            [] policy = "LFU"   -> LfuVictim

(* Mutants: page 0 is taken for no victim.                                 *)
OutgoingPositive   == {v \in {Victim} : v > 0}
EvictedPositive(s) == IF Victim > 0 THEN Without(s, Victim) ELSE s

(* A victim is taken out of RAM only when its id is not negative.          *)
Outgoing == {v \in {Victim} : v >= 0}
Evicted(s) == IF Victim >= 0 THEN Without(s, Victim) ELSE s

-----------------------------------------------------------------------------
(* insert: a hit overwrites, a miss takes a frame, evicting when RAM is    *)
(* full.  The policy's list loses its victim even when the id is negative. *)

(* Mutant: the hit keeps the old content.                                  *)
OverwriteKeeps(p, c) ==
  /\ table[p].valid
  /\ Touch(p)
  /\ table' = [table EXCEPT ![p] = UsedEntry(@.freq + 1, @.content)]
  /\ evicted' = NoPage
  /\ UNCHANGED <<policy, ring, fifo, hand>>

Overwrite(p, c) ==
  /\ table[p].valid
  /\ Touch(p)
  /\ table' = [table EXCEPT ![p] = UsedEntry(@.freq + 1, c)]
  /\ evicted' = NoPage
  /\ UNCHANGED <<policy, ring, fifo, hand>>

InsertFree(p, c) ==
  /\ ~table[p].valid
  /\ Len(ring) < RamFrames
  /\ policy = "FIFO" => Len(fifo) < MaxQueue
  /\ table' = [table EXCEPT ![p] = NewEntry(c)]
  /\ ring' = Append(ring, p)
  /\ recency' = Append(recency, p)
  /\ lru' = IF policy = "LRU" THEN <<p>> \o lru ELSE lru
  /\ fifo' = IF policy = "FIFO" THEN Append(fifo, p) ELSE fifo
  /\ evicted' = NoPage
  /\ UNCHANGED <<policy, hand>>

InsertEvict(p, c) ==
  /\ ~table[p].valid
  /\ Len(ring) >= RamFrames
  /\ table' = [q \in Pages |->
                 IF q = p THEN NewEntry(c)
                 ELSE IF q \in Outgoing THEN NoEntry
                 ELSE IF policy = "CLOCK" /\ q \in ClockPassed
                      THEN Unreferenced(table[q])
                 ELSE table[q]]
  /\ ring' = Append(Evicted(ring), p)
  /\ recency' = Append(Evicted(recency), p)
  /\ lru' = IF policy = "LRU"
            THEN <<p>> \o (IF lru = <<>> THEN lru ELSE Front(lru))
            ELSE lru
  /\ fifo' = IF policy = "FIFO"
             THEN Append(IF fifo = <<>> THEN fifo ELSE Tail(fifo), p)
             ELSE fifo
  /\ hand' = IF policy = "CLOCK" THEN ClockRest ELSE hand
  /\ evicted' = Victim
  /\ UNCHANGED policy

Insert(p, c) == Overwrite(p, c) \/ InsertFree(p, c) \/ InsertEvict(p, c)

(* access: a hit touches the page; a miss changes nothing.                 *)
Access(p) ==
  /\ table[p].valid
  /\ Touch(p)
  /\ table' = [table EXCEPT ![p] = UsedEntry(@.freq + 1, @.content)]
  /\ UNCHANGED <<policy, ring, fifo, hand, evicted>>

(* Mutant: page_out leaves the page in the ring.                           *)
PageOutKeepsRing(p) ==
  /\ table[p].valid
  /\ table' = [table EXCEPT ![p] = NoEntry]
  /\ recency' = Without(recency, p)
  /\ lru' = IF policy = "LRU" THEN Without(lru, p) ELSE lru
  /\ UNCHANGED <<policy, ring, fifo, hand, evicted>>

(* Mutant: page_out leaves the page in the LRU list.                       *)
PageOutKeepsLru(p) ==
  /\ table[p].valid
  /\ table' = [table EXCEPT ![p] = NoEntry]
  /\ ring' = Without(ring, p)
  /\ recency' = Without(recency, p)
  /\ UNCHANGED <<policy, lru, fifo, hand, evicted>>

(* page_out: the page leaves the table, the ring and the LRU list; its     *)
(* entry in the FIFO queue stays.  On a page that is not resident nothing  *)
(* changes.                                                                *)
PageOut(p) ==
  /\ table[p].valid
  /\ table' = [table EXCEPT ![p] = NoEntry]
  /\ ring' = Without(ring, p)
  /\ recency' = Without(recency, p)
  /\ lru' = IF policy = "LRU" THEN Without(lru, p) ELSE lru
  /\ UNCHANGED <<policy, fifo, hand, evicted>>

(* set_policy: the lists are rebuilt by pushing the ring's pages (all of   *)
(* them valid, see RingIsResident) in ring order.                          *)
SetPolicy(q) ==
  /\ policy' = q
  /\ hand' = 0
  /\ lru' = IF q = "LRU" THEN Reverse(ring) ELSE <<>>
  /\ fifo' = IF q = "FIFO" THEN ring ELSE <<>>
  /\ UNCHANGED <<table, ring, recency, evicted>>

-----------------------------------------------------------------------------
Use(p) == Access(p) \/ PageOut(p) \/ \E c \in Contents : Insert(p, c)

PTNext == \/ \E p \in Pages : Use(p)
          \/ \E q \in Policies : SetPolicy(q)

Spec == PTInit /\ [][PTNext]_ptVars

(* A server that nobody sends a set_policy: the policy of --policy.        *)
FixedNext == \E p \in Pages : Use(p)
FixedSpec == PTInit /\ [][FixedNext]_ptVars
-----------------------------------------------------------------------------
(* Properties.                                                             *)

(* Type correctness of every variable.                                     *)
TypeOK ==
  /\ policy \in Policies
  /\ table \in [Pages -> Entry]
  /\ ring \in Seq(Pages) /\ lru \in Seq(Pages) /\ fifo \in Seq(Pages)
  /\ recency \in Seq(Pages)
  /\ hand \in Nat
  /\ evicted \in Pages \cup {NoPage}

(* The ring holds exactly the valid pages, each once: table_ and ring_ are *)
(* changed by separate statements of insert, page_out and _evict, and an   *)
(* entry valid in only one of them would never be evicted, or twice.       *)
RingIsResident ==
  /\ IsInjective(ring)
  /\ Range(ring) = Resident

(* The timestamps order exactly the resident pages.                        *)
RecencyIsResident ==
  /\ IsInjective(recency)
  /\ Range(recency) = Resident

(* What every operation leaves in order whatever the policy: the types, the*)
(* ring and the timestamps, as above.                                      *)
TableOK == TypeOK /\ RingIsResident /\ RecencyIsResident

(* The resident pages that _evict can take out.                            *)
Evictable == {p \in Resident : p >= 0}

(* Each policy's list covers the evictable pages while its policy is in    *)
(* force and is empty otherwise.  The LRU list holds resident pages, each  *)
(* once; the FIFO queue may also hold the leftovers of page_out.  A        *)
(* negative id that _evict has popped stays resident and on no list.       *)
ListsCoverRing ==
  /\ IF policy = "LRU"
     THEN IsInjective(lru) /\ Range(lru) \subseteq Resident /\ Evictable \subseteq Range(lru)
     ELSE lru = <<>>
  /\ IF policy = "FIFO" THEN Evictable \subseteq Range(fifo) ELSE fifo = <<>>

(* RAM never holds more pages than it has frames.                          *)
RamBounded == Len(ring) <= RamFrames

(* The ring outgrows RAM for two causes only: FIFO pops an entry that      *)
(* page_out left behind, or a page with a negative id, which is never      *)
(* taken out, is resident.                                                 *)
OverflowHasCause ==
  [][Len(ring') > Len(ring) /\ Len(ring) >= RamFrames
       => \/ policy = "FIFO" /\ Head(fifo) \notin Range(ring)
          \/ Evictable # Resident]_ptVars

(* A step that brings one page in and takes another out.                   *)
Exchanged == /\ Range(ring') \ Range(ring) # {}
             /\ Range(ring) \ Range(ring') # {}

(* A page whose reference bit is set loses to CLOCK only when no resident  *)
(* page has its bit clear, for the scan goes all the way round first, or   *)
(* when one that has cannot be taken out: the first of the ring then goes  *)
(* in its place.                                                           *)
ClockSecondChance ==
  [][policy = "CLOCK" /\ Exchanged /\ table[evicted'].ref
       => \/ \A p \in Resident : table[p].ref
          \/ \E p \in Resident \ Evictable : ~table[p].ref]_ptVars

(* LRU evicts the page with the oldest access time (when the policy is     *)
(* never switched and page ids are not negative).                          *)
LruEvictsOldest ==
  [][policy = "LRU" /\ Exchanged => evicted' = Head(recency)]_ptVars

(* The table implements a cache: insert drops one page at most, only when  *)
(* it has to, and reports it; no content changes but by an insert (when    *)
(* the policy is not FIFO and page ids are not negative).                  *)
Cache == INSTANCE PageCache
           WITH cache <- [p \in Pages |-> table[p].content],
                dropped <- evicted, Frames <- RamFrames
CacheSpec == Cache!Spec
=============================================================================
