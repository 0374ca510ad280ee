---------------------------- MODULE MemoryProofs ----------------------------
(***************************************************************************)
(* Theorems about PageTable and about KernelMemory, which uses it, for     *)
(* every set of page ids, negative ones included, every number of frames,  *)
(* every choice of policies, and any number of threads and processes.      *)
(***************************************************************************)
EXTENDS KernelMemory, ListLemmas

Inv == TypeOK /\ RingIsResident /\ RecencyIsResident /\ ListsCoverRing

(* What the table holds for a page.                                        *)
LEMMA EntryFields ==
  ASSUME NEW e \in Entry
  PROVE  /\ e.valid \in BOOLEAN /\ e.freq \in Nat /\ e.ref \in BOOLEAN
         /\ e.valid => e.content \in Contents
         /\ ~e.valid => e = NoEntry
<1>1. CASE e = NoEntry
  BY <1>1 DEF NoEntry
<1>2. CASE e \in [valid : {TRUE}, ref : BOOLEAN, freq : Nat, content : Contents]
  BY <1>2
<1> QED
  BY <1>1, <1>2 DEF Entry

(* The scan of CLOCK stops, at a page of the ring.                         *)
LEMMA ClockFinds ==
  ASSUME Inv, Len(ring) >= RamFrames
  PROVE  /\ ClockSteps \in ClockStops
         /\ \A d \in Nat : ClockPage(d) \in Range(ring)
         /\ \A d \in ClockStops : ClockSteps <= d
         /\ ClockRest \in Nat
<1> DEFINE n == Len(ring)
<1>1. n \in Nat /\ n >= 1 /\ hand \in Nat /\ ClockStart \in Nat /\ ring \in Seq(Pages)
  BY RamFramesAssumption DEF Inv, TypeOK, ClockStart
<1>2. ASSUME NEW d \in Nat PROVE ClockPage(d) \in Range(ring)
  <2>1. ((ClockStart + d) % n) + 1 \in 1 .. n
    BY <1>1
  <2> QED
    BY <2>1, <1>1, Elements DEF ClockPage
<1>3. n \in ClockStops
  <2>1. n \in 0 .. 2 * n - 1
    BY <1>1
  <2>2. table[ClockPage(n)].valid
    BY <1>1, <1>2 DEF Inv, RingIsResident, Resident
  <2> QED
    BY <2>1, <2>2, <1>1 DEF ClockStops
<1>4. ClockStops \subseteq Nat
  BY DEF ClockStops
<1>5. ClockSteps \in ClockStops /\ \A d \in ClockStops : ClockSteps <= d
  BY <1>3, <1>4, LeastNatural DEF ClockSteps
<1>6. ClockRest \in Nat
  BY <1>1, <1>4, <1>5 DEF ClockRest
<1> QED
  BY <1>2, <1>5, <1>6

(* LFU finds a resident page.                                              *)
LEMMA LfuFinds ==
  ASSUME Inv, Resident # {}
  PROVE  LfuVictim \in Resident
<1> DEFINE F == {table[p].freq : p \in Resident}
           P == {i \in DOMAIN recency : recency[i] \in LeastUsed}
<1>1. \A p \in Resident : table[p].freq \in Nat
  BY EntryFields DEF Inv, TypeOK, Resident
<1>2. Min(F) \in F /\ \A y \in F : Min(F) <= y
  BY <1>1, LeastNatural
<1>3. PICK p \in Resident : table[p].freq = Min(F)
  BY <1>2
<1>4. p \in LeastUsed
  BY <1>2, <1>3 DEF LeastUsed
<1>5. recency \in Seq(Pages) /\ p \in Range(recency)
  BY DEF Inv, TypeOK, RecencyIsResident
<1>6. P # {} /\ P \subseteq Nat
  <2>1. PICK i \in 1 .. Len(recency) : recency[i] = p
    BY <1>5, Elements
  <2> QED
    BY <2>1, <1>4, <1>5, Elements
<1>7. Min(P) \in P /\ \A j \in P : Min(P) <= j
  BY <1>6, LeastNatural
<1> DEFINE v == recency[Min(P)]
           First(q) == \A i, j \in DOMAIN recency :
                         recency[i] = q /\ recency[j] \in LeastUsed => i <= j
<1>8. v \in LeastUsed /\ First(v)
  <2> SUFFICES ASSUME NEW i \in DOMAIN recency, NEW j \in DOMAIN recency,
                      recency[i] = v, recency[j] \in LeastUsed
               PROVE  i <= j
    BY <1>7
  <2>1. i = Min(P)
    BY <1>7 DEF Inv, RecencyIsResident, IsInjective
  <2> QED
    BY <2>1, <1>7
<1>9. LfuVictim = CHOOSE q \in LeastUsed : First(q)
  BY DEF LfuVictim
<1> HIDE DEF v, First
<1>10. LfuVictim \in LeastUsed
  BY <1>8, <1>9
<1> QED
  BY <1>10 DEF LeastUsed

(* On a full ring every policy but FIFO picks a resident page or none, and *)
(* FIFO the head of its queue.  When no resident id is negative a victim   *)
(* is always found.                                                        *)
LEMMA VictimFound ==
  ASSUME Inv, Len(ring) >= RamFrames
  PROVE  /\ policy # "FIFO" => Victim \in Resident \cup {NoPage}
         /\ policy = "FIFO" => Victim = IF fifo = <<>> THEN NoPage ELSE Head(fifo)
         /\ policy = "LRU" => Victim = IF lru = <<>> THEN NoPage ELSE Last(lru)
         /\ Victim \in Pages \cup {NoPage}
         /\ Evictable = Resident
              => IF policy = "FIFO" THEN fifo # <<>> ELSE Victim \in Resident
<1>1. /\ ring \in Seq(Pages) /\ ring # <<>> /\ Range(ring) \subseteq Pages
      /\ Range(ring) = Resident /\ Resident # {}
  <2>1. ring \in Seq(Pages) /\ Len(ring) >= 1
    BY RamFramesAssumption DEF Inv, TypeOK
  <2>2. ring[1] \in Range(ring)
    BY <2>1, Elements
  <2> QED
    BY <2>1, <2>2 DEF Inv, RingIsResident, Resident
<1> DEFINE Found ==
             /\ policy # "FIFO" => Victim \in Resident \cup {NoPage}
             /\ policy = "FIFO" => Victim = IF fifo = <<>> THEN NoPage ELSE Head(fifo)
             /\ policy = "LRU" => Victim = IF lru = <<>> THEN NoPage ELSE Last(lru)
             /\ Victim \in Pages \cup {NoPage}
             /\ Evictable = Resident
                  => IF policy = "FIFO" THEN fifo # <<>> ELSE Victim \in Resident
<1>2. ASSUME policy = "LRU" PROVE Found
  <2>1. /\ lru \in Seq(Pages) /\ IsInjective(lru)
        /\ Range(lru) \subseteq Resident /\ Evictable \subseteq Range(lru)
    BY <1>2 DEF Inv, TypeOK, ListsCoverRing
  <2>2. Victim = IF lru = <<>> THEN NoPage ELSE Last(lru)
    BY <1>2 DEF Victim, LruVictim
  <2>3. lru # <<>> => Last(lru) \in Range(lru)
    BY <2>1, FrontOf
  <2>4. Evictable = Resident => lru # <<>>
    BY <2>1, <1>1 DEF Range
  <2> QED
    BY <2>1, <2>2, <2>3, <2>4, <1>1, <1>2
<1>3. ASSUME policy = "FIFO" PROVE Found
  <2>1. fifo \in Seq(Pages) /\ Evictable \subseteq Range(fifo)
    BY <1>3 DEF Inv, TypeOK, ListsCoverRing
  <2>2. Evictable = Resident => fifo # <<>>
    BY <2>1, <1>1 DEF Range
  <2>3. Victim = IF fifo = <<>> THEN NoPage ELSE Head(fifo)
    BY <1>3 DEF Victim, FifoVictim
  <2>4. fifo # <<>> => Head(fifo) \in Pages
    BY <2>1
  <2> QED
    BY <2>2, <2>3, <2>4, <1>3
<1>4. ASSUME policy = "CLOCK" PROVE Found
  <2>1. ClockSteps \in Nat
    BY ClockFinds DEF ClockStops
  <2>2. ClockPage(ClockSteps) \in Range(ring)
    BY <2>1, ClockFinds
  <2>3. Head(ring) \in Range(ring)
    BY <1>1, Elements
  <2>4. Victim \in Range(ring)
    BY <2>2, <2>3, <1>4 DEF Victim, ClockVictim
  <2> QED
    BY <2>4, <1>1, <1>4
<1>5. ASSUME policy = "LFU" PROVE Found
  <2>1. Victim = LfuVictim
    BY <1>5 DEF Victim
  <2>2. LfuVictim \in Resident
    BY <1>1, LfuFinds
  <2> QED
    BY <2>1, <2>2, <1>1, <1>5
<1>6. policy \in {"LRU", "FIFO", "CLOCK", "LFU"}
  BY PoliciesAssumption DEF Inv, TypeOK
<1> QED
  BY <1>2, <1>3, <1>4, <1>5, <1>6

-----------------------------------------------------------------------------
(* Facts every action starts from.                                         *)
LEMMA InvFacts ==
  ASSUME Inv
  PROVE  /\ \A p \in Pages : table[p] \in Entry
         /\ ring \in Seq(Pages) /\ IsInjective(ring) /\ Range(ring) = Resident
         /\ recency \in Seq(Pages) /\ IsInjective(recency) /\ Range(recency) = Resident
         /\ lru \in Seq(Pages) /\ IsInjective(lru)
         /\ fifo \in Seq(Pages)
         /\ Resident \subseteq Pages
<1>1. IsInjective(<<>>)
  BY DEF IsInjective
<1> QED
  BY <1>1 DEF Inv, TypeOK, RingIsResident, RecencyIsResident, ListsCoverRing, Resident

(* A page used again keeps every list complete.                            *)
LEMMA TouchKeepsInv ==
  ASSUME Inv, NEW p \in Pages, table[p].valid, Touch(p),
         NEW e \in Entry, e.valid, table' = [table EXCEPT ![p] = e],
         evicted' \in Pages \cup {NoPage},
         UNCHANGED <<policy, ring, fifo, hand>>
  PROVE  Inv'
<1>1. p \in Resident
  BY DEF Resident
<1>2. table' \in [Pages -> Entry] /\ Resident' = Resident
  BY DEF Inv, TypeOK, Resident
<1>3. recency' \in Seq(Pages) /\ IsInjective(recency') /\ Range(recency') = Resident
  <2> DEFINE w == Without(recency, p)
  <2>1. w \in Seq(Pages) /\ IsInjective(w) /\ Range(w) = Resident \ {p}
    BY InvFacts, WithoutOf
  <2>2. recency' = Append(w, p)
    BY DEF Touch
  <2> HIDE DEF w
  <2>3. /\ recency' \in Seq(Pages) /\ IsInjective(recency')
        /\ Range(recency') = Range(w) \cup {p}
    BY <2>1, <2>2, AppendNew
  <2> QED
    BY <1>1, <2>1, <2>3
<1>4. /\ lru' \in Seq(Pages)
      /\ IF policy = "LRU" THEN IsInjective(lru') /\ Range(lru') = Range(lru) ELSE lru' = <<>>
  <2>1. CASE policy = "LRU" /\ p \in Range(lru)
    <3> DEFINE w == Without(lru, p)
    <3>1. w \in Seq(Pages) /\ IsInjective(w) /\ Range(w) = Range(lru) \ {p}
      BY InvFacts, WithoutOf
    <3>2. lru' = <<p>> \o w
      BY <2>1 DEF Touch
    <3> HIDE DEF w
    <3>3. /\ lru' \in Seq(Pages) /\ IsInjective(lru')
          /\ Range(lru') = Range(w) \cup {p}
      BY <3>1, <3>2, PushNew
    <3> QED
      BY <2>1, <3>1, <3>3
  <2>2. CASE ~(policy = "LRU" /\ p \in Range(lru))
    <3>1. lru' = lru
      BY <2>2 DEF Touch
    <3> QED
      BY <3>1 DEF Inv, TypeOK, ListsCoverRing
  <2> QED
    BY <2>1, <2>2
<1>5. TypeOK'
  BY <1>2, <1>3, <1>4 DEF Inv, TypeOK
<1>6. RingIsResident' /\ RecencyIsResident'
  BY <1>2, <1>3 DEF Inv, RingIsResident, RecencyIsResident
<1>7. ListsCoverRing'
  BY <1>2, <1>4 DEF Inv, ListsCoverRing, Evictable
<1> QED
  BY <1>5, <1>6, <1>7 DEF Inv

LEMMA UsedEntryOK ==
  ASSUME NEW n \in Nat, NEW c \in Contents
  PROVE  UsedEntry(n, c) \in Entry /\ UsedEntry(n, c).valid
BY DEF UsedEntry, Entry

LEMMA UnreferencedOK ==
  ASSUME NEW e \in Entry
  PROVE  Unreferenced(e) \in Entry /\ Unreferenced(e).valid = e.valid
<1>1. CASE e = NoEntry
  BY <1>1 DEF Unreferenced, NoEntry, Entry
<1>2. CASE e # NoEntry
  <2>1. e.freq \in Nat /\ e.content \in Contents /\ e.valid = TRUE
    BY <1>2, EntryFields
  <2> QED
    BY <2>1 DEF Unreferenced, Entry
<1> QED
  BY <1>1, <1>2

LEMMA OverwriteKeepsInv ==
  ASSUME Inv, NEW p \in Pages, NEW c \in Contents, Overwrite(p, c)
  PROVE  Inv'
<1> DEFINE e == UsedEntry(table[p].freq + 1, c)
<1>1. table[p].valid /\ table[p].freq + 1 \in Nat
  BY InvFacts, EntryFields DEF Overwrite
<1>2. e \in Entry /\ e.valid
  BY <1>1, UsedEntryOK
<1>3. table' = [table EXCEPT ![p] = e]
  BY DEF Overwrite
<1> HIDE DEF e
<1> QED
  BY <1>1, <1>2, <1>3, TouchKeepsInv DEF Overwrite

LEMMA AccessKeepsInv ==
  ASSUME Inv, NEW p \in Pages, Access(p)
  PROVE  Inv'
<1> DEFINE e == UsedEntry(table[p].freq + 1, table[p].content)
<1>1. table[p].valid /\ table[p].freq + 1 \in Nat /\ table[p].content \in Contents
  BY InvFacts, EntryFields DEF Access
<1>2. e \in Entry /\ e.valid
  BY <1>1, UsedEntryOK
<1>3. table' = [table EXCEPT ![p] = e]
  BY DEF Access
<1>4. evicted' \in Pages \cup {NoPage}
  BY DEF Access, Inv, TypeOK
<1> HIDE DEF e
<1> QED
  BY <1>1, <1>2, <1>3, <1>4, TouchKeepsInv DEF Access

(* A new entry in a table that has room.                                   *)
LEMMA NewEntryOK ==
  ASSUME NEW c \in Contents
  PROVE  NewEntry(c) \in Entry /\ NewEntry(c).valid
BY UsedEntryOK DEF NewEntry

LEMMA InsertFreeKeepsInv ==
  ASSUME Inv, NEW p \in Pages, NEW c \in Contents, InsertFree(p, c)
  PROVE  Inv'
<1>1. p \notin Resident
  BY DEF InsertFree, Resident
<1>2. table' \in [Pages -> Entry] /\ Resident' = Resident \cup {p}
  <2>1. table' = [table EXCEPT ![p] = NewEntry(c)]
    BY DEF InsertFree
  <2> QED
    BY <2>1, NewEntryOK DEF Inv, TypeOK, Resident
<1>3. /\ ring' \in Seq(Pages) /\ IsInjective(ring') /\ Range(ring') = Resident \cup {p}
      /\ recency' \in Seq(Pages) /\ IsInjective(recency') /\ Range(recency') = Resident \cup {p}
  BY <1>1, InvFacts, AppendNew DEF InsertFree
<1>4. /\ lru' \in Seq(Pages)
      /\ IF policy = "LRU"
         THEN IsInjective(lru') /\ Range(lru') = Range(lru) \cup {p}
         ELSE lru' = <<>>
  <2>1. CASE policy = "LRU"
    <3>1. lru' = <<p>> \o lru /\ Range(lru) \subseteq Resident
      BY <2>1 DEF InsertFree, Inv, ListsCoverRing
    <3> QED
      BY <2>1, <3>1, <1>1, InvFacts, PushNew
  <2>2. CASE policy # "LRU"
    BY <2>2 DEF InsertFree, Inv, TypeOK, ListsCoverRing
  <2> QED
    BY <2>1, <2>2
<1>5. /\ fifo' \in Seq(Pages)
      /\ IF policy = "FIFO" THEN Range(fifo') = Range(fifo) \cup {p} ELSE fifo' = <<>>
  <2>1. CASE policy = "FIFO"
    <3>1. fifo' = Append(fifo, p)
      BY <2>1 DEF InsertFree
    <3> QED
      BY <2>1, <3>1, InvFacts, AppendNew
  <2>2. CASE policy # "FIFO"
    BY <2>2 DEF InsertFree, Inv, TypeOK, ListsCoverRing
  <2> QED
    BY <2>1, <2>2
<1>6. policy' = policy /\ hand' = hand /\ evicted' = NoPage
  BY DEF InsertFree
<1>7. TypeOK'
  BY <1>2, <1>3, <1>4, <1>5, <1>6 DEF Inv, TypeOK
<1>8. RingIsResident' /\ RecencyIsResident'
  BY <1>2, <1>3 DEF RingIsResident, RecencyIsResident
<1>9. Evictable' \subseteq Evictable \cup {p}
  BY <1>2 DEF Evictable
<1>10. ListsCoverRing'
  BY <1>2, <1>4, <1>5, <1>6, <1>9 DEF Inv, ListsCoverRing
<1> QED
  BY <1>7, <1>8, <1>10 DEF Inv

(* The victim is erased from a list of the resident pages.                 *)
LEMMA EvictedOf ==
  ASSUME NEW s \in Seq(Pages), IsInjective(s), Range(s) = Resident
  PROVE  /\ Evicted(s) \in Seq(Pages) /\ IsInjective(Evicted(s))
         /\ Range(Evicted(s)) = Resident \ Outgoing
<1>1. CASE Victim >= 0
  <2>1. Evicted(s) = Without(s, Victim) /\ Outgoing = {Victim}
    BY <1>1 DEF Evicted, Outgoing
  <2> QED
    BY <2>1, WithoutOf
<1>2. CASE ~(Victim >= 0)
  <2>1. Evicted(s) = s /\ Outgoing = {}
    BY <1>2 DEF Evicted, Outgoing
  <2> QED
    BY <2>1
<1> QED
  BY <1>1, <1>2

(* A new entry in a full table: the victim goes when its id is not         *)
(* negative, whichever policy chose it, and leaves its list in any case;   *)
(* CLOCK clears reference bits of pages that stay.                         *)
LEMMA InsertEvictKeepsInv ==
  ASSUME Inv, NEW p \in Pages, NEW c \in Contents, InsertEvict(p, c)
  PROVE  Inv'
<1> DEFINE left == Resident \ Outgoing
<1>1. p \notin Resident /\ Len(ring) >= RamFrames
  BY DEF InsertEvict, Resident
<1>2. /\ Victim \in Pages \cup {NoPage}
      /\ policy = "LRU" => Victim = IF lru = <<>> THEN NoPage ELSE Last(lru)
      /\ policy = "FIFO" => Victim = IF fifo = <<>> THEN NoPage ELSE Head(fifo)
      /\ \A q \in Evictable \ left : q = Victim
  BY <1>1, VictimFound DEF Outgoing, Evictable
<1>3. table' \in [Pages -> Entry] /\ Resident' = left \cup {p}
  <2>1. ASSUME NEW q \in Pages
        PROVE  /\ table'[q] \in Entry
               /\ table'[q].valid <=> q \in left \cup {p}
    <3>1. CASE q = p
      <4>1. table'[q] = NewEntry(c)
        BY <3>1 DEF InsertEvict
      <4> QED
        BY <3>1, <4>1, NewEntryOK
    <3>2. CASE q # p /\ q \in Outgoing
      <4>1. table'[q] = NoEntry
        BY <3>2 DEF InsertEvict
      <4> QED
        BY <3>2, <4>1 DEF NoEntry, Entry
    <3>3. CASE q # p /\ q \notin Outgoing /\ policy = "CLOCK" /\ q \in ClockPassed
      <4>1. table'[q] = Unreferenced(table[q]) /\ table[q] \in Entry
        BY <3>3, InvFacts DEF InsertEvict
      <4> QED
        BY <3>3, <4>1, UnreferencedOK DEF Resident
    <3>4. CASE q # p /\ q \notin Outgoing /\ ~(policy = "CLOCK" /\ q \in ClockPassed)
      <4>1. table'[q] = table[q] /\ table[q] \in Entry
        BY <3>4, InvFacts DEF InsertEvict
      <4> QED
        BY <3>4, <4>1 DEF Resident
    <3> QED
      BY <3>1, <3>2, <3>3, <3>4
  <2>2. table' = [q \in Pages |-> table'[q]]
    BY DEF InsertEvict
  <2>3. table' \in [Pages -> Entry]
    BY <2>1, <2>2
  <2>4. Resident' = left \cup {p}
    BY <2>1, InvFacts DEF Resident
  <2> QED
    BY <2>3, <2>4
<1>4. ASSUME NEW s \in Seq(Pages), IsInjective(s), Range(s) = Resident
      PROVE  LET new == Append(Evicted(s), p) IN
             new \in Seq(Pages) /\ IsInjective(new) /\ Range(new) = left \cup {p}
  <2> DEFINE w == Evicted(s)
  <2>1. w \in Seq(Pages) /\ IsInjective(w) /\ Range(w) = left
    BY <1>4, EvictedOf
  <2> HIDE DEF w
  <2>2. /\ Append(w, p) \in Seq(Pages) /\ IsInjective(Append(w, p))
        /\ Range(Append(w, p)) = left \cup {p}
    BY <2>1, <1>1, AppendNew
  <2> QED
    BY <2>2 DEF w
<1>5. /\ ring' \in Seq(Pages) /\ IsInjective(ring') /\ Range(ring') = left \cup {p}
      /\ recency' \in Seq(Pages) /\ IsInjective(recency') /\ Range(recency') = left \cup {p}
  BY <1>4, InvFacts DEF InsertEvict
<1>6. /\ lru' \in Seq(Pages)
      /\ IF policy = "LRU"
         THEN /\ IsInjective(lru') /\ Range(lru') \subseteq left \cup {p}
              /\ Evictable \cap left \subseteq Range(lru') /\ p \in Range(lru')
         ELSE lru' = <<>>
  <2>1. CASE policy = "LRU"
    <3> DEFINE w == IF lru = <<>> THEN lru ELSE Front(lru)
    <3>1. Range(lru) \subseteq Resident /\ Evictable \subseteq Range(lru)
      BY <2>1 DEF Inv, ListsCoverRing
    <3>2. /\ w \in Seq(Pages) /\ IsInjective(w) /\ Range(w) \subseteq left
          /\ Evictable \cap left \subseteq Range(w)
      <4>1. CASE lru = <<>>
        <5>1. Range(lru) = {}
          BY <4>1 DEF Range
        <5> QED
          BY <4>1, <5>1, <3>1, InvFacts
      <4>2. CASE lru # <<>>
        <5>1. w \in Seq(Pages) /\ IsInjective(w) /\ Range(w) = Range(lru) \ {Victim}
          BY <4>2, <2>1, <1>2, InvFacts, FrontOf
        <5>2. Outgoing \subseteq {Victim} /\ Evictable \cap left \subseteq Evictable \ {Victim}
          BY DEF Outgoing, Evictable
        <5> QED
          BY <5>1, <5>2, <3>1
      <4> QED
        BY <4>1, <4>2
    <3>3. lru' = <<p>> \o w
      BY <2>1 DEF InsertEvict
    <3> HIDE DEF w
    <3>4. lru' \in Seq(Pages) /\ IsInjective(lru') /\ Range(lru') = Range(w) \cup {p}
      BY <3>2, <3>3, <1>1, PushNew
    <3> QED
      BY <2>1, <3>2, <3>4
  <2>2. CASE policy # "LRU"
    BY <2>2 DEF InsertEvict, Inv, TypeOK, ListsCoverRing
  <2> QED
    BY <2>1, <2>2
<1>7. /\ fifo' \in Seq(Pages)
      /\ IF policy = "FIFO"
         THEN Evictable \cap left \subseteq Range(fifo') /\ p \in Range(fifo')
         ELSE fifo' = <<>>
  <2>1. CASE policy = "FIFO"
    <3> DEFINE w == IF fifo = <<>> THEN fifo ELSE Tail(fifo)
    <3>1. Evictable \subseteq Range(fifo)
      BY <2>1 DEF Inv, ListsCoverRing
    <3>2. w \in Seq(Pages) /\ Evictable \cap left \subseteq Range(w)
      <4>1. CASE fifo = <<>>
        BY <4>1, <3>1, InvFacts
      <4>2. CASE fifo # <<>>
        <5>1. w \in Seq(Pages) /\ Range(fifo) \ {Victim} \subseteq Range(w)
          BY <4>2, <2>1, <1>2, InvFacts, TailOf
        <5>2. Evictable \cap left \subseteq Evictable \ {Victim}
          BY DEF Outgoing, Evictable
        <5> QED
          BY <5>1, <5>2, <3>1
      <4> QED
        BY <4>1, <4>2
    <3>3. fifo' = Append(w, p)
      BY <2>1 DEF InsertEvict
    <3> HIDE DEF w
    <3>4. fifo' \in Seq(Pages) /\ Range(fifo') = Range(w) \cup {p}
      BY <3>2, <3>3, AppendNew
    <3> QED
      BY <2>1, <3>2, <3>4
  <2>2. CASE policy # "FIFO"
    BY <2>2 DEF InsertEvict, Inv, TypeOK, ListsCoverRing
  <2> QED
    BY <2>1, <2>2
<1>8. policy' = policy /\ hand' \in Nat /\ evicted' \in Pages \cup {NoPage}
  <2>1. hand' \in Nat
    BY <1>1, ClockFinds DEF InsertEvict, Inv, TypeOK
  <2>2. policy' = policy /\ evicted' = Victim
    BY DEF InsertEvict
  <2> QED
    BY <2>1, <2>2, <1>2
<1>9. TypeOK'
  BY <1>3, <1>5, <1>6, <1>7, <1>8 DEF Inv, TypeOK
<1>10. RingIsResident' /\ RecencyIsResident'
  BY <1>3, <1>5 DEF RingIsResident, RecencyIsResident
<1>11. Evictable' \subseteq (Evictable \cap left) \cup {p}
  BY <1>3 DEF Evictable
<1>12. ListsCoverRing'
  BY <1>3, <1>6, <1>7, <1>8, <1>11 DEF ListsCoverRing
<1> QED
  BY <1>9, <1>10, <1>12 DEF Inv

LEMMA PageOutKeepsInv ==
  ASSUME Inv, NEW p \in Pages, PageOut(p)
  PROVE  Inv'
<1>1. table' \in [Pages -> Entry] /\ Resident' = Resident \ {p}
  <2>1. table' = [table EXCEPT ![p] = NoEntry] /\ NoEntry \in Entry /\ NoEntry.valid = FALSE
    BY DEF PageOut, Entry, NoEntry
  <2> QED
    BY <2>1 DEF Inv, TypeOK, Resident
<1>2. /\ ring' \in Seq(Pages) /\ IsInjective(ring') /\ Range(ring') = Resident \ {p}
      /\ recency' \in Seq(Pages) /\ IsInjective(recency') /\ Range(recency') = Resident \ {p}
  <2>1. ring' = Without(ring, p) /\ recency' = Without(recency, p)
    BY DEF PageOut
  <2>2. ring' \in Seq(Pages) /\ IsInjective(ring') /\ Range(ring') = Resident \ {p}
    BY <2>1, InvFacts, WithoutOf
  <2>3. recency' \in Seq(Pages) /\ IsInjective(recency') /\ Range(recency') = Resident \ {p}
    BY <2>1, InvFacts, WithoutOf
  <2> QED
    BY <2>2, <2>3
<1>3. /\ lru' \in Seq(Pages)
      /\ IF policy = "LRU"
         THEN IsInjective(lru') /\ Range(lru') = Range(lru) \ {p}
         ELSE lru' = <<>>
  <2>1. CASE policy = "LRU"
    <3>1. lru' = Without(lru, p)
      BY <2>1 DEF PageOut
    <3> QED
      BY <2>1, <3>1, InvFacts, WithoutOf
  <2>2. CASE policy # "LRU"
    BY <2>2 DEF PageOut, Inv, TypeOK, ListsCoverRing
  <2> QED
    BY <2>1, <2>2
<1>4. UNCHANGED <<policy, fifo, hand, evicted>>
  BY DEF PageOut
<1>5. TypeOK'
  BY <1>1, <1>2, <1>3, <1>4 DEF Inv, TypeOK
<1>6. RingIsResident' /\ RecencyIsResident'
  BY <1>1, <1>2 DEF RingIsResident, RecencyIsResident
<1>7. Evictable' = Evictable \ {p}
  BY <1>1 DEF Evictable
<1>8. ListsCoverRing'
  BY <1>1, <1>3, <1>4, <1>7 DEF Inv, ListsCoverRing
<1> QED
  BY <1>5, <1>6, <1>8 DEF Inv

LEMMA SetPolicyKeepsInv ==
  ASSUME Inv, NEW q \in Policies, SetPolicy(q)
  PROVE  Inv'
<1>1. Resident' = Resident
  BY DEF SetPolicy, Resident
<1>2. /\ lru' \in Seq(Pages)
      /\ IF q = "LRU" THEN IsInjective(lru') /\ Range(lru') = Resident ELSE lru' = <<>>
  BY InvFacts, ReverseOf DEF SetPolicy
<1>3. fifo' \in Seq(Pages) /\ IF q = "FIFO" THEN fifo' = ring ELSE fifo' = <<>>
  BY InvFacts DEF SetPolicy
<1>4. TypeOK'
  BY <1>2, <1>3 DEF SetPolicy, Inv, TypeOK
<1>5. RingIsResident' /\ RecencyIsResident'
  BY <1>1 DEF SetPolicy, Inv, RingIsResident, RecencyIsResident
<1>6. Evictable' \subseteq Resident
  BY <1>1 DEF Evictable
<1>7. policy' = q
  BY DEF SetPolicy
<1>8. ListsCoverRing'
  BY <1>1, <1>2, <1>3, <1>6, <1>7, InvFacts DEF ListsCoverRing
<1> QED
  BY <1>4, <1>5, <1>8 DEF Inv

-----------------------------------------------------------------------------
LEMMA InitInv == PTInit => Inv
<1> SUFFICES ASSUME PTInit PROVE Inv
  OBVIOUS
<1>1. Range(<<>>) = {} /\ IsInjective(<<>>)
  BY DEF Range, IsInjective
<1>2. Resident = {}
  BY DEF PTInit, Resident, NoEntry
<1>3. TypeOK
  BY DEF PTInit, TypeOK, Entry
<1> QED
  BY <1>1, <1>2, <1>3 DEF PTInit, Inv, RingIsResident, RecencyIsResident, ListsCoverRing, Evictable

LEMMA StepInv ==
  ASSUME Inv, [PTNext]_ptVars
  PROVE  Inv'
<1>1. ASSUME NEW p \in Pages, Use(p) PROVE Inv'
  BY <1>1, OverwriteKeepsInv, InsertFreeKeepsInv, InsertEvictKeepsInv, AccessKeepsInv,
     PageOutKeepsInv DEF Use, Insert
<1>2. ASSUME NEW q \in Policies, SetPolicy(q) PROVE Inv'
  BY <1>2, SetPolicyKeepsInv
<1>3. CASE UNCHANGED ptVars
  BY <1>3 DEF ptVars, Inv, TypeOK, RingIsResident, RecencyIsResident, ListsCoverRing, Resident,
              Evictable
<1> QED
  BY <1>1, <1>2, <1>3 DEF PTNext

(* Whatever the page ids and the policies, and however often these are     *)
(* switched: types, ring = valid entries, timestamps and policy lists      *)
(* agree in every reachable state.                                         *)
THEOREM TableConsistent ==
  Spec => [](TypeOK /\ RingIsResident /\ RecencyIsResident /\ ListsCoverRing)
<1>1. PTInit => Inv
  BY InitInv
<1>2. Inv /\ [PTNext]_ptVars => Inv'
  BY StepInv
<1>3. Inv => TypeOK /\ RingIsResident /\ RecencyIsResident /\ ListsCoverRing
  BY DEF Inv
<1> QED
  BY <1>1, <1>2, <1>3, PTL DEF Spec

(* Every entry that is valid is in the ring and has a timestamp, each once,*)
(* and nothing else is: no operation of insert, access, page_out and       *)
(* set_policy changes one of the three structures without the others.      *)
THEOREM TableTypes == Spec => []TableOK
<1>1. (TypeOK /\ RingIsResident /\ RecencyIsResident /\ ListsCoverRing) => TableOK
  BY DEF TableOK
<1> QED
  BY <1>1, TableConsistent, PTL

-----------------------------------------------------------------------------
(* What one operation does to the number of resident pages.                *)
LEMMA RingGrowth ==
  ASSUME Inv, [PTNext]_ptVars
  PROVE  \/ Len(ring') <= Len(ring)
         \/ Len(ring) < RamFrames /\ Len(ring') = Len(ring) + 1
         \/ Len(ring) >= RamFrames /\ policy = "FIFO" /\ Head(fifo) \notin Range(ring)
         \/ Len(ring) >= RamFrames /\ Evictable # Resident
<1>0. Len(ring) \in Nat /\ Len(ring) <= Len(ring)
  BY InvFacts
<1>1. ASSUME NEW p \in Pages, NEW c \in Contents, Overwrite(p, c) \/ Access(p)
      PROVE  Len(ring') <= Len(ring)
  <2>1. ring' = ring
    BY <1>1 DEF Overwrite, Access
  <2> QED
    BY <2>1, <1>0
<1>2. ASSUME NEW p \in Pages, NEW c \in Contents, InsertFree(p, c)
      PROVE  Len(ring) < RamFrames /\ Len(ring') = Len(ring) + 1
  BY <1>2, InvFacts, AppendNew DEF InsertFree
<1>3. ASSUME NEW p \in Pages, NEW c \in Contents, InsertEvict(p, c),
             ~(policy = "FIFO" /\ Head(fifo) \notin Range(ring)), Evictable = Resident
      PROVE  Len(ring') <= Len(ring)
  <2> DEFINE w == Without(ring, Victim)
  <2>1. Len(ring) >= RamFrames
    BY <1>3 DEF InsertEvict
  <2>2. Victim \in Range(ring) /\ Victim >= 0
    <3>1. Victim \in Resident
      BY <1>3, <2>1, VictimFound, InvFacts
    <3> QED
      BY <3>1, <1>3, InvFacts DEF Evictable
  <2>3. w \in Seq(Pages) /\ Len(w) = Len(ring) - 1
    BY <2>2, InvFacts, WithoutOf
  <2>4. ring' = Append(w, p)
    BY <1>3, <2>2 DEF InsertEvict, Evicted
  <2> HIDE DEF w
  <2>5. Len(ring') = Len(w) + 1
    BY <2>3, <2>4, AppendNew
  <2> QED
    BY <2>3, <2>5, <1>0
<1>4. ASSUME NEW p \in Pages, NEW c \in Contents, InsertEvict(p, c)
      PROVE  Len(ring) >= RamFrames
  BY <1>4 DEF InsertEvict
<1>5. ASSUME NEW p \in Pages, PageOut(p) PROVE Len(ring') <= Len(ring)
  <2>1. ring' = Without(ring, p)
    BY <1>5 DEF PageOut
  <2>2. Len(ring') = IF p \in Range(ring) THEN Len(ring) - 1 ELSE Len(ring)
    BY <2>1, InvFacts, WithoutOf
  <2> QED
    BY <2>2, <1>0
<1>6. ASSUME NEW q \in Policies, SetPolicy(q) PROVE Len(ring') <= Len(ring)
  BY <1>6, <1>0 DEF SetPolicy
<1>7. CASE UNCHANGED ptVars
  BY <1>7, <1>0 DEF ptVars
<1>8. ASSUME NEW p \in Pages, Use(p)
      PROVE  \/ \E c \in Contents : Overwrite(p, c) \/ InsertFree(p, c) \/ InsertEvict(p, c)
             \/ Access(p) \/ PageOut(p)
  BY <1>8 DEF Use, Insert
<1>9. ASSUME NEW p \in Pages, Access(p) PROVE Len(ring') <= Len(ring)
  BY <1>9, <1>0 DEF Access
<1> QED
  BY <1>1, <1>2, <1>3, <1>4, <1>5, <1>6, <1>7, <1>8, <1>9 DEF PTNext

(* RAM is exceeded for two causes only, whatever the policy: a FIFO entry  *)
(* that page_out left in the queue, and a resident page with a negative id.*)
THEOREM OverflowExplained == Spec => OverflowHasCause
<1>1. PTInit => Inv
  BY InitInv
<1>2. Inv /\ [PTNext]_ptVars => Inv'
  BY StepInv
<1>3. Inv /\ [PTNext]_ptVars
        => [Len(ring') > Len(ring) /\ Len(ring) >= RamFrames
              => \/ policy = "FIFO" /\ Head(fifo) \notin Range(ring)
                 \/ Evictable # Resident]_ptVars
  <2> SUFFICES ASSUME Inv, [PTNext]_ptVars,
                      Len(ring') > Len(ring), Len(ring) >= RamFrames
               PROVE  \/ policy = "FIFO" /\ Head(fifo) \notin Range(ring)
                      \/ Evictable # Resident
    OBVIOUS
  <2>1. Len(ring) \in Nat /\ Len(ring') \in Nat /\ RamFrames \in Nat
    BY StepInv, RamFramesAssumption DEF Inv, TypeOK
  <2> QED
    BY <2>1, RingGrowth
<1> QED
  BY <1>1, <1>2, <1>3, PTL DEF Spec, OverflowHasCause

LEMMA BoundedInit == PTInit => Inv /\ RamBounded
  BY InitInv, RamFramesAssumption DEF PTInit, RamBounded

LEMMA BoundedStep ==
  ASSUME Pages \subseteq Nat, "FIFO" \notin Policies, Inv, RamBounded, [PTNext]_ptVars
  PROVE  Inv' /\ RamBounded'
<1>1. Inv'
  BY StepInv
<1>2. Len(ring) \in Nat /\ Len(ring') \in Nat /\ RamFrames \in Nat /\ policy # "FIFO"
  BY <1>1, RamFramesAssumption DEF Inv, TypeOK
<1>3. Evictable = Resident
  <2>1. \A p \in Resident : p >= 0
    BY DEF Resident
  <2> QED
    BY <2>1 DEF Evictable
<1>4. Len(ring') <= Len(ring) \/ (Len(ring) < RamFrames /\ Len(ring') = Len(ring) + 1)
  BY <1>2, <1>3, RingGrowth
<1> QED
  BY <1>1, <1>2, <1>4 DEF RamBounded

(* Without FIFO and without negative page ids the table keeps to its       *)
(* frames under every sequence of operations and policy switches.          *)
THEOREM FramesRespected ==
  ASSUME Pages \subseteq Nat, "FIFO" \notin Policies
  PROVE  Spec => []RamBounded
<1>1. Inv /\ RamBounded /\ [PTNext]_ptVars => (Inv /\ RamBounded)'
  BY BoundedStep
<1> QED
  BY <1>1, BoundedInit, PTL DEF Spec

-----------------------------------------------------------------------------
(* Which page goes, and what the table promises its callers.               *)

LEMMA FixedIsAny == [FixedNext]_ptVars => [PTNext]_ptVars
  BY DEF FixedNext, PTNext

(* Only a full insert brings one page in and takes another out.            *)
LEMMA ExchangedByEvict ==
  ASSUME Inv, [PTNext]_ptVars, Exchanged
  PROVE  \E p \in Pages, c \in Contents : InsertEvict(p, c)
<1>1. ASSUME NEW p \in Pages, NEW c \in Contents, InsertFree(p, c) PROVE FALSE
  <2>1. Range(ring') = Range(ring) \cup {p}
    BY <1>1, InvFacts, AppendNew DEF InsertFree
  <2> QED
    BY <2>1 DEF Exchanged
<1>2. ASSUME NEW p \in Pages, PageOut(p) PROVE FALSE
  <2>1. Range(ring') = Range(ring) \ {p}
    BY <1>2, InvFacts, WithoutOf DEF PageOut
  <2> QED
    BY <2>1 DEF Exchanged
<1>3. ASSUME ring' = ring PROVE FALSE
  BY <1>3 DEF Exchanged
<1>4. ASSUME NEW p \in Pages, NEW c \in Contents, Overwrite(p, c) PROVE FALSE
  BY <1>3, <1>4 DEF Overwrite
<1>5. ASSUME NEW p \in Pages, Access(p) PROVE FALSE
  BY <1>3, <1>5 DEF Access
<1>6. ASSUME NEW q \in Policies, SetPolicy(q) PROVE FALSE
  BY <1>3, <1>6 DEF SetPolicy
<1>7. CASE UNCHANGED ptVars
  BY <1>3, <1>7 DEF ptVars
<1> QED
  BY <1>1, <1>2, <1>4, <1>5, <1>6, <1>7 DEF PTNext, Use, Insert

(* n steps of the scan, from wherever the hand is, look at the whole ring. *)
LEMMA ClockGoesRound ==
  ASSUME Inv, ring # <<>>, NEW q \in Range(ring)
  PROVE  \E d \in 0 .. Len(ring) - 1 : ClockPage(d) = q
<1> DEFINE n == Len(ring)
           a == ClockStart
<1>1. n \in Nat \ {0} /\ a \in 0 .. n - 1
  BY DEF Inv, TypeOK, ClockStart
<1>2. PICK i \in 1 .. n : ring[i] = q
  BY InvFacts, Elements
<1>3. ASSUME NEW k \in 0 .. n - 1 PROVE k % n = k /\ (k + n) % n = k
  BY <1>1
<1> DEFINE k == i - 1
           d == IF k >= a THEN k - a ELSE (k + n) - a
<1>4. k \in 0 .. n - 1 /\ d \in 0 .. n - 1 /\ (a + d = k \/ a + d = k + n)
  BY <1>1
<1>5. (a + d) % n = k
  BY <1>3, <1>4
<1>6. ClockPage(d) = ring[k + 1]
  BY <1>5 DEF ClockPage
<1> QED
  BY <1>1, <1>2, <1>4, <1>6

(* CLOCK takes a page whose reference bit is set only when every bit is    *)
(* set, or when a page whose bit is clear has a negative id: for any ring  *)
(* and any position of the hand.                                           *)
THEOREM ClockSparesReferenced == Spec => ClockSecondChance
<1> DEFINE Chance == policy = "CLOCK" /\ Exchanged /\ table[evicted'].ref
                       => \/ \A p \in Resident : table[p].ref
                          \/ \E p \in Resident \ Evictable : ~table[p].ref
<1>1. ASSUME Inv, [PTNext]_ptVars PROVE Chance
  <2> SUFFICES ASSUME policy = "CLOCK", Exchanged, table[evicted'].ref,
                      NEW q \in Resident, ~table[q].ref
               PROVE  \E p \in Resident \ Evictable : ~table[p].ref
    BY DEF Chance
  <2>1. PICK r \in Pages, c \in Contents : InsertEvict(r, c)
    BY <1>1, ExchangedByEvict
  <2>2. Len(ring) >= RamFrames /\ evicted' = ClockVictim
    BY <2>1 DEF InsertEvict, Victim
  <2> DEFINE n == Len(ring)
             v == ClockPage(ClockSteps)
  <2>3. ring # <<>> /\ n \in Nat /\ n >= 1 /\ Range(ring) = Resident
    BY <1>1, <2>2, InvFacts, RamFramesAssumption
  <2>4. /\ ClockSteps \in Nat /\ \A d \in ClockStops : ClockSteps <= d
        /\ v \in Resident /\ (ClockSteps >= n \/ ~table[v].ref)
    BY <1>1, <2>2, <2>3, ClockFinds DEF ClockStops
  <2>5. PICK d \in 0 .. n - 1 : ClockPage(d) = q
    BY <1>1, <2>3, ClockGoesRound
  <2>6. d \in ClockStops /\ d < n
    BY <2>3, <2>5 DEF ClockStops, Resident
  <2>7. ~table[v].ref
    BY <2>3, <2>4, <2>6
  <2>8. v < 0 /\ v \in Int
    BY <2>2, <2>4, <2>7, PagesAssumption DEF ClockVictim, Resident
  <2> QED
    BY <2>4, <2>7, <2>8 DEF Evictable
<1>2. Inv /\ [PTNext]_ptVars => [Chance]_ptVars
  BY <1>1
<1> QED
  BY <1>2, InitInv, StepInv, PTL DEF Spec, ClockSecondChance

(* Under LRU the list of the policy is the order of the timestamps, as     *)
(* long as nobody switches policies: a switch rebuilds it in ring order.   *)
LruMirrors == policy = "LRU" => lru = Reverse(recency)

LEMMA LruStep ==
  ASSUME Pages \subseteq Nat, Inv, LruMirrors, [FixedNext]_ptVars
  PROVE  LruMirrors'
<1> SUFFICES ASSUME policy' = "LRU" PROVE lru' = Reverse(recency')
  BY DEF LruMirrors
<1>1. policy = "LRU"
  BY DEF FixedNext, Use, Access, PageOut, Insert, Overwrite, InsertFree, InsertEvict, ptVars
<1>2. /\ lru = Reverse(recency) /\ recency \in Seq(Pages) /\ IsInjective(recency)
      /\ lru \in Seq(Pages) /\ IsInjective(lru) /\ Range(lru) = Resident
  BY <1>1, InvFacts, ReverseOf DEF LruMirrors
<1>3. ASSUME NEW x PROVE Without(lru, x) = Reverse(Without(recency, x))
  BY <1>2, ReverseWithout
<1>4. ASSUME NEW s \in Seq(Pages), NEW x \in Pages
      PROVE  Reverse(Append(s, x)) = <<x>> \o Reverse(s)
  BY ReverseAppend
<1>5. ASSUME NEW x PROVE Without(recency, x) \in Seq(Pages)
  BY <1>2, WithoutOf
<1>6. ASSUME NEW p \in Pages, table[p].valid, Touch(p) PROVE lru' = Reverse(recency')
  <2>1. p \in Range(lru)
    BY <1>2, <1>6 DEF Resident
  <2>2. lru' = <<p>> \o Without(lru, p) /\ recency' = Append(Without(recency, p), p)
    BY <2>1, <1>1, <1>6 DEF Touch
  <2> QED
    BY <2>2, <1>3, <1>4, <1>5
<1>7. ASSUME NEW p \in Pages, NEW c \in Contents, InsertFree(p, c)
      PROVE  lru' = Reverse(recency')
  <2>1. lru' = <<p>> \o lru /\ recency' = Append(recency, p)
    BY <1>1, <1>7 DEF InsertFree
  <2> QED
    BY <2>1, <1>2, <1>4
<1>8. ASSUME NEW p \in Pages, NEW c \in Contents, InsertEvict(p, c)
      PROVE  lru' = Reverse(recency')
  <2>1. Victim \in Resident /\ Victim >= 0
    <3>1. \A q \in Resident : q >= 0
      BY DEF Resident
    <3>2. Evictable = Resident
      BY <3>1 DEF Evictable
    <3> QED
      BY <3>1, <3>2, <1>1, <1>8, VictimFound DEF InsertEvict
  <2>2. lru # <<>>
    BY <2>1, <1>2 DEF Range
  <2>3. Victim = Last(lru) /\ Front(lru) = Without(lru, Victim)
    BY <2>2, <1>1, <1>2, FrontWithout DEF Victim, LruVictim
  <2>4. lru' = <<p>> \o Without(lru, Victim) /\ recency' = Append(Without(recency, Victim), p)
    BY <2>1, <2>2, <2>3, <1>1, <1>8 DEF InsertEvict, Evicted
  <2> QED
    BY <2>4, <1>3, <1>4, <1>5
<1>9. ASSUME NEW p \in Pages, PageOut(p) PROVE lru' = Reverse(recency')
  BY <1>1, <1>3, <1>9 DEF PageOut
<1>10. CASE UNCHANGED ptVars
  BY <1>2, <1>10 DEF ptVars
<1> QED
  BY <1>6, <1>7, <1>8, <1>9, <1>10 DEF FixedNext, Use, Access, Insert, Overwrite

(* A server that keeps to LRU evicts the page whose last use is the oldest *)
(* (page ids are not negative): the order of the list is that of the       *)
(* timestamps whatever is read, written and paged out in between.          *)
THEOREM LruTakesOldest ==
  ASSUME Pages \subseteq Nat
  PROVE  FixedSpec => LruEvictsOldest
<1>1. PTInit => LruMirrors
  <2>1. Reverse(<<>>) = <<>>
    BY DEF Reverse
  <2> QED
    BY <2>1 DEF PTInit, LruMirrors
<1>2. Inv /\ LruMirrors /\ [FixedNext]_ptVars
        => [policy = "LRU" /\ Exchanged => evicted' = Head(recency)]_ptVars
  <2> SUFFICES ASSUME Inv, LruMirrors, [FixedNext]_ptVars, policy = "LRU", Exchanged
               PROVE  evicted' = Head(recency)
    OBVIOUS
  <2>1. PICK p \in Pages, c \in Contents : InsertEvict(p, c)
    BY FixedIsAny, ExchangedByEvict
  <2>2. ring # <<>> /\ recency # <<>> /\ recency \in Seq(Pages)
    <3>1. Len(ring) >= 1 /\ ring \in Seq(Pages)
      BY <2>1, InvFacts, RamFramesAssumption DEF InsertEvict
    <3>2. ring[1] \in Range(recency)
      BY <3>1, InvFacts, Elements
    <3> QED
      BY <3>1, <3>2, InvFacts DEF Range
  <2>3. /\ lru = Reverse(recency) /\ Len(lru) = Len(recency) /\ Len(recency) \in Nat \ {0}
        /\ Last(lru) = recency[1]
    <3>1. lru = Reverse(recency) /\ Len(recency) \in 1 .. Len(recency)
      BY <2>2 DEF LruMirrors
    <3>2. Len(lru) = Len(recency) /\ lru[Len(recency)] = recency[(Len(recency) - Len(recency)) + 1]
      BY <2>2, <3>1, ReverseAt
    <3> QED
      BY <2>2, <3>1, <3>2 DEF Last
  <2>4. lru # <<>>
    BY <2>3
  <2> QED
    BY <2>1, <2>2, <2>3, <2>4 DEF InsertEvict, Victim, LruVictim
<1>3. Inv /\ LruMirrors /\ [FixedNext]_ptVars => Inv' /\ LruMirrors'
  BY FixedIsAny, StepInv, LruStep
<1> QED
  BY <1>1, <1>2, <1>3, InitInv, PTL DEF FixedSpec, LruEvictsOldest

(* The content of every page, None when it is not resident: what PageCache *)
(* calls the cache.                                                        *)
Content == [p \in Pages |-> table[p].content]

(* PageCache counts with its own instance of FiniteSets.                   *)
LEMMA SameCount ==
  ASSUME NEW S
  PROVE  Cache!Cardinality(S) = Cardinality(S)
  BY DEF Cache!Cardinality, Cardinality, Cache!IsFiniteSet, IsFiniteSet

LEMMA CachedIsResident ==
  ASSUME Inv
  PROVE  /\ Cache!Cached = Resident
         /\ Cache!Cardinality(Cache!Cached) = Len(ring)
<1>1. \A p \in Pages : Content[p] # None <=> table[p].valid
  BY EntryFields, InvFacts, ContentsAssumption DEF Content, NoEntry
<1>2. Cache!Cached = Resident
  BY <1>1 DEF Cache!Cached, Resident, Content
<1>3. Cardinality(Resident) = Len(ring)
  BY InvFacts, DistinctLength
<1> QED
  BY <1>2, <1>3, SameCount

(* Each operation is one of the cache's, or none.                          *)
LEMMA CacheStep ==
  ASSUME Pages \subseteq Nat, "FIFO" \notin Policies, Inv, RamBounded, [PTNext]_ptVars
  PROVE  \/ Content' = Content /\ evicted' = evicted
         \/ Cache!Next
<1>1. /\ Cache!Cached = Resident /\ Cache!Cardinality(Cache!Cached) = Len(ring)
      /\ table = [p \in Pages |-> table[p]]
      /\ Len(ring) \in Nat /\ RamFrames \in Nat
  BY CachedIsResident, InvFacts, RamFramesAssumption DEF Inv, TypeOK
<1>2. ASSUME NEW p \in Pages, NEW c \in Contents, Overwrite(p, c) PROVE Cache!Replace(p, c)
  <2>1. Content' = [Content EXCEPT ![p] = c]
    BY <1>1, <1>2 DEF Overwrite, Content, UsedEntry
  <2>2. p \in Resident /\ evicted' = -1
    BY <1>2 DEF Overwrite, Resident, NoPage
  <2> QED
    BY <1>1, <2>1, <2>2 DEF Cache!Replace, Content
<1>3. ASSUME NEW p \in Pages, NEW c \in Contents, InsertFree(p, c) PROVE Cache!Add(p, c)
  <2>1. Content' = [Content EXCEPT ![p] = c]
    BY <1>1, <1>3 DEF InsertFree, Content, NewEntry, UsedEntry
  <2>2. p \notin Resident /\ evicted' = -1 /\ Len(ring) < RamFrames
    BY <1>3 DEF InsertFree, Resident, NoPage
  <2>3. p \notin Cache!Cached /\ Cache!Cardinality(Cache!Cached) < RamFrames
    BY <1>1, <2>2
  <2> QED
    BY <2>1, <2>2, <2>3 DEF Cache!Add, Content
<1>4. ASSUME NEW p \in Pages, NEW c \in Contents, InsertEvict(p, c)
      PROVE  \E v \in Pages : Cache!Exchange(p, v, c)
  <2>1. p \notin Resident /\ evicted' = Victim /\ Len(ring) = RamFrames
    BY <1>1, <1>4 DEF InsertEvict, Resident, RamBounded
  <2>2. Victim \in Resident /\ Outgoing = {Victim}
    <3>1. \A q \in Resident : q >= 0
      BY DEF Resident
    <3>2. Evictable = Resident /\ policy # "FIFO"
      BY <3>1 DEF Evictable, Inv, TypeOK
    <3>3. Victim \in Resident
      BY <1>4, <3>2, VictimFound DEF InsertEvict
    <3> QED
      BY <3>1, <3>3 DEF Outgoing
  <2>3. ASSUME NEW q \in Pages
        PROVE  Content'[q] = IF q = p THEN c ELSE IF q = Victim THEN None ELSE Content[q]
    <3>1. CASE q = p
      BY <1>4, <3>1 DEF InsertEvict, Content, NewEntry, UsedEntry
    <3>2. CASE q # p /\ q = Victim
      BY <1>4, <2>2, <3>2 DEF InsertEvict, Content, NoEntry
    <3>3. CASE q # p /\ q # Victim
      <4>1. table'[q] \in {Unreferenced(table[q]), table[q]}
        BY <1>4, <2>2, <3>3 DEF InsertEvict
      <4> QED
        BY <3>3, <4>1 DEF Content, Unreferenced
    <3> QED
      BY <3>1, <3>2, <3>3
  <2>4. Content' = [Content EXCEPT ![Victim] = None, ![p] = c]
    BY <2>3 DEF Content
  <2>5. /\ p \notin Cache!Cached /\ Cache!Cardinality(Cache!Cached) = RamFrames
        /\ Victim \in Cache!Cached /\ Victim \in Pages
    BY <1>1, <2>1, <2>2 DEF Resident
  <2>6. evicted' = Victim
    BY <2>1
  <2> HIDE DEF Content
  <2>7. Cache!Exchange(p, Victim, c)
    BY <2>4, <2>5, <2>6 DEF Cache!Exchange, Content
  <2> QED
    BY <2>5, <2>7
<1>5. ASSUME NEW p \in Pages, Access(p) PROVE Content' = Content /\ evicted' = evicted
  BY <1>1, <1>5 DEF Access, Content, UsedEntry
<1>6. ASSUME NEW p \in Pages, PageOut(p) PROVE Cache!Drop(p)
  <2>1. Content' = [Content EXCEPT ![p] = None]
    BY <1>1, <1>6 DEF PageOut, Content, NoEntry
  <2>2. p \in Resident /\ evicted' = evicted
    BY <1>6 DEF PageOut, Resident
  <2> QED
    BY <1>1, <2>1, <2>2 DEF Cache!Drop, Content
<1>7. ASSUME NEW q \in Policies, SetPolicy(q) PROVE Content' = Content /\ evicted' = evicted
  BY <1>7 DEF SetPolicy, Content
<1>8. CASE UNCHANGED ptVars
  BY <1>8 DEF ptVars, Content
<1> QED
  BY <1>2, <1>3, <1>4, <1>5, <1>6, <1>7, <1>8 DEF PTNext, Use, Insert, Cache!Next

(* The table implements a bounded cache that drops one page at most, only  *)
(* when it is full, and names it: with any frames, any policies but FIFO,  *)
(* switched at any time, and page ids that are not negative.               *)
THEOREM ImplementsCache ==
  ASSUME Pages \subseteq Nat, "FIFO" \notin Policies
  PROVE  Spec => CacheSpec
<1>1. PTInit => Cache!Init
  BY DEF PTInit, Cache!Init, NoEntry, NoPage
<1>2. PTInit => Inv /\ RamBounded
  BY BoundedInit
<1>3. Inv /\ RamBounded /\ [PTNext]_ptVars => Inv' /\ RamBounded'
  BY BoundedStep
<1>4. Inv /\ RamBounded /\ [PTNext]_ptVars
        => [Cache!Next]_<<[p \in Pages |-> table[p].content], evicted>>
  BY CacheStep DEF Content
<1> QED
  BY <1>1, <1>2, <1>3, <1>4, PTL DEF Spec, CacheSpec, Cache!Spec

(* So does the server whose policy never changes.                          *)
COROLLARY FixedImplementsCache ==
  ASSUME Pages \subseteq Nat, "FIFO" \notin Policies
  PROVE  FixedSpec => CacheSpec
<1>1. FixedSpec => Spec
  BY FixedIsAny, PTL DEF FixedSpec, Spec
<1> QED
  BY <1>1, ImplementsCache, PTL

-----------------------------------------------------------------------------
(* The memory calls: types, and what a thread holds at each place.         *)

Request == [call : {"none", "mem_alloc", "mem_free", "mem_read"},
            pid : Pids \cup {None}, page : Pages \cup {None},
            content : Contents \cup {None}]
Find    == [page : Pages \cup {None}, content : Contents \cup {None}]
Real    == Contents \ {Empty}

Shape(l, r, f) ==
  /\ l \in Labels /\ r \in Request /\ f \in Find
  /\ l # "idle" => r.pid \in Pids /\ r.page \in Pages
  /\ l = "store" => r.content \in Real
  /\ l = "insert" => r.content \in Contents
  /\ l \in {"page_in", "remove", "resume"} => f.page \in Pages /\ f.content \in Real

Places ==
  /\ pc = [t \in Threads |-> pc[t]] /\ req = [t \in Threads |-> req[t]]
  /\ found = [t \in Threads |-> found[t]]
  /\ \A t \in Threads : Shape(pc[t], req[t], found[t])

Stores ==
  /\ disk \in [Pages -> Real \cup {None}]
  /\ state \in [Pids -> {"RUNNING", "WAITING", "READY"}]
  /\ latest \in [Pages -> Contents \cup {None}]
  /\ raced \subseteq Pages

MemInv == Inv /\ Places /\ Stores

LEMMA MemInvTypes == MemInv => KMTypeOK
  BY DEF MemInv, Inv, Places, Stores, Shape, KMTypeOK, Request, Find, Real

LEMMA IdleShape == Shape("idle", Idle, NoFind)
  BY DEF Shape, Labels, Idle, NoFind, Request, Find

(* A thread goes to a place with what it holds there; the others stay.     *)
LEMMA Moves ==
  ASSUME Places, NEW t \in Threads, NEW l, NEW r, NEW f, Shape(l, r, f),
         pc' = [pc EXCEPT ![t] = l], req' = [req EXCEPT ![t] = r],
         found' = [found EXCEPT ![t] = f]
  PROVE  Places'
<1> USE DEF Places
<1>1. /\ pc' = [u \in Threads |-> pc'[u]] /\ req' = [u \in Threads |-> req'[u]]
      /\ found' = [u \in Threads |-> found'[u]]
  OBVIOUS
<1>2. ASSUME NEW u \in Threads PROVE Shape(pc'[u], req'[u], found'[u])
  <2>1. CASE u = t
    BY <2>1
  <2>2. CASE u # t
    <3>1. pc'[u] = pc[u] /\ req'[u] = req[u] /\ found'[u] = found[u]
      BY <2>2
    <3> QED
      BY <3>1
  <2> QED
    BY <2>1, <2>2
<1> QED
  BY <1>1, <1>2

LEMMA GoesTo ==
  ASSUME Places, NEW t \in Threads, NEW l, Shape(l, req[t], found[t]),
         Goto(t, l), UNCHANGED <<req, found>>
  PROVE  Places'
<1>1. req' = [req EXCEPT ![t] = req[t]] /\ found' = [found EXCEPT ![t] = found[t]]
  BY DEF Places
<1>2. pc' = [pc EXCEPT ![t] = l]
  BY DEF Goto
<1> DEFINE r == req[t]
           f == found[t]
<1>3. Shape(l, r, f) /\ req' = [req EXCEPT ![t] = r] /\ found' = [found EXCEPT ![t] = f]
  BY <1>1
<1> HIDE DEF r, f
<1> QED
  BY <1>2, <1>3, Moves

LEMMA Replies ==
  ASSUME Places, NEW t \in Threads, Reply(t)
  PROVE  Places'
  BY IdleShape, Moves DEF Reply, Goto

LEMMA Receives ==
  ASSUME Places, NEW t \in Threads, NEW i \in Pids, NEW p \in Pages, NEW c, NEW call, NEW l,
         Shape(l, [call |-> call, pid |-> i, page |-> p, content |-> c], found[t]),
         Receive(t, call, i, p, c, l)
  PROVE  Places'
<1>1. found' = [found EXCEPT ![t] = found[t]]
  BY DEF Places, Receive
<1> QED
  BY <1>1, Moves DEF Receive, Goto

-----------------------------------------------------------------------------
(* One lemma per step: a step of the table or a stutter of it, and the     *)
(* rest of the invariant.                                                  *)

Kept == [PTNext]_ptVars /\ Places' /\ Stores'

LEMMA CallKept ==
  ASSUME MemInv, NEW t \in Threads, Calls(t)
  PROVE  Kept
<1> USE DEF MemInv
<1>1. pc[t] = "idle" /\ UNCHANGED <<ptVars, disk, state, found, latest, raced>>
  BY DEF Calls, MemRead, MemAlloc, MemFree, Receive
<1>2. Stores'
  BY <1>1 DEF Stores
<1>3. found[t] \in Find
  BY DEF Places, Shape
<1>4. ASSUME NEW i \in Pids, NEW p \in Pages, MemRead(t, i, p) PROVE Places'
  <2>1. Shape("access", [call |-> "mem_read", pid |-> i, page |-> p, content |-> None], found[t])
    BY <1>3 DEF Shape, Labels, Request
  <2> QED
    BY <1>4, <2>1, Receives DEF MemRead
<1>5. ASSUME NEW i \in Pids, NEW p \in Pages, NEW c \in Contents, MemAlloc(t, i, p, c)
      PROVE  Places'
  <2> DEFINE l == IF c = Empty THEN "insert" ELSE "store"
  <2>1. Shape(l, [call |-> "mem_alloc", pid |-> i, page |-> p, content |-> c], found[t])
    BY <1>3 DEF Shape, Labels, Request, Real
  <2> QED
    BY <1>5, <2>1, Receives DEF MemAlloc
<1>6. ASSUME NEW i \in Pids, NEW p \in Pages, NEW c \in Contents, MemFree(t, i, p, c)
      PROVE  Places'
  <2> DEFINE l == IF c = Empty THEN "page_out" ELSE "store"
  <2>1. Shape(l, [call |-> "mem_free", pid |-> i, page |-> p, content |-> c], found[t])
    BY <1>3 DEF Shape, Labels, Request, Real
  <2> QED
    BY <1>6, <2>1, Receives DEF MemFree
<1> QED
  BY <1>1, <1>2, <1>4, <1>5, <1>6 DEF Calls, Kept

LEMMA SetPolicyKept ==
  ASSUME MemInv, NEW t \in Threads, CallSetPolicy(t)
  PROVE  Kept
<1>1. PTNext
  BY DEF CallSetPolicy, PTNext
<1>2. Places' /\ Stores'
  BY DEF CallSetPolicy, MemInv, memVars, Places, Stores
<1> QED
  BY <1>1, <1>2 DEF Kept

LEMMA StoreKept ==
  ASSUME MemInv, NEW t \in Threads, Store(t)
  PROVE  Kept
<1> DEFINE p == req[t].page
<1>1. Shape("store", req[t], found[t])
  BY DEF Store, MemInv, Places
<1>2. p \in Pages /\ req[t].content \in Real /\ req[t].content \in Contents
  BY <1>1 DEF Shape, Real
<1>3. /\ disk' = [disk EXCEPT ![p] = req[t].content]
      /\ latest' = [latest EXCEPT ![p] = req[t].content]
      /\ raced' \subseteq raced \cup {p} /\ state' = state
      /\ UNCHANGED <<ptVars, req, found>>
  BY DEF Store
<1>4. Stores'
  BY <1>2, <1>3 DEF MemInv, Stores
<1>5. PICK l \in {"insert", "page_out"} : Goto(t, l)
  BY DEF Store
<1>6. Shape(l, req[t], found[t])
  BY <1>1, <1>2, <1>5 DEF Shape, Labels
<1>7. Places'
  BY <1>3, <1>5, <1>6, GoesTo DEF MemInv
<1> QED
  BY <1>3, <1>4, <1>7 DEF Kept

LEMMA AllocInsertKept ==
  ASSUME MemInv, NEW t \in Threads, AllocInsert(t)
  PROVE  Kept
<1>1. Shape("insert", req[t], found[t])
  BY DEF AllocInsert, MemInv, Places
<1>2. req[t].page \in Pages /\ req[t].content \in Contents
  BY <1>1 DEF Shape
<1>3. PTNext
  BY <1>2 DEF AllocInsert, PTNext, Use
<1>4. Stores'
  BY <1>2 DEF AllocInsert, MemInv, Stores
<1>5. Places'
  BY Replies DEF AllocInsert, MemInv
<1> QED
  BY <1>3, <1>4, <1>5 DEF Kept

LEMMA FreePageOutKept ==
  ASSUME MemInv, NEW t \in Threads, FreePageOut(t)
  PROVE  Kept
<1>1. Shape("page_out", req[t], found[t])
  BY DEF FreePageOut, MemInv, Places
<1>2. req[t].page \in Pages
  BY <1>1 DEF Shape
<1>3. [PTNext]_ptVars
  BY <1>2 DEF FreePageOut, PTNext, Use
<1>4. Stores'
  BY DEF FreePageOut, MemInv, Stores
<1>5. Places'
  BY Replies DEF FreePageOut, MemInv
<1> QED
  BY <1>3, <1>4, <1>5 DEF Kept

LEMMA ReadKept ==
  ASSUME MemInv, NEW t \in Threads, ReadHit(t) \/ ReadMiss(t)
  PROVE  Kept
<1>1. Shape("access", req[t], found[t])
  BY DEF ReadHit, ReadMiss, MemInv, Places
<1>2. req[t].page \in Pages
  BY <1>1 DEF Shape
<1>3. [PTNext]_ptVars
  BY <1>2 DEF ReadHit, ReadMiss, PTNext, Use
<1>4. Stores'
  BY DEF ReadHit, ReadMiss, MemInv, Stores
<1>5. CASE ReadHit(t)
  <2>1. Places'
    BY <1>5, Replies DEF ReadHit, MemInv
  <2> QED
    BY <1>3, <1>4, <2>1 DEF Kept
<1>6. CASE ReadMiss(t)
  <2>1. Shape("fault", req[t], found[t])
    BY <1>1 DEF Shape, Labels
  <2>2. Places'
    BY <1>6, <2>1, GoesTo DEF ReadMiss, MemInv
  <2> QED
    BY <1>3, <1>4, <2>2 DEF Kept
<1> QED
  BY <1>5, <1>6

LEMMA FaultKept ==
  ASSUME MemInv, NEW t \in Threads, Fault(t)
  PROVE  Kept
<1>1. Shape("fault", req[t], found[t])
  BY DEF Fault, MemInv, Places
<1>2. Shape("retrieve", req[t], found[t]) /\ req[t].pid \in Pids
  BY <1>1 DEF Shape, Labels
<1>3. Places'
  BY <1>2, GoesTo DEF Fault, MemInv
<1>4. Stores'
  BY <1>2 DEF Fault, MemInv, Stores
<1> QED
  BY <1>3, <1>4 DEF Kept, Fault

(* A copy read from the disk is a content of the page it was read for.     *)
LEMMA FindsCopy ==
  ASSUME MemInv, NEW t \in Threads, NEW q \in Pages, Stored(q), pc[t] # "idle",
         Goto(t, "page_in"), UNCHANGED req,
         found' = [found EXCEPT ![t] = [page |-> q, content |-> disk[q]]]
  PROVE  Places'
<1>1. disk[q] \in Real
  BY DEF MemInv, Stores, Stored
<1>2. req[t] \in Request /\ req[t].pid \in Pids /\ req[t].page \in Pages
  BY DEF MemInv, Places, Shape
<1>3. Shape("page_in", req[t], [page |-> q, content |-> disk[q]])
  BY <1>1, <1>2 DEF Shape, Labels, Find, Real
<1>4. req' = [req EXCEPT ![t] = req[t]]
  BY DEF MemInv, Places
<1> QED
  BY <1>3, <1>4, Moves DEF Goto, MemInv

LEMMA RetrieveKept ==
  ASSUME MemInv, NEW t \in Threads, Retrieve(t)
  PROVE  Kept
<1> DEFINE p == req[t].page
<1>1. Shape("retrieve", req[t], found[t])
  BY DEF Retrieve, MemInv, Places
<1>2. p \in Pages /\ Shape("search", req[t], found[t])
  BY <1>1 DEF Shape, Labels
<1>3. Stores' /\ UNCHANGED <<ptVars, req>>
  BY DEF Retrieve, MemInv, Stores
<1>4. CASE Stored(p)
  <2>1. Places'
    BY <1>2, <1>3, <1>4, FindsCopy DEF Retrieve
  <2> QED
    BY <1>3, <2>1 DEF Kept
<1>5. CASE ~Stored(p)
  <2>1. Places'
    BY <1>2, <1>3, <1>5, GoesTo DEF Retrieve, MemInv
  <2> QED
    BY <1>3, <2>1 DEF Kept
<1> QED
  BY <1>4, <1>5

LEMMA SearchKept ==
  ASSUME MemInv, NEW t \in Threads, SearchMatch(t) \/ SearchFails(t)
  PROVE  Kept
<1>1. CASE SearchMatch(t)
  <2>1. Stores' /\ UNCHANGED <<ptVars, req>>
    BY <1>1 DEF SearchMatch, MemInv, Stores
  <2>2. Places'
    BY <1>1, <2>1, FindsCopy DEF SearchMatch
  <2> QED
    BY <2>1, <2>2 DEF Kept
<1>2. CASE SearchFails(t)
  <2>1. Shape("search", req[t], found[t])
    BY <1>2 DEF SearchFails, MemInv, Places
  <2>2. req[t].pid \in Pids
    BY <2>1 DEF Shape
  <2>3. Places'
    BY <1>2, Replies DEF SearchFails, MemInv
  <2>4. Stores'
    BY <1>2, <2>2 DEF SearchFails, MemInv, Stores
  <2> QED
    BY <1>2, <2>3, <2>4 DEF Kept, SearchFails
<1> QED
  BY <1>1, <1>2

LEMMA PageInKept ==
  ASSUME MemInv, NEW t \in Threads, PageIn(t)
  PROVE  Kept
<1>1. Shape("page_in", req[t], found[t])
  BY DEF PageIn, MemInv, Places
<1>2. found[t].page \in Pages /\ found[t].content \in Contents
  BY <1>1 DEF Shape, Real
<1>3. PTNext
  BY <1>2 DEF PageIn, PTNext, Use
<1>4. Shape("remove", req[t], found[t])
  BY <1>1 DEF Shape, Labels
<1>5. Places'
  BY <1>4, GoesTo DEF PageIn, MemInv
<1>6. Stores'
  BY DEF PageIn, MemInv, Stores
<1> QED
  BY <1>3, <1>5, <1>6 DEF Kept

LEMMA RemoveStoredKept ==
  ASSUME MemInv, NEW t \in Threads, RemoveStored(t)
  PROVE  Kept
<1>1. Shape("remove", req[t], found[t])
  BY DEF RemoveStored, MemInv, Places
<1>2. Shape("resume", req[t], found[t]) /\ found[t].page \in Pages
  BY <1>1 DEF Shape, Labels
<1>3. Places'
  BY <1>2, GoesTo DEF RemoveStored, MemInv
<1>4. Stores'
  BY <1>2 DEF RemoveStored, MemInv, Stores
<1> QED
  BY <1>3, <1>4 DEF Kept, RemoveStored

LEMMA ResumeKept ==
  ASSUME MemInv, NEW t \in Threads, Resume(t)
  PROVE  Kept
<1>1. Shape("resume", req[t], found[t])
  BY DEF Resume, MemInv, Places
<1>2. req[t].pid \in Pids
  BY <1>1 DEF Shape
<1>3. Places'
  BY Replies DEF Resume, MemInv
<1>4. Stores'
  BY <1>2 DEF Resume, MemInv, Stores
<1> QED
  BY <1>3, <1>4 DEF Kept, Resume

LEMMA StepKept ==
  ASSUME MemInv, [KMNext]_kmVars
  PROVE  Kept
<1>1. CASE UNCHANGED kmVars
  BY <1>1 DEF kmVars, memVars, MemInv, Kept, Places, Stores
<1>2. ASSUME NEW t \in Threads, Serve(t) PROVE Kept
  BY <1>2, StoreKept, AllocInsertKept, FreePageOutKept, ReadKept, FaultKept, RetrieveKept,
     SearchKept, PageInKept, RemoveStoredKept, ResumeKept DEF Serve
<1> QED
  BY <1>1, <1>2, CallKept, SetPolicyKept DEF KMNext

LEMMA MemInit == KMInit => MemInv
<1> SUFFICES ASSUME KMInit PROVE MemInv
  OBVIOUS
<1>1. Inv
  BY InitInv DEF KMInit
<1>2. Places
  BY IdleShape DEF KMInit, Places
<1>3. Stores
  BY DEF KMInit, Stores
<1> QED
  BY <1>1, <1>2, <1>3 DEF MemInv

LEMMA MemStep == MemInv /\ [KMNext]_kmVars => MemInv'
  BY StepKept, StepInv DEF MemInv, Kept

(* However many clients call at the same time, their system calls keep the *)
(* types of the disk, the processes and the calls under way.               *)
THEOREM CallTypes == KMSpec => []KMTypeOK
  BY MemInit, MemStep, MemInvTypes, PTL DEF KMSpec

(* The table sees the interleaved calls of all clients as a sequence of    *)
(* its own operations: whatever is proved of PageTable holds under them.   *)
THEOREM CallsUseTable == KMSpec => Spec
<1>1. KMInit => PTInit
  BY DEF KMInit
<1>2. MemInv /\ [KMNext]_kmVars => [PTNext]_ptVars
  BY StepKept DEF Kept
<1> QED
  BY <1>1, <1>2, MemInit, MemStep, PTL DEF KMSpec, Spec

(* So whatever the clients call, the table keeps what it keeps by itself.  *)
COROLLARY TableUnderCalls ==
  KMSpec => []TableOK /\ []ListsCoverRing /\ OverflowHasCause /\ ClockSecondChance
<1>1. (TypeOK /\ RingIsResident /\ RecencyIsResident /\ ListsCoverRing) => ListsCoverRing
  OBVIOUS
<1> QED
  BY <1>1, CallsUseTable, TableConsistent, TableTypes, OverflowExplained, ClockSparesReferenced, PTL

(* And it is a bounded cache of the pages the clients send.                *)
COROLLARY CacheUnderCalls ==
  ASSUME Pages \subseteq Nat, "FIFO" \notin Policies
  PROVE  KMSpec => []RamBounded /\ CacheSpec
<1>1. Spec => []RamBounded
  BY FramesRespected
<1>2. Spec => CacheSpec
  BY ImplementsCache
<1> QED
  BY <1>1, <1>2, CallsUseTable, PTL

-----------------------------------------------------------------------------
(* Page faults and the processes they block.                               *)

InFault(t) == pc[t] \in {"retrieve", "search", "page_in", "remove", "resume"}

LEMMA WaitingStep ==
  ASSUME MemInv, WaitingHasFault, [KMNext]_kmVars
  PROVE  WaitingHasFault'
<1> SUFFICES ASSUME NEW i \in Pids, state'[i] = "WAITING"
             PROVE  \E t \in Threads : req'[t].pid = i /\ InFault(t)'
  BY DEF WaitingHasFault, InFault
<1> DEFINE Goal == \E t \in Threads : req'[t].pid = i /\ InFault(t)'
<1>1. /\ pc = [t \in Threads |-> pc[t]] /\ req = [t \in Threads |-> req[t]]
      /\ state \in [Pids -> {"RUNNING", "WAITING", "READY"}]
  BY DEF MemInv, Places, Stores
<1>2. state[i] = "WAITING" => \E t \in Threads : req[t].pid = i /\ InFault(t)
  BY DEF WaitingHasFault, InFault
<1>3. ASSUME state' = state,
             \A t \in Threads : InFault(t) => InFault(t)' /\ req'[t] = req[t]
      PROVE  Goal
  BY <1>2, <1>3
<1>4. ASSUME NEW t \in Threads,
             \/ Calls(t) \/ CallSetPolicy(t) \/ Store(t) \/ AllocInsert(t) \/ FreePageOut(t)
             \/ ReadHit(t) \/ ReadMiss(t)
      PROVE  Goal
  <2>1. state' = state /\ ~InFault(t)
    BY <1>4 DEF Calls, MemRead, MemAlloc, MemFree, Receive, CallSetPolicy, memVars, Store,
                AllocInsert, FreePageOut, ReadHit, ReadMiss, InFault
  <2>2. \A u \in Threads \ {t} : pc'[u] = pc[u] /\ req'[u] = req[u]
    BY <1>1, <1>4
    DEF Calls, MemRead, MemAlloc, MemFree, Receive, CallSetPolicy, memVars, Store, AllocInsert,
        FreePageOut, ReadHit, ReadMiss, Reply, Goto
  <2> QED
    BY <2>1, <2>2, <1>3 DEF InFault
<1>5. ASSUME NEW t \in Threads, Retrieve(t) \/ SearchMatch(t) \/ PageIn(t) \/ RemoveStored(t)
      PROVE  Goal
  <2>1. state' = state /\ req' = req /\ InFault(t)'
    BY <1>1, <1>5 DEF Retrieve, SearchMatch, PageIn, RemoveStored, Goto, InFault
  <2>2. \A u \in Threads \ {t} : pc'[u] = pc[u]
    BY <1>1, <1>5 DEF Retrieve, SearchMatch, PageIn, RemoveStored, Goto
  <2> QED
    BY <2>1, <2>2, <1>3 DEF InFault
<1>6. ASSUME NEW t \in Threads, Fault(t) PROVE Goal
  <2>1. /\ req' = req /\ InFault(t)' /\ ~InFault(t)
        /\ i # req[t].pid => state'[i] = state[i]
        /\ \A u \in Threads \ {t} : pc'[u] = pc[u]
    BY <1>1, <1>6 DEF Fault, Goto, InFault
  <2> QED
    BY <2>1, <1>2 DEF InFault
<1>7. ASSUME NEW t \in Threads, SearchFails(t) \/ Resume(t) PROVE Goal
  <2>1. /\ i # req[t].pid /\ state'[i] = state[i]
        /\ \A u \in Threads \ {t} : pc'[u] = pc[u] /\ req'[u] = req[u]
    BY <1>1, <1>7 DEF SearchFails, Resume, Reply, Goto
  <2> QED
    BY <2>1, <1>2 DEF InFault
<1>8. CASE UNCHANGED kmVars
  BY <1>3, <1>8 DEF kmVars, memVars, InFault
<1> QED
  BY <1>4, <1>5, <1>6, <1>7, <1>8 DEF KMNext, Serve

(* However many faults of one process overlap, with whatever ends, none    *)
(* leaves it WAITING when the last thread that works on one has replied.   *)
THEOREM FaultsEndWaiting == KMSpec => []WaitingHasFault
<1>1. KMInit => WaitingHasFault
  BY DEF KMInit, WaitingHasFault
<1> QED
  BY <1>1, WaitingStep, MemInit, MemStep, PTL DEF KMSpec

-----------------------------------------------------------------------------
(* Coherence of the copies of a page.                                      *)

(* Of a page that nobody raced for and that was not emptied: the copy on   *)
(* disk, those in the hands of page faults and of allocations, and the one *)
(* in RAM unless a writer is yet to replace it, are the last content sent. *)
CurrentAt(p) ==
  p \notin raced /\ latest[p] # Empty =>
    /\ Stored(p) => disk[p] = latest[p]
    /\ \A t \in Threads :
         pc[t] = "page_in" /\ found[t].page = p => found[t].content = latest[p]
    /\ \A t \in Threads :
         pc[t] = "insert" /\ req[t].page = p /\ req[t].content # Empty
           => req[t].content = latest[p]
    /\ table[p].valid => table[p].content = latest[p] \/ \E t \in Threads : Writing(t, p)

CopyInv == \A p \in Pages : CurrentAt(p)

(* What an operation of the table leaves of the contents.                  *)
SameOrGone(p) ==
  table'[p].valid => table[p].valid /\ table'[p].content = table[p].content

LEMMA InsertContents ==
  ASSUME Inv, NEW q \in Pages, NEW c \in Contents, Insert(q, c)
  PROVE  table'[q].content = c /\ \A p \in Pages \ {q} : SameOrGone(p)
<1>1. table = [p \in Pages |-> table[p]]
  BY DEF Inv, TypeOK
<1>2. CASE Overwrite(q, c)
  BY <1>1, <1>2 DEF Overwrite, UsedEntry, SameOrGone
<1>3. CASE InsertFree(q, c)
  BY <1>1, <1>3 DEF InsertFree, NewEntry, UsedEntry, SameOrGone
<1>4. CASE InsertEvict(q, c)
  <2>1. table'[q].content = c
    BY <1>4 DEF InsertEvict, NewEntry, UsedEntry
  <2>2. ASSUME NEW p \in Pages \ {q} PROVE SameOrGone(p)
    <3>1. table'[p] \in {NoEntry, Unreferenced(table[p]), table[p]}
      BY <1>4 DEF InsertEvict
    <3> QED
      BY <3>1 DEF SameOrGone, NoEntry, Unreferenced
  <2> QED
    BY <2>1, <2>2
<1> QED
  BY <1>2, <1>3, <1>4 DEF Insert

LEMMA OtherContents ==
  ASSUME Inv, NEW q \in Pages,
         Access(q) \/ PageOut(q) \/ (\E l \in Policies : SetPolicy(l)) \/ UNCHANGED ptVars
  PROVE  /\ \A p \in Pages : SameOrGone(p)
         /\ (PageOut(q) => ~table'[q].valid)
<1>1. table = [p \in Pages |-> table[p]]
  BY DEF Inv, TypeOK
<1>2. ASSUME Access(q) PROVE \A p \in Pages : SameOrGone(p)
  BY <1>1, <1>2 DEF Access, UsedEntry, SameOrGone
<1>3. ASSUME PageOut(q) PROVE (\A p \in Pages : SameOrGone(p)) /\ ~table'[q].valid
  BY <1>1, <1>3 DEF PageOut, NoEntry, SameOrGone
<1>4. ASSUME (\E l \in Policies : SetPolicy(l)) \/ UNCHANGED ptVars
      PROVE  \A p \in Pages : SameOrGone(p)
  <2>1. table' = table
    BY <1>4 DEF SetPolicy, ptVars
  <2> QED
    BY <2>1 DEF SameOrGone
<1> QED
  BY <1>2, <1>3, <1>4

(* A step that sends no new content of p keeps its copies current.         *)
LEMMA StaysCurrent ==
  ASSUME MemInv, NEW p \in Pages, CurrentAt(p),
         latest'[p] = latest[p], p \in raced => p \in raced',
         disk'[p] \in {disk[p], None},
         \A t \in Threads : pc'[t] = "page_in" /\ found'[t].page = p
            => \/ pc[t] = "page_in" /\ found'[t] = found[t]
               \/ Stored(p) /\ found'[t].content = disk[p],
         \A t \in Threads : pc'[t] = "insert" /\ req'[t].page = p /\ req'[t].content # Empty
            => pc[t] = "insert" /\ req'[t] = req[t],
         SameOrGone(p) \/ table'[p].content = latest[p],
         \A t \in Threads : Writing(t, p)
            => Writing(t, p)' \/ ~table'[p].valid \/ table'[p].content = latest[p]
  PROVE  CurrentAt(p)'
<1> SUFFICES ASSUME p \notin raced', latest'[p] # Empty PROVE CurrentAt(p)'
  BY DEF CurrentAt
<1>1. p \notin raced /\ latest[p] # Empty
  OBVIOUS
<1>2. Stored(p)' => disk'[p] = latest'[p]
  BY <1>1 DEF CurrentAt, Stored
<1>3. \A t \in Threads :
        pc'[t] = "page_in" /\ found'[t].page = p => found'[t].content = latest'[p]
  BY <1>1 DEF CurrentAt
<1>4. \A t \in Threads :
        pc'[t] = "insert" /\ req'[t].page = p /\ req'[t].content # Empty
          => req'[t].content = latest'[p]
  BY <1>1 DEF CurrentAt
<1>5. table'[p].valid
        => table'[p].content = latest'[p] \/ \E t \in Threads : Writing(t, p)'
  BY <1>1 DEF CurrentAt, SameOrGone
<1> QED
  BY <1>2, <1>3, <1>4, <1>5 DEF CurrentAt

(* The steps of thread t leave the other threads where they are.           *)
OthersStay(t) ==
  \A u \in Threads \ {t} : pc'[u] = pc[u] /\ req'[u] = req[u] /\ found'[u] = found[u]

LEMMA ServeAlone ==
  ASSUME MemInv, NEW t \in Threads, Calls(t) \/ Serve(t)
  PROVE  OthersStay(t)
<1>1. /\ pc = [u \in Threads |-> pc[u]] /\ req = [u \in Threads |-> req[u]]
      /\ found = [u \in Threads |-> found[u]]
  BY DEF MemInv, Places
<1> USE DEF OthersStay
<1>2. CASE Calls(t)
  BY <1>1, <1>2 DEF Calls, MemRead, MemAlloc, MemFree, Receive, Goto
<1>3. CASE Store(t) \/ AllocInsert(t) \/ FreePageOut(t) \/ ReadHit(t) \/ ReadMiss(t)
  BY <1>1, <1>3 DEF Store, AllocInsert, FreePageOut, ReadHit, ReadMiss, Reply, Goto
<1>4. CASE Fault(t) \/ Retrieve(t) \/ SearchMatch(t) \/ SearchFails(t)
  BY <1>1, <1>4 DEF Fault, Retrieve, SearchMatch, SearchFails, Reply, Goto
<1>5. CASE PageIn(t) \/ RemoveStored(t) \/ Resume(t)
  BY <1>1, <1>5 DEF PageIn, RemoveStored, Resume, Reply, Goto
<1> QED
  BY <1>2, <1>3, <1>4, <1>5 DEF Serve

LEMMA CopyStep ==
  ASSUME MemInv, CopyInv, [KMNext]_kmVars, NEW p \in Pages
  PROVE  CurrentAt(p)'
<1>1. /\ pc = [u \in Threads |-> pc[u]] /\ req = [u \in Threads |-> req[u]]
      /\ found = [u \in Threads |-> found[u]]
      /\ disk = [q \in Pages |-> disk[q]] /\ latest = [q \in Pages |-> latest[q]]
      /\ CurrentAt(p)
  BY DEF MemInv, Places, Stores, CopyInv
<1>2. \A t \in Threads : Shape(pc[t], req[t], found[t])
  BY DEF MemInv, Places
<1>3. ASSUME NEW t \in Threads, Calls(t) PROVE CurrentAt(p)'
  <2>1. OthersStay(t) /\ SameOrGone(p)
    BY <1>3, ServeAlone, OtherContents
    DEF MemInv, Calls, MemRead, MemAlloc, MemFree, Receive
  <2>2. /\ UNCHANGED <<disk, found, latest, raced>> /\ pc[t] = "idle"
        /\ pc'[t] # "page_in" /\ (pc'[t] = "insert" => req'[t].content = Empty)
    BY <1>1, <1>3 DEF Calls, MemRead, MemAlloc, MemFree, Receive, Goto
  <2> QED
    BY <1>1, <2>1, <2>2, StaysCurrent DEF OthersStay, Writing
<1>4. ASSUME NEW t \in Threads, CallSetPolicy(t) PROVE CurrentAt(p)'
  <2>1. SameOrGone(p) /\ UNCHANGED memVars
    BY <1>4, OtherContents DEF MemInv, CallSetPolicy
  <2> QED
    BY <1>1, <2>1, StaysCurrent DEF memVars, Writing
<1>5. ASSUME NEW t \in Threads, Store(t) PROVE CurrentAt(p)'
  <2>1. OthersStay(t) /\ SameOrGone(p) /\ UNCHANGED <<req, found>> /\ pc[t] = "store"
    BY <1>5, ServeAlone, OtherContents DEF MemInv, Serve, Store
  <2>2. pc'[t] \in {"insert", "page_out"} /\ req[t].page \in Pages
    BY <1>1, <1>2, <1>5 DEF Store, Goto, Shape
  <2>3. CASE p # req[t].page
    <3>1. disk'[p] = disk[p] /\ latest'[p] = latest[p] /\ (p \in raced => p \in raced')
      BY <1>1, <1>5, <2>2, <2>3 DEF Store
    <3> QED
      BY <1>1, <2>1, <2>2, <2>3, <3>1, StaysCurrent DEF OthersStay, Writing
  <2>4. CASE p = req[t].page
    <3>1. disk'[p] = req[t].content /\ latest'[p] = req[t].content
      BY <1>1, <1>5, <2>2, <2>4 DEF Store
    <3>2. p \notin raced' => \A u \in Threads \ {t} : ~Involved(u, p)
      BY <1>5, <2>4 DEF Store
    <3>3. Writing(t, p)'
      BY <2>1, <2>2, <2>4 DEF Writing
    <3>4. ASSUME p \notin raced', NEW u \in Threads, pc'[u] = "page_in" PROVE found'[u].page # p
      <4>1. u # t /\ pc[u] = "page_in" /\ found'[u] = found[u]
        BY <2>1, <2>2, <3>4 DEF OthersStay
      <4> QED
        BY <4>1, <3>2, <3>4 DEF Involved, Fetching
    <3>5. ASSUME p \notin raced', NEW u \in Threads, pc'[u] = "insert", req'[u].page = p
          PROVE  req'[u].content = latest'[p]
      <4>1. CASE u = t
        BY <4>1, <2>1, <3>1
      <4>2. CASE u # t
        <5>1. Writing(u, p)
          BY <4>2, <2>1, <3>5 DEF OthersStay, Writing
        <5> QED
          BY <5>1, <4>2, <3>2, <3>5 DEF Involved
      <4> QED
        BY <4>1, <4>2
    <3> QED
      BY <3>1, <3>3, <3>4, <3>5 DEF CurrentAt, Stored
  <2> QED
    BY <2>3, <2>4
<1>6. ASSUME NEW t \in Threads, AllocInsert(t) PROVE CurrentAt(p)'
  <2>1. /\ OthersStay(t) /\ pc[t] = "insert" /\ pc'[t] = "idle"
        /\ UNCHANGED <<disk, raced>>
    BY <1>1, <1>6, ServeAlone DEF Serve, AllocInsert, Reply, Goto
  <2>2. req[t].page \in Pages /\ req[t].content \in Contents
    BY <1>2, <2>1 DEF Shape
  <2>3. /\ table'[req[t].page].content = req[t].content
        /\ \A q \in Pages \ {req[t].page} : SameOrGone(q)
    BY <1>6, <2>2, InsertContents DEF MemInv, AllocInsert
  <2>4. CASE p # req[t].page
    <3>1. latest'[p] = latest[p] /\ SameOrGone(p) /\ ~Writing(t, p)
      BY <1>1, <1>6, <2>2, <2>3, <2>4 DEF AllocInsert, Writing
    <3> QED
      BY <1>1, <2>1, <3>1, StaysCurrent DEF OthersStay, Writing
  <2>5. CASE p = req[t].page /\ req[t].content = Empty
    <3>1. latest'[p] = Empty
      BY <1>1, <1>6, <2>5 DEF AllocInsert
    <3> QED
      BY <3>1 DEF CurrentAt
  <2>6. CASE p = req[t].page /\ req[t].content # Empty
    <3>1. latest' = latest
      BY <1>6, <2>6 DEF AllocInsert
    <3>2. CASE p \in raced \/ latest[p] = Empty
      BY <2>1, <3>1, <3>2 DEF CurrentAt
    <3>3. CASE p \notin raced /\ latest[p] # Empty
      <4>1. table'[p].content = latest[p]
        BY <1>1, <2>1, <2>3, <2>6, <3>3 DEF CurrentAt
      <4> QED
        BY <1>1, <2>1, <3>1, <4>1, StaysCurrent DEF OthersStay, Writing
    <3> QED
      BY <3>2, <3>3
  <2> QED
    BY <2>4, <2>5, <2>6
<1>7. ASSUME NEW t \in Threads, FreePageOut(t) PROVE CurrentAt(p)'
  <2>1. /\ OthersStay(t) /\ pc[t] = "page_out" /\ pc'[t] = "idle"
        /\ UNCHANGED <<disk, raced, latest>>
    BY <1>1, <1>7, ServeAlone DEF Serve, FreePageOut, Reply, Goto
  <2>2. req[t].page \in Pages
    BY <1>2, <2>1 DEF Shape
  <2>3. SameOrGone(p) /\ ~table'[req[t].page].valid
    BY <1>7, <2>2, OtherContents DEF MemInv, FreePageOut, ptVars
  <2> QED
    BY <1>1, <2>1, <2>3, StaysCurrent DEF OthersStay, Writing
<1>8. ASSUME NEW t \in Threads, ReadHit(t) \/ ReadMiss(t) PROVE CurrentAt(p)'
  <2>1. /\ OthersStay(t) /\ pc[t] = "access" /\ pc'[t] \in {"idle", "fault"}
        /\ UNCHANGED <<disk, raced, latest>>
    BY <1>1, <1>8, ServeAlone DEF Serve, ReadHit, ReadMiss, Reply, Goto
  <2>2. req[t].page \in Pages
    BY <1>2, <2>1 DEF Shape
  <2>3. SameOrGone(p)
    BY <1>8, <2>2, OtherContents DEF MemInv, ReadHit, ReadMiss
  <2> QED
    BY <1>1, <2>1, <2>3, StaysCurrent DEF OthersStay, Writing
<1>9. ASSUME NEW t \in Threads, Fault(t) \/ SearchFails(t) \/ Resume(t) PROVE CurrentAt(p)'
  <2>1. /\ OthersStay(t) /\ pc[t] \in {"fault", "search", "resume"}
        /\ pc'[t] \in {"idle", "retrieve"} /\ UNCHANGED <<disk, raced, latest>>
    BY <1>1, <1>9, ServeAlone DEF Serve, Fault, SearchFails, Resume, Reply, Goto
  <2>2. SameOrGone(p)
    BY <1>9, OtherContents DEF MemInv, Fault, SearchFails, Resume
  <2> QED
    BY <1>1, <2>1, <2>2, StaysCurrent DEF OthersStay, Writing
<1>10. ASSUME NEW t \in Threads, Retrieve(t) \/ SearchMatch(t) PROVE CurrentAt(p)'
  <2>1. /\ OthersStay(t) /\ pc[t] \in {"retrieve", "search"}
        /\ pc'[t] \in {"search", "page_in"} /\ UNCHANGED <<disk, req, raced, latest>>
    BY <1>1, <1>10, ServeAlone DEF Serve, Retrieve, SearchMatch, Goto
  <2>2. SameOrGone(p)
    BY <1>10, OtherContents DEF MemInv, Retrieve, SearchMatch
  <2>3. pc'[t] = "page_in" /\ found'[t].page = p => Stored(p) /\ found'[t].content = disk[p]
    BY <1>1, <1>10 DEF Retrieve, SearchMatch, Goto
  <2> QED
    BY <1>1, <2>1, <2>2, <2>3, StaysCurrent DEF OthersStay, Writing
<1>11. ASSUME NEW t \in Threads, PageIn(t) PROVE CurrentAt(p)'
  <2>1. /\ OthersStay(t) /\ pc[t] = "page_in" /\ pc'[t] = "remove"
        /\ UNCHANGED <<disk, req, found, raced, latest>>
    BY <1>1, <1>11, ServeAlone DEF Serve, PageIn, Goto
  <2>2. found[t].page \in Pages /\ found[t].content \in Contents
    BY <1>2, <2>1 DEF Shape, Real
  <2>3. /\ table'[found[t].page].content = found[t].content
        /\ \A q \in Pages \ {found[t].page} : SameOrGone(q)
    BY <1>11, <2>2, InsertContents DEF MemInv, PageIn
  <2>4. CASE p \in raced \/ latest[p] = Empty
    BY <2>1, <2>4 DEF CurrentAt
  <2>5. CASE p \notin raced /\ latest[p] # Empty
    <3>1. SameOrGone(p) \/ table'[p].content = latest[p]
      BY <1>1, <2>1, <2>3, <2>5 DEF CurrentAt
    <3> QED
      BY <1>1, <2>1, <3>1, StaysCurrent DEF OthersStay, Writing
  <2> QED
    BY <2>4, <2>5
<1>12. ASSUME NEW t \in Threads, RemoveStored(t) PROVE CurrentAt(p)'
  <2>1. /\ OthersStay(t) /\ pc[t] = "remove" /\ pc'[t] = "resume"
        /\ UNCHANGED <<req, found, raced, latest>> /\ disk'[p] \in {disk[p], None}
    BY <1>1, <1>12, ServeAlone DEF Serve, RemoveStored, Goto
  <2>2. SameOrGone(p)
    BY <1>12, OtherContents DEF MemInv, RemoveStored
  <2> QED
    BY <1>1, <2>1, <2>2, StaysCurrent DEF OthersStay, Writing
<1>13. CASE UNCHANGED kmVars
  BY <1>1, <1>13 DEF kmVars, memVars, ptVars, CurrentAt, Stored, Writing
<1> QED
  BY <1>3, <1>4, <1>5, <1>6, <1>7, <1>8, <1>9, <1>10, <1>11, <1>12, <1>13 DEF KMNext, Serve

(* Unless calls on a page overlap, or it is emptied, its copies in RAM and *)
(* on disk are the last content a client sent, once no writer of it is     *)
(* between its two steps: with any number of threads, pages and frames.    *)
THEOREM CopiesStayCoherent == KMSpec => []CopiesCoherent
<1>1. KMInit => CopyInv
  <2> SUFFICES ASSUME KMInit, NEW p \in Pages PROVE CurrentAt(p)
    BY DEF CopyInv
  <2>1. disk[p] = None /\ ~table[p].valid /\ \A t \in Threads : pc[t] = "idle"
    BY DEF KMInit, PTInit, NoEntry
  <2> QED
    BY <2>1 DEF CurrentAt, Stored
<1>2. MemInv /\ CopyInv /\ [KMNext]_kmVars => CopyInv'
  BY CopyStep DEF CopyInv
<1>3. CopyInv => CopiesCoherent
  BY DEF CopyInv, CurrentAt, CopiesCoherent, Stored
<1> QED
  BY <1>1, <1>2, <1>3, MemInit, MemStep, PTL DEF KMSpec
=============================================================================
