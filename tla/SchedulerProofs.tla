--------------------------- MODULE SchedulerProofs ---------------------------
(***************************************************************************)
(* The event list is never empty, stays in order, always holds the 60 Hz    *)
(* event at its exact time, and the engine is never more than an            *)
(* instruction late for it; and the interrupt requests are what the         *)
(* registers say: for all lengths of frames, lines and instructions, sizes  *)
(* of the pool of events, and devices.  While nobody steps the machine the  *)
(* list also agrees with what the scan line and the devices believe to have *)
(* queued, and the pool never runs out (the second half of the module).     *)
(***************************************************************************)
EXTENDS Scheduler, SequenceTheorems, FiniteSetTheorems, WellFoundedInduction, TLAPS

-----------------------------------------------------------------------------
(* What the operations on the event list return, for every list: the lemmas *)
(* that the rest of the module needs.                                       *)

(* A non-empty set of naturals has a least element, which Min returns.      *)
LEMMA MinSpec ==
  ASSUME NEW T \in SUBSET Nat, T # {}
  PROVE  Min(T) \in T /\ \A y \in T : Min(T) <= y
<1>1. PICK x \in T : \A y \in T : ~ (<<y, x>> \in OpToRel(<, Nat))
  BY NatLessThanWellFounded, WFMin, Zenon
<1>2. ASSUME NEW y \in T, y < x PROVE FALSE
  <2> DEFINE ss == <<y, x>>
  <2>1. ss \in Nat \X Nat /\ ss[1] = y /\ ss[2] = x
    OBVIOUS
  <2>2. ss \in OpToRel(<, Nat)
    BY <2>1, <1>2 DEF OpToRel
  <2> QED BY <2>2, <1>1
<1>3. \A y \in T : x <= y
  BY <1>2
<1> QED
  BY <1>3 DEF Min

(* The entries of a list of events, and their times.                        *)
LEMMA EventSeq ==
  ASSUME NEW q \in Seq(Event)
  PROVE  /\ Len(q) \in Nat
         /\ \A i \in 1..Len(q) :
              /\ q[i] \in Event /\ q[i].at \in Nat /\ q[i].arg \in Nat
              /\ q[i].type \in EvTypes
<1>1. Len(q) \in Nat /\ \A i \in 1..Len(q) : q[i] \in Event
  OBVIOUS
<1>2. \A e \in Event : e.at \in Nat /\ e.arg \in Nat /\ e.type \in EvTypes
  BY DEF Event
<1> QED
  BY <1>1, <1>2

(* The sequence functions that put an element into a list and take one out. *)
LEMMA InsertAtSpec ==
  ASSUME NEW S, NEW q \in Seq(S), NEW e \in S, NEW p \in 1..(Len(q)+1)
  PROVE  /\ InsertAt(q, p, e) \in Seq(S)
         /\ Len(InsertAt(q, p, e)) = Len(q) + 1
         /\ \A i \in 1..(Len(q)+1) :
              InsertAt(q, p, e)[i] = IF i < p THEN q[i] ELSE IF i = p THEN e ELSE q[i-1]
<1> DEFINE a == SubSeq(q, 1, p-1)
           b == <<e>>
           c == SubSeq(q, p, Len(q))
<1>0. Len(q) \in Nat /\ \A i \in 1..Len(q) : q[i] \in S
  OBVIOUS
<1>1. /\ a \in Seq(S)
      /\ Len(a) = p - 1
      /\ \A i \in 1..(p-1) : a[i] = q[i]
  BY <1>0, SubSeqProperties
<1>2. /\ b \in Seq(S)
      /\ Len(b) = 1
      /\ b[1] = e
  OBVIOUS
<1>3. /\ c \in Seq(S)
      /\ Len(c) = Len(q) - p + 1
      /\ \A i \in 1..(Len(q)-p+1) : c[i] = q[p+i-1]
  BY <1>0, SubSeqProperties
<1> HIDE DEF a, b, c
<1>4. /\ a \o b \in Seq(S)
      /\ Len(a \o b) = Len(a) + Len(b)
      /\ \A i \in 1..(Len(a) + Len(b)) :
           (a \o b)[i] = IF i <= Len(a) THEN a[i] ELSE b[i - Len(a)]
  BY <1>1, <1>2, ConcatProperties, Zenon
<1> DEFINE d == a \o b
<1>4a. d \in Seq(S) /\ Len(d) = p /\ \A i \in 1..p : d[i] = IF i < p THEN q[i] ELSE e
  BY <1>1, <1>2, <1>4
<1> HIDE DEF d
<1>5. /\ d \o c \in Seq(S)
      /\ Len(d \o c) = Len(d) + Len(c)
      /\ \A i \in 1..(Len(d) + Len(c)) :
           (d \o c)[i] = IF i <= Len(d) THEN d[i] ELSE c[i - Len(d)]
  BY <1>4a, <1>3, ConcatProperties, Zenon
<1>6. InsertAt(q, p, e) = d \o c
  BY DEF InsertAt, a, b, c, d
<1>7. Len(d) + Len(c) = Len(q) + 1
  BY <1>0, <1>4a, <1>3
<1>8. ASSUME NEW i \in 1..(Len(q)+1)
      PROVE  (d \o c)[i] = IF i < p THEN q[i] ELSE IF i = p THEN e ELSE q[i-1]
  <2>1. (d \o c)[i] = IF i <= p THEN d[i] ELSE c[i - p]
    BY <1>5, <1>7, <1>4a
  <2>2. CASE i <= p
    BY <2>1, <2>2, <1>4a
  <2>3. CASE i > p
    <3>1. i - p \in 1..(Len(q)-p+1) /\ p + (i - p) - 1 = i - 1
      BY <2>3, <1>0
    <3> QED BY <1>0, <2>1, <2>3, <3>1, <1>3
  <2>4. i <= p \/ i > p
    BY <1>0
  <2> QED BY <2>2, <2>3, <2>4
<1> QED
  BY <1>5, <1>6, <1>7, <1>8

(* The element taken out, and the others in their order.                    *)
LEMMA RemoveAtSpec ==
  ASSUME NEW S, NEW q \in Seq(S), NEW p \in 1..Len(q)
  PROVE  /\ RemoveAt(q, p) \in Seq(S)
         /\ Len(RemoveAt(q, p)) = Len(q) - 1
         /\ \A i \in 1..(Len(q)-1) :
              RemoveAt(q, p)[i] = IF i < p THEN q[i] ELSE q[i+1]
<1> DEFINE a == SubSeq(q, 1, p-1)
           c == SubSeq(q, p+1, Len(q))
<1>0. Len(q) \in Nat /\ \A i \in 1..Len(q) : q[i] \in S
  OBVIOUS
<1>1. /\ a \in Seq(S)
      /\ Len(a) = p - 1
      /\ \A i \in 1..(p-1) : a[i] = q[i]
  BY <1>0, SubSeqProperties
<1>3. /\ c \in Seq(S)
      /\ Len(c) = Len(q) - p
      /\ \A i \in 1..(Len(q)-p) : c[i] = q[p+i]
  BY <1>0, SubSeqProperties
<1> HIDE DEF a, c
<1>5. /\ a \o c \in Seq(S)
      /\ Len(a \o c) = Len(a) + Len(c)
      /\ \A i \in 1..(Len(a) + Len(c)) :
           (a \o c)[i] = IF i <= Len(a) THEN a[i] ELSE c[i - Len(a)]
  BY <1>1, <1>3, ConcatProperties, Zenon
<1>6. RemoveAt(q, p) = a \o c
  BY DEF RemoveAt, a, c
<1>7. Len(a) + Len(c) = Len(q) - 1
  BY <1>0, <1>1, <1>3
<1>8. ASSUME NEW i \in 1..(Len(q)-1)
      PROVE  (a \o c)[i] = IF i < p THEN q[i] ELSE q[i+1]
  <2>1. (a \o c)[i] = IF i <= p - 1 THEN a[i] ELSE c[i - (p - 1)]
    BY <1>5, <1>7, <1>1
  <2>2. CASE i <= p - 1
    BY <2>1, <2>2, <1>1
  <2>3. CASE i > p - 1
    <3>1. i - (p - 1) \in 1..(Len(q)-p) /\ p + (i - (p - 1)) = i + 1
      BY <2>3, <1>0
    <3>2. c[i - (p - 1)] = q[p + (i - (p - 1))]
      BY <1>3, <3>1
    <3>3. (a \o c)[i] = c[i - (p - 1)]
      BY <1>0, <2>1, <2>3
    <3>4. ~(i < p)
      BY <1>0, <2>3
    <3> QED BY <3>1, <3>2, <3>3, <3>4
  <2>4. i <= p - 1 \/ i > p - 1
    BY <1>0
  <2> QED BY <2>2, <2>3, <2>4
<1> QED
  BY <1>5, <1>6, <1>7, <1>8

(* The place that the walk down the list ends at exists: what is before it  *)
(* is earlier than at, what is at it is not.                                *)
LEMMA InsertPosSpec ==
  ASSUME NEW q \in Seq(Event), NEW at \in Nat
  PROVE  /\ InsertPos(q, at) \in 1..(Len(q) + 1)
         /\ \A j \in 1..(InsertPos(q, at) - 1) : q[j].at < at
         /\ InsertPos(q, at) <= Len(q) => q[InsertPos(q, at)].at >= at
<1> DEFINE T == {i \in 1..(Len(q) + 1) : i <= Len(q) => q[i].at >= at}
           P(i) == /\ \A j \in 1..(i - 1) : q[j].at < at
                   /\ i <= Len(q) => q[i].at >= at
<1>0. Len(q) \in Nat /\ \A i \in 1..Len(q) : q[i].at \in Nat
  BY EventSeq
<1>1. T \in SUBSET Nat /\ Len(q) + 1 \in T
  BY <1>0
<1>2. Min(T) \in T /\ \A y \in T : Min(T) <= y
  BY <1>1, MinSpec
<1>3. P(Min(T))
  <2>1. ASSUME NEW j \in 1..(Min(T) - 1) PROVE q[j].at < at
    <3>1. j \in 1..(Len(q) + 1) /\ j \notin T /\ j <= Len(q)
      BY <1>0, <1>2
    <3> QED BY <3>1, <1>0
  <2> QED BY <2>1, <1>2
<1>4. \E i \in 1..(Len(q) + 1) : P(i)
  BY <1>2, <1>3
<1> QED
  BY <1>4 DEF InsertPos

(* The time an event is queued for is never before now.                     *)
LEMMA DueTimeSpec ==
  ASSUME NEW at \in Nat, NEW now \in Nat
  PROVE  DueTime(at, now) \in Nat /\ DueTime(at, now) >= now
  BY QueueAssumption DEF DueTime

(* r is q with e put in somewhere.                                          *)
Inserted(q, e, r) ==
  \E p \in 1..(Len(q) + 1) :
    \A i \in 1..(Len(q) + 1) :
      r[i] = IF i < p THEN q[i] ELSE IF i = p THEN e ELSE q[i - 1]

(* add_event_entry, when an entry is free: the new event stands at some     *)
(* place p, what was before it and behind it keeps its order, and the list  *)
(* stays sorted.                                                            *)
LEMMA AddEventSpec ==
  ASSUME NEW q \in Seq(Event), Sorted(q), Len(q) < MaxEvents,
         NEW now \in Nat, NEW at \in Nat, NEW type \in EvTypes, NEW arg \in Nat
  PROVE  /\ AddEvent(q, now, at, type, arg) \in Seq(Event)
         /\ Len(AddEvent(q, now, at, type, arg)) = Len(q) + 1
         /\ Sorted(AddEvent(q, now, at, type, arg))
         /\ Inserted(q, [at |-> DueTime(at, now), type |-> type, arg |-> arg],
                     AddEvent(q, now, at, type, arg))
<1> DEFINE due == DueTime(at, now)
           e == [at |-> due, type |-> type, arg |-> arg]
           p == InsertPos(q, due)
           r == AddEvent(q, now, at, type, arg)
<1>0. Len(q) \in Nat /\ \A i \in 1..Len(q) : q[i] \in Event /\ q[i].at \in Nat
  BY EventSeq
<1>1. due \in Nat
  BY DueTimeSpec
<1>2. e \in Event /\ e.at = due
  BY <1>1 DEF Event
<1> HIDE DEF due
<1>3. /\ p \in 1..(Len(q) + 1)
      /\ \A j \in 1..(p - 1) : q[j].at < due
      /\ p <= Len(q) => q[p].at >= due
  BY <1>1, InsertPosSpec
<1>4. r = InsertAt(q, p, e)
  BY <1>0, QueueAssumption DEF AddEvent, due
<1> HIDE DEF p, e, r
<1>5. /\ r \in Seq(Event)
      /\ Len(r) = Len(q) + 1
      /\ \A i \in 1..(Len(q) + 1) :
           r[i] = IF i < p THEN q[i] ELSE IF i = p THEN e ELSE q[i - 1]
  BY <1>2, <1>3, <1>4, InsertAtSpec, SMTT(30)
<1>6. Sorted(r)
  <2> SUFFICES ASSUME NEW i \in 1..(Len(q) + 1), NEW j \in 1..(Len(q) + 1), i < j
               PROVE  r[i].at <= r[j].at
    BY <1>5 DEF Sorted
  <2>0. \A k, l \in 1..Len(q) : k < l => q[k].at <= q[l].at
    BY DEF Sorted
  <2>1. CASE j < p
    <3>1. r[i] = q[i] /\ r[j] = q[j] /\ i \in 1..Len(q) /\ j \in 1..Len(q)
      BY <2>1, <1>0, <1>3, <1>5
    <3> QED BY <3>1, <2>0
  <2>2. CASE j = p
    <3>1. r[i] = q[i] /\ r[j] = e /\ i \in 1..(p - 1) /\ i \in 1..Len(q)
      BY <2>2, <1>0, <1>3, <1>5
    <3> QED BY <3>1, <1>0, <1>1, <1>2, <1>3
  <2>3. CASE j > p /\ i < p
    <3>1. /\ r[i] = q[i] /\ r[j] = q[j - 1]
          /\ i \in 1..Len(q) /\ j - 1 \in 1..Len(q) /\ i < j - 1
      BY <2>3, <1>0, <1>3, <1>5
    <3> QED BY <3>1, <2>0
  <2>4. CASE j > p /\ i = p
    <3>1. /\ r[i] = e /\ r[j] = q[j - 1] /\ j - 1 \in 1..Len(q)
          /\ p \in 1..Len(q) /\ (p = j - 1 \/ p < j - 1)
      BY <2>4, <1>0, <1>3, <1>5
    <3>2. q[p].at <= q[j - 1].at
      BY <3>1, <2>0, <1>0
    <3> QED BY <3>1, <3>2, <1>0, <1>1, <1>2, <1>3
  <2>5. CASE i > p
    <3>1. /\ r[i] = q[i - 1] /\ r[j] = q[j - 1]
          /\ i - 1 \in 1..Len(q) /\ j - 1 \in 1..Len(q) /\ i - 1 < j - 1
      BY <2>5, <1>0, <1>3, <1>5
    <3> QED BY <3>1, <2>0
  <2>6. j < p \/ j = p \/ (j > p /\ i < p) \/ (j > p /\ i = p) \/ i > p
    BY <1>0, <1>3
  <2> QED BY <2>1, <2>2, <2>3, <2>4, <2>5, <2>6
<1> QED
  BY <1>3, <1>5, <1>6 DEF r, e, due, Inserted

-----------------------------------------------------------------------------
(* A list in order that holds one 60 Hz event, due at t.                    *)
FrameQueue(q, t) ==
  /\ q \in Seq(Event) /\ Len(q) <= MaxEvents
  /\ Sorted(q)
  /\ \E i \in 1..Len(q) : OfType(q, "60HZ") = {i} /\ q[i].at = t

(* It is not empty, and nothing on it is due later than its first entry is. *)
LEMMA FrameQueueHead ==
  ASSUME NEW q, NEW t \in Nat, FrameQueue(q, t)
  PROVE  /\ Len(q) \in Nat \ {0} /\ q # <<>>
         /\ q[1].at \in Nat /\ q[1].at <= t
         /\ q[1].arg \in Nat
<1>1. PICK i \in 1..Len(q) : OfType(q, "60HZ") = {i} /\ q[i].at = t
  BY DEF FrameQueue
<1>2. /\ Len(q) \in Nat
      /\ \A j \in 1..Len(q) : q[j].at \in Nat /\ q[j].arg \in Nat
  BY EventSeq DEF FrameQueue
<1>3. 1 \in 1..Len(q) /\ (i = 1 \/ 1 < i)
  BY <1>2
<1>4. q[1].at <= t
  BY <1>1, <1>2, <1>3 DEF FrameQueue, Sorted
<1> QED
  BY <1>2, <1>3, <1>4

(* An event of another type leaves the 60 Hz event alone, and unless it is  *)
(* reported as the new head the first time does not come earlier.           *)
LEMMA AddOther ==
  ASSUME NEW q, NEW t \in Nat, FrameQueue(q, t),
         NEW now \in Nat, NEW at \in Nat,
         NEW type \in EvTypes \ {"60HZ"}, NEW arg \in Nat
  PROVE  /\ FrameQueue(AddEvent(q, now, at, type, arg), t)
         /\ \/ NewHead(q, now, at)
            \/ q[1].at <= AddEvent(q, now, at, type, arg)[1].at
<1> DEFINE r == AddEvent(q, now, at, type, arg)
           e == [at |-> DueTime(at, now), type |-> type, arg |-> arg]
<1>0. /\ q \in Seq(Event) /\ Len(q) \in Nat \ {0} /\ Sorted(q) /\ q # <<>>
      /\ Len(q) <= MaxEvents
      /\ \A j \in 1..Len(q) : q[j].at \in Nat
  BY FrameQueueHead, EventSeq DEF FrameQueue
<1>1. CASE Len(q) >= MaxEvents
  <2>1. r = q
    BY <1>1 DEF AddEvent
  <2> QED BY <2>1, <1>0
<1>2. CASE ~(Len(q) >= MaxEvents)
  <2>0. Len(q) < MaxEvents
    BY <1>2, <1>0, QueueAssumption
  <2>1. /\ r \in Seq(Event) /\ Len(r) = Len(q) + 1 /\ Sorted(r)
        /\ Inserted(q, e, r)
    BY <1>0, <2>0, AddEventSpec
  <2> HIDE DEF r
  <2>2. PICK p \in 1..(Len(q) + 1) :
             \A i \in 1..(Len(q) + 1) :
               r[i] = IF i < p THEN q[i] ELSE IF i = p THEN e ELSE q[i - 1]
    BY <2>1 DEF Inserted
  <2>3. PICK k \in 1..Len(q) : OfType(q, "60HZ") = {k} /\ q[k].at = t
    BY DEF FrameQueue
  <2>4. e.type # "60HZ"
    OBVIOUS
  <2> HIDE DEF e
  <2> DEFINE m == IF k < p THEN k ELSE k + 1
  <2>5. m \in 1..(Len(q) + 1) /\ r[m] = q[k]
    <3>1. CASE k < p
      BY <3>1, <1>0, <2>2
    <3>2. CASE ~(k < p)
      <4>1. k + 1 \in 1..(Len(q) + 1) /\ ~(k + 1 < p) /\ k + 1 # p /\ (k + 1) - 1 = k
        BY <3>2, <1>0
      <4> QED BY <3>2, <4>1, <2>2
    <3> QED BY <3>1, <3>2
  <2>6. ASSUME NEW i \in 1..(Len(q) + 1), r[i].type = "60HZ" PROVE i = m
    <3>1. CASE i < p
      <4>1. i \in 1..Len(q) /\ r[i] = q[i]
        BY <3>1, <1>0, <2>2
      <4>2. i = k
        BY <4>1, <2>3, <2>6 DEF OfType
      <4> QED BY <4>2, <3>1
    <3>2. CASE i = p
      BY <3>2, <2>2, <2>4, <2>6
    <3>3. CASE i > p
      <4>1. i - 1 \in 1..Len(q) /\ r[i] = q[i - 1]
        BY <3>3, <1>0, <2>2
      <4>2. i - 1 = k
        BY <4>1, <2>3, <2>6 DEF OfType
      <4> QED BY <4>2, <3>3
    <3> QED BY <3>1, <3>2, <3>3
  <2>7. OfType(r, "60HZ") = {m} /\ r[m].at = t
    <3>1. r[m].type = "60HZ"
      BY <2>5, <2>3 DEF OfType
    <3> HIDE DEF m
    <3> QED BY <2>1, <2>3, <2>5, <2>6, <3>1 DEF OfType
  <2>8. FrameQueue(r, t)
    <3>1. Len(r) <= MaxEvents
      BY <2>0, <2>1, <1>0, QueueAssumption
    <3> HIDE DEF m
    <3> QED BY <2>1, <2>5, <2>7, <3>1 DEF FrameQueue
  <2>9. NewHead(q, now, at) \/ q[1].at <= r[1].at
    <3>0. 1 \in 1..(Len(q) + 1) /\ 1 \in 1..Len(q)
      BY <1>0
    <3>1. CASE p = 1
      <4>1. r[1].at = DueTime(at, now)
        BY <3>0, <3>1, <2>2 DEF e
      <4>2. DueTime(at, now) \in Nat
        BY DueTimeSpec
      <4> QED BY <4>1, <4>2, <2>0, <1>0, <3>0 DEF NewHead
    <3>2. CASE p # 1
      <4>1. 1 < p
        BY <3>2, <1>0
      <4>2. r[1] = q[1]
        BY <3>0, <4>1, <2>2
      <4> QED BY <4>2, <1>0, <3>0
    <3> QED BY <3>1, <3>2
  <2> QED BY <2>8, <2>9 DEF r
<1> QED
  BY <1>1, <1>2

(* The 60 Hz event itself, when none is queued and its time is near.        *)
LEMMA AddFrame ==
  ASSUME NEW q \in Seq(Event), Sorted(q), Len(q) < MaxEvents,
         OfType(q, "60HZ") = {},
         NEW now \in Nat, NEW at \in Nat, now <= at, at <= now + TooFar
  PROVE  FrameQueue(AddEvent(q, now, at, "60HZ", 0), at)
<1> DEFINE r == AddEvent(q, now, at, "60HZ", 0)
           e == [at |-> DueTime(at, now), type |-> "60HZ", arg |-> 0]
<1>0. Len(q) \in Nat
  OBVIOUS
<1>1. DueTime(at, now) = at
  BY QueueAssumption DEF DueTime
<1>2. /\ r \in Seq(Event) /\ Len(r) = Len(q) + 1 /\ Sorted(r)
      /\ Inserted(q, e, r)
  <2>1. "60HZ" \in EvTypes /\ 0 \in Nat
    BY DEF EvTypes
  <2> QED BY <2>1, AddEventSpec
<1>3. PICK p \in 1..(Len(q) + 1) :
           \A i \in 1..(Len(q) + 1) :
             r[i] = IF i < p THEN q[i] ELSE IF i = p THEN e ELSE q[i - 1]
  BY <1>2 DEF Inserted
<1>4. e.type = "60HZ" /\ e.at = at
  BY <1>1
<1> HIDE DEF r, e
<1>5. ASSUME NEW i \in 1..(Len(q) + 1), r[i].type = "60HZ" PROVE i = p
  <2>1. CASE i < p
    <3>1. i \in 1..Len(q) /\ r[i] = q[i]
      BY <2>1, <1>0, <1>3
    <3> QED BY <3>1, <1>5 DEF OfType
  <2>2. CASE i > p
    <3>1. i - 1 \in 1..Len(q) /\ r[i] = q[i - 1]
      BY <2>2, <1>0, <1>3
    <3> QED BY <3>1, <1>5 DEF OfType
  <2> QED BY <2>1, <2>2
<1>6. OfType(r, "60HZ") = {p} /\ r[p].at = at
  <2>1. r[p] = e
    BY <1>3
  <2> QED BY <2>1, <1>2, <1>4, <1>5 DEF OfType
<1>7. Len(r) <= MaxEvents
  BY <1>0, <1>2, QueueAssumption
<1> QED
  BY <1>2, <1>6, <1>7, <1>0 DEF FrameQueue, r

(* Taking out an entry that is not the 60 Hz event: the first only gets     *)
(* later.                                                                   *)
LEMMA RemoveOther ==
  ASSUME NEW q, NEW t \in Nat, FrameQueue(q, t),
         NEW P \in SUBSET (1..Len(q)), P \cap OfType(q, "60HZ") = {}
  PROVE  /\ FrameQueue(RemoveFirstAt(q, P), t)
         /\ q[1].at <= RemoveFirstAt(q, P)[1].at
<1> DEFINE r == RemoveFirstAt(q, P)
<1>0. /\ q \in Seq(Event) /\ Len(q) \in Nat \ {0} /\ Sorted(q)
      /\ Len(q) <= MaxEvents
      /\ \A j \in 1..Len(q) : q[j].at \in Nat
  BY FrameQueueHead, EventSeq DEF FrameQueue
<1>1. CASE P = {}
  <2>1. r = q
    BY <1>1 DEF RemoveFirstAt
  <2> QED BY <2>1, <1>0
<1>2. CASE P # {}
  <2> DEFINE p == Min(P)
  <2>1. p \in P
    <3>1. P \in SUBSET Nat
      BY <1>0
    <3> QED BY <3>1, <1>2, MinSpec
  <2> HIDE DEF p
  <2>2. p \in 1..Len(q) /\ p \notin OfType(q, "60HZ")
    BY <2>1
  <2>3. /\ r \in Seq(Event) /\ Len(r) = Len(q) - 1
        /\ \A i \in 1..(Len(q) - 1) : r[i] = IF i < p THEN q[i] ELSE q[i + 1]
    BY <1>0, <1>2, <2>2, RemoveAtSpec DEF RemoveFirstAt, p
  <2> HIDE DEF r
  <2> DEFINE old(i) == IF i < p THEN i ELSE i + 1
  <2>4. ASSUME NEW i \in 1..(Len(q) - 1) PROVE old(i) \in 1..Len(q) /\ r[i] = q[old(i)]
    BY <1>0, <2>2, <2>3
  <2>5. ASSUME NEW i \in 1..(Len(q) - 1), NEW j \in 1..(Len(q) - 1)
        PROVE  (i < j => old(i) < old(j)) /\ (old(i) = old(j) => i = j)
    BY <1>0, <2>2
  <2>6. Sorted(r)
    <3> SUFFICES ASSUME NEW i \in 1..(Len(q) - 1), NEW j \in 1..(Len(q) - 1), i < j
                 PROVE  r[i].at <= r[j].at
      BY <2>3 DEF Sorted
    <3> HIDE DEF old
    <3> QED BY <2>4, <2>5, <1>0 DEF Sorted
  <2>7. PICK k \in 1..Len(q) : OfType(q, "60HZ") = {k} /\ q[k].at = t
    BY DEF FrameQueue
  <2> DEFINE m == IF k < p THEN k ELSE k - 1
  <2>8. m \in 1..(Len(q) - 1) /\ old(m) = k
    BY <1>0, <2>2, <2>7
  <2> HIDE DEF m, old
  <2>9. OfType(r, "60HZ") = {m} /\ r[m].at = t
    <3>1. r[m] = q[k] /\ q[k].type = "60HZ"
      BY <2>4, <2>7, <2>8 DEF OfType
    <3>2. ASSUME NEW i \in 1..(Len(q) - 1), r[i].type = "60HZ" PROVE i = m
      <4>1. old(i) \in OfType(q, "60HZ")
        BY <2>4, <3>2 DEF OfType
      <4> QED BY <4>1, <2>5, <2>7, <2>8
    <3> QED BY <3>1, <3>2, <2>3, <2>7, <2>8 DEF OfType
  <2>10. q[1].at <= r[1].at
    <3>1. 1 \in 1..(Len(q) - 1) /\ 1 \in 1..Len(q)
      BY <2>8, <1>0
    <3>2. old(1) \in 1..Len(q) /\ r[1] = q[old(1)] /\ (old(1) = 1 \/ 1 < old(1))
      BY <3>1, <2>4, <1>0
    <3> QED BY <3>1, <3>2, <1>0 DEF Sorted
  <2>11. Len(r) <= MaxEvents
    BY <1>0, <2>3, QueueAssumption
  <2> QED BY <2>3, <2>6, <2>8, <2>9, <2>10, <2>11 DEF FrameQueue, r
<1> QED
  BY <1>1, <1>2

(* Popping the first entry, when it is another event.                       *)
LEMMA TailOther ==
  ASSUME NEW q, NEW t \in Nat, FrameQueue(q, t), q[1].type # "60HZ"
  PROVE  FrameQueue(Tail(q), t)
<1>0. /\ q \in Seq(Event) /\ Len(q) \in Nat \ {0} /\ Sorted(q) /\ q # <<>>
      /\ Len(q) <= MaxEvents
  BY FrameQueueHead DEF FrameQueue
<1>1. /\ Tail(q) \in Seq(Event) /\ Len(Tail(q)) = Len(q) - 1
      /\ \A i \in 1..(Len(q) - 1) : Tail(q)[i] = q[i + 1]
  BY <1>0
<1>2. PICK k \in 1..Len(q) : OfType(q, "60HZ") = {k} /\ q[k].at = t
  BY DEF FrameQueue
<1>3. k # 1 /\ k - 1 \in 1..(Len(q) - 1)
  BY <1>0, <1>2 DEF OfType
<1>4. OfType(Tail(q), "60HZ") = {k - 1} /\ Tail(q)[k - 1].at = t
  <2>1. Tail(q)[k - 1] = q[k] /\ q[k].type = "60HZ"
    BY <1>1, <1>2, <1>3 DEF OfType
  <2>2. ASSUME NEW i \in 1..(Len(q) - 1), Tail(q)[i].type = "60HZ" PROVE i = k - 1
    <3>1. i + 1 \in OfType(q, "60HZ")
      BY <1>0, <1>1, <2>2 DEF OfType
    <3> QED BY <3>1, <1>2
  <2> QED BY <2>1, <2>2, <1>1, <1>2, <1>3 DEF OfType
<1>5. Sorted(Tail(q)) /\ Len(Tail(q)) <= MaxEvents
  BY <1>0, <1>1, QueueAssumption DEF Sorted
<1> QED
  BY <1>1, <1>3, <1>4, <1>5 DEF FrameQueue

(* Popping the 60 Hz event leaves none and makes room.                      *)
LEMMA TailFrame ==
  ASSUME NEW q, NEW t \in Nat, FrameQueue(q, t), q[1].type = "60HZ"
  PROVE  /\ Tail(q) \in Seq(Event) /\ Sorted(Tail(q)) /\ Len(Tail(q)) < MaxEvents
         /\ OfType(Tail(q), "60HZ") = {}
         /\ q[1].at = t
<1>0. /\ q \in Seq(Event) /\ Len(q) \in Nat \ {0} /\ Sorted(q) /\ q # <<>>
      /\ Len(q) <= MaxEvents
  BY FrameQueueHead DEF FrameQueue
<1>1. /\ Tail(q) \in Seq(Event) /\ Len(Tail(q)) = Len(q) - 1
      /\ \A i \in 1..(Len(q) - 1) : Tail(q)[i] = q[i + 1]
  BY <1>0
<1>2. PICK k \in 1..Len(q) : OfType(q, "60HZ") = {k} /\ q[k].at = t
  BY DEF FrameQueue
<1>3. k = 1
  BY <1>0, <1>2 DEF OfType
<1>4. OfType(Tail(q), "60HZ") = {}
  <2>1. ASSUME NEW i \in 1..(Len(q) - 1), Tail(q)[i].type = "60HZ" PROVE FALSE
    <3>1. i + 1 \in OfType(q, "60HZ")
      BY <1>0, <1>1, <2>1 DEF OfType
    <3> QED BY <3>1, <1>2, <1>3
  <2> QED BY <2>1, <1>1 DEF OfType
<1>5. Sorted(Tail(q)) /\ Len(Tail(q)) < MaxEvents
  BY <1>0, <1>1, QueueAssumption DEF Sorted
<1> QED
  BY <1>1, <1>2, <1>3, <1>4, <1>5

-----------------------------------------------------------------------------
(* Counting the entries of a list. An operation that puts an entry in or     *)
(* takes one out leaves a list that is the other one grown by that entry.   *)

Grown(q, e, r) ==
  /\ q \in Seq(Event) /\ r \in Seq(Event) /\ e \in Event
  /\ Len(r) = Len(q) + 1 /\ Inserted(q, e, r)

Entries(q) == {q[i] : i \in 1..Len(q)}

(* The positions of entries of some kinds, and how many there are.          *)
Of(q, kinds) == {i \in 1..Len(q) : <<q[i].type, q[i].arg>> \in kinds}

LEMMA OfFinite ==
  ASSUME NEW q \in Seq(Event), NEW kinds
  PROVE  /\ IsFiniteSet(Of(q, kinds)) /\ Cardinality(Of(q, kinds)) \in Nat
<1>1. IsFiniteSet(1..Len(q)) /\ Of(q, kinds) \in SUBSET (1..Len(q))
  BY FS_Interval, EventSeq DEF Of
<1>2. IsFiniteSet(Of(q, kinds))
  BY <1>1, FS_Subset
<1> QED BY <1>2, FS_CardinalityType

LEMMA GrownOf ==
  ASSUME NEW q, NEW e, NEW r, Grown(q, e, r), NEW kinds
  PROVE  Cardinality(Of(r, kinds))
           = Cardinality(Of(q, kinds)) + IF <<e.type, e.arg>> \in kinds THEN 1 ELSE 0
<1> USE DEF Grown
<1>1. PICK p \in 1..(Len(q) + 1) : \A i \in 1..(Len(q) + 1) :
        r[i] = IF i < p THEN q[i] ELSE IF i = p THEN e ELSE q[i - 1]
  BY DEF Inserted
<1> DEFINE n == Len(q)
           S == Of(q, kinds)
           T == Of(r, kinds) \ {p}
           move(i) == IF i < p THEN i ELSE i + 1
           f == [i \in S |-> move(i)]
<1>0. n \in Nat /\ p \in Nat /\ p <= n + 1 /\ p >= 1
  BY EventSeq
<1>s. /\ \A i : i \in S <=> i \in 1..n /\ <<q[i].type, q[i].arg>> \in kinds
      /\ \A j : j \in T <=> j \in 1..(n + 1) /\ j # p /\ <<r[j].type, r[j].arg>> \in kinds
      /\ \A i \in 1..n : move(i) \in 1..(n + 1) /\ move(i) # p /\ r[move(i)] = q[i]
  <2>1. Len(r) = n + 1
    OBVIOUS
  <2>2. ASSUME NEW i \in 1..n
        PROVE  move(i) \in 1..(n + 1) /\ move(i) # p /\ r[move(i)] = q[i]
    <3>1. CASE i < p
      BY <1>0, <1>1, <3>1
    <3>2. CASE i >= p
      BY <1>0, <1>1, <3>2
    <3> QED BY <1>0, <3>1, <3>2
  <2> HIDE DEF move
  <2> QED BY <2>1, <2>2 DEF Of
<1>2. \A j \in 1..(n + 1) : j # p => \E i \in 1..n : move(i) = j
  <2> SUFFICES ASSUME NEW j \in 1..(n + 1), j # p PROVE \E i \in 1..n : move(i) = j
    OBVIOUS
  <2>1. CASE j < p
    <3>1. j \in 1..n /\ move(j) = j
      BY <1>0, <2>1
    <3> QED BY <3>1
  <2>2. CASE j > p
    <3>1. j - 1 \in 1..n /\ move(j - 1) = j
      BY <1>0, <2>2
    <3> QED BY <3>1
  <2> QED BY <1>0, <2>1, <2>2
<1>3. \A i, j \in 1..n : move(i) = move(j) => i = j
  BY <1>0
<1> HIDE DEF S, T, move, n
<1>4. f \in [S -> T]
  BY <1>s
<1>5. \A i, j \in S : f[i] = f[j] => i = j
  BY <1>s, <1>3
<1>6. ASSUME NEW j \in T PROVE \E i \in S : f[i] = j
  <2>1. PICK i \in 1..n : move(i) = j
    BY <1>s, <1>2
  <2>2. i \in S
    BY <1>s, <2>1
  <2> QED BY <2>1, <2>2
<1> HIDE DEF f
<1>7. f \in Bijection(S, T)
  BY <1>4, <1>5, <1>6 DEF Bijection, Injection, Surjection, IsInjective
<1>8. Cardinality(T) = Cardinality(S)
  BY <1>7, OfFinite, FS_Bijection DEF ExistsBijection, S
<1>9. p \in Of(r, kinds) <=> <<e.type, e.arg>> \in kinds
  <2>1. r[p] = e /\ p \in 1..Len(r)
    BY <1>0, <1>1 DEF n
  <2> QED BY <2>1 DEF Of
<1>10. IsFiniteSet(Of(r, kinds)) /\ Cardinality(Of(r, kinds)) \in Nat
  BY OfFinite
<1>11. Cardinality(T) = IF p \in Of(r, kinds) THEN Cardinality(Of(r, kinds)) - 1
                                             ELSE Cardinality(Of(r, kinds))
  BY <1>10, FS_RemoveElement DEF T
<1>12. Cardinality(S) \in Nat
  BY OfFinite DEF S
<1> QED BY <1>8, <1>9, <1>10, <1>11, <1>12 DEF S

Count(q, type) == Cardinality(OfType(q, type))
CountArg(q, type, arg) == Cardinality(OfTypeArg(q, type, arg))
One(b) == IF b THEN 1 ELSE 0

LEMMA CountOf ==
  ASSUME NEW q \in Seq(Event), NEW type
  PROVE  Count(q, type) = Cardinality(Of(q, {type} \X Nat)) /\ Count(q, type) \in Nat
<1>1. OfType(q, type) = Of(q, {type} \X Nat)
  BY EventSeq DEF OfType, Of
<1> QED BY <1>1, OfFinite DEF Count

LEMMA CountArgOf ==
  ASSUME NEW q \in Seq(Event), NEW type, NEW arg
  PROVE  /\ CountArg(q, type, arg) = Cardinality(Of(q, {<<type, arg>>}))
         /\ CountArg(q, type, arg) \in Nat
<1>1. OfTypeArg(q, type, arg) = Of(q, {<<type, arg>>})
  BY DEF OfType, OfTypeArg, Of
<1> QED BY <1>1, OfFinite DEF CountArg

(* Of every type there are as many as before, but for the new entry's.      *)
LEMMA GrownCount ==
  ASSUME NEW q, NEW e, NEW r, Grown(q, e, r)
  PROVE  /\ \A type : /\ Count(q, type) \in Nat
                      /\ Count(r, type) = Count(q, type) + One(type = e.type)
         /\ \A type, arg : /\ CountArg(q, type, arg) \in Nat
                           /\ CountArg(r, type, arg)
                                = CountArg(q, type, arg) + One(type = e.type /\ arg = e.arg)
<1>1. q \in Seq(Event) /\ r \in Seq(Event) /\ e \in Event
  BY DEF Grown
<1>2. e.arg \in Nat
  BY <1>1 DEF Event
<1>3. ASSUME NEW type
      PROVE  Count(q, type) \in Nat /\ Count(r, type) = Count(q, type) + One(type = e.type)
  <2>1. <<e.type, e.arg>> \in {type} \X Nat <=> type = e.type
    BY <1>2
  <2>2. Cardinality(Of(r, {type} \X Nat))
          = Cardinality(Of(q, {type} \X Nat)) + One(type = e.type)
    BY <2>1, GrownOf DEF One
  <2>3. /\ Count(r, type) = Cardinality(Of(r, {type} \X Nat))
        /\ Count(q, type) = Cardinality(Of(q, {type} \X Nat)) /\ Count(q, type) \in Nat
    BY <1>1, CountOf
  <2> QED BY <2>2, <2>3
<1>4. ASSUME NEW type, NEW arg
      PROVE  /\ CountArg(q, type, arg) \in Nat
             /\ CountArg(r, type, arg)
                  = CountArg(q, type, arg) + One(type = e.type /\ arg = e.arg)
  <2> DEFINE one == {<<type, arg>>}
  <2>1. <<e.type, e.arg>> \in one <=> type = e.type /\ arg = e.arg
    OBVIOUS
  <2> HIDE DEF one
  <2>2. Cardinality(Of(r, one)) = Cardinality(Of(q, one)) + One(type = e.type /\ arg = e.arg)
    BY <2>1, GrownOf DEF One
  <2>3. /\ CountArg(r, type, arg) = Cardinality(Of(r, one))
        /\ CountArg(q, type, arg) = Cardinality(Of(q, one))
        /\ CountArg(q, type, arg) \in Nat
    BY <1>1, CountArgOf DEF one
  <2> QED BY <2>2, <2>3
<1> QED BY <1>3, <1>4

LEMMA GrownEntries ==
  ASSUME NEW q, NEW e, NEW r, Grown(q, e, r)
  PROVE  Entries(r) = Entries(q) \cup {e}
<1> USE DEF Grown
<1>1. PICK p \in 1..(Len(q) + 1) : \A i \in 1..(Len(q) + 1) :
        r[i] = IF i < p THEN q[i] ELSE IF i = p THEN e ELSE q[i - 1]
  BY DEF Inserted
<1>0. Len(q) \in Nat
  BY EventSeq
<1>2. ASSUME NEW i \in 1..Len(r) PROVE r[i] = e \/ \E j \in 1..Len(q) : r[i] = q[j]
  <2>1. CASE i < p
    BY <1>0, <1>1, <2>1
  <2>2. CASE i > p
    <3>1. r[i] = q[i - 1] /\ i - 1 \in 1..Len(q)
      BY <1>0, <1>1, <2>2
    <3> QED BY <3>1
  <2>3. CASE i = p
    BY <1>0, <1>1, <2>3
  <2> QED BY <1>0, <2>1, <2>2, <2>3
<1>3. ASSUME NEW j \in 1..Len(q) PROVE \E i \in 1..Len(r) : r[i] = q[j]
  <2>1. CASE j < p
    <3>1. r[j] = q[j] /\ j \in 1..Len(r)
      BY <1>0, <1>1, <2>1
    <3> QED BY <3>1
  <2>2. CASE j >= p
    <3>1. r[j + 1] = q[j] /\ j + 1 \in 1..Len(r)
      BY <1>0, <1>1, <2>2
    <3> QED BY <3>1
  <2> QED BY <1>0, <2>1, <2>2
<1>4. r[p] = e /\ p \in 1..Len(r)
  BY <1>0, <1>1
<1>5. \A x \in Entries(r) : x \in Entries(q) \cup {e}
  BY <1>2, Zenon DEF Entries
<1>6. \A x \in Entries(q) \cup {e} : x \in Entries(r)
  BY <1>3, <1>4, Zenon DEF Entries
<1> QED BY <1>5, <1>6

(* add_event_entry grows the list when an entry is free,                    *)
LEMMA AddGrows ==
  ASSUME NEW q \in Seq(Event), Sorted(q), Len(q) < MaxEvents,
         NEW now \in Nat, NEW at \in Nat, NEW type \in EvTypes, NEW arg \in Nat
  PROVE  Grown(q, [at |-> DueTime(at, now), type |-> type, arg |-> arg],
               AddEvent(q, now, at, type, arg))
<1>1. [at |-> DueTime(at, now), type |-> type, arg |-> arg] \in Event
  BY DueTimeSpec DEF Event
<1> QED BY <1>1, AddEventSpec DEF Grown

(* remove_event_entry shrinks it when there is an entry to remove,          *)
LEMMA RemoveShrinks ==
  ASSUME NEW q \in Seq(Event), NEW P \in SUBSET (1..Len(q)), P # {}
  PROVE  \E p \in P : Grown(RemoveFirstAt(q, P), q[p], q)
<1> DEFINE p == Min(P)
           r == RemoveAt(q, p)
<1>0. Len(q) \in Nat
  BY EventSeq
<1>1. p \in P /\ p \in 1..Len(q)
  <2>1. P \in SUBSET Nat
    BY <1>0
  <2> QED BY <2>1, MinSpec
<1>2. RemoveFirstAt(q, P) = r
  BY DEF RemoveFirstAt
<1> HIDE DEF p
<1>3. /\ r \in Seq(Event) /\ Len(r) = Len(q) - 1
      /\ \A i \in 1..(Len(q) - 1) : r[i] = IF i < p THEN q[i] ELSE q[i + 1]
  BY <1>1, RemoveAtSpec
<1> HIDE DEF r
<1>4. p \in 1..(Len(r) + 1) /\ Len(q) = Len(r) + 1 /\ q[p] \in Event
  BY <1>0, <1>1, <1>3, EventSeq
<1>5. ASSUME NEW i \in 1..(Len(r) + 1)
      PROVE  q[i] = IF i < p THEN r[i] ELSE IF i = p THEN q[p] ELSE r[i - 1]
  <2>1. CASE i < p
    BY <1>0, <1>1, <1>3, <2>1
  <2>2. CASE i > p
    <3>1. i - 1 \in 1..(Len(q) - 1) /\ ~(i - 1 < p) /\ (i - 1) + 1 = i
      BY <1>0, <1>1, <1>3, <2>2
    <3>2. r[i - 1] = q[i]
      BY <1>3, <3>1
    <3> QED BY <1>0, <1>1, <2>2, <3>2
  <2> QED BY <1>0, <1>1, <1>3, <2>1, <2>2
<1>6. Inserted(r, q[p], q)
  BY <1>4, <1>5 DEF Inserted
<1> QED BY <1>1, <1>2, <1>3, <1>4, <1>6 DEF Grown

(* and so does taking the first.                                            *)
LEMMA TailShrinks ==
  ASSUME NEW q \in Seq(Event), q # <<>>
  PROVE  Grown(Tail(q), q[1], q)
<1>1. /\ Tail(q) \in Seq(Event) /\ Len(q) \in Nat \ {0} /\ Len(Tail(q)) = Len(q) - 1
      /\ \A i \in 1..(Len(q) - 1) : Tail(q)[i] = q[i + 1]
  BY EmptySeq, HeadTailProperties
<1>2. 1 \in 1..(Len(Tail(q)) + 1) /\ Len(q) = Len(Tail(q)) + 1 /\ q[1] \in Event
  BY <1>1, EventSeq
<1> DEFINE t == Tail(q)
<1> HIDE DEF t
<1>3. ASSUME NEW i \in 1..(Len(t) + 1)
      PROVE  q[i] = IF i < 1 THEN t[i] ELSE IF i = 1 THEN q[1] ELSE t[i - 1]
  <2>1. CASE i = 1
    BY <2>1
  <2>2. CASE i > 1
    <3>1. i - 1 \in 1..(Len(q) - 1) /\ (i - 1) + 1 = i
      BY <1>1, <2>2 DEF t
    <3> QED BY <1>1, <2>2, <3>1 DEF t
  <2> QED BY <1>1, <2>1, <2>2 DEF t
<1>4. Inserted(Tail(q), q[1], q)
  BY <1>2, <1>3, Zenon DEF Inserted, t
<1> QED BY <1>1, <1>2, <1>4 DEF Grown

(* The list is as long as its entries of all types together.                *)
LEMMA LenCounts ==
  ASSUME NEW q \in Seq(Event)
  PROVE  Len(q) = Count(q, "60HZ") + Count(q, "STOP") + Count(q, "SCAN_INT")
                    + Count(q, "VBL_INT") + Count(q, "VID_UPD") + Count(q, "DEVICE")
<1> DEFINE S(type) == OfType(q, type)
<1>0. \A type : IsFiniteSet(S(type)) /\ Cardinality(S(type)) \in Nat
  <2> TAKE type
  <2>1. IsFiniteSet(1..Len(q)) /\ S(type) \in SUBSET (1..Len(q))
    BY FS_Interval, EventSeq DEF OfType
  <2>2. IsFiniteSet(S(type))
    BY <2>1, FS_Subset
  <2> QED BY <2>2, FS_CardinalityType
<1>1. ASSUME NEW X, NEW Y, IsFiniteSet(X), IsFiniteSet(Y), X \cap Y = {}
      PROVE  /\ IsFiniteSet(X \cup Y)
             /\ Cardinality(X) \in Nat /\ Cardinality(Y) \in Nat
             /\ Cardinality(X \cup Y) = Cardinality(X) + Cardinality(Y)
  <2>1. Cardinality(X) \in Nat /\ Cardinality(Y) \in Nat
    BY <1>1, FS_CardinalityType
  <2>2. /\ IsFiniteSet(X \cup Y)
        /\ Cardinality(X \cup Y) = Cardinality(X) + Cardinality(Y) - Cardinality(X \cap Y)
    BY <1>1, FS_Union
  <2>3. Cardinality(X \cap Y) = 0
    BY <1>1, FS_EmptySet
  <2> QED BY <2>1, <2>2, <2>3
<1>2. 1..Len(q) = ((((S("60HZ") \cup S("STOP")) \cup S("SCAN_INT")) \cup S("VBL_INT"))
                     \cup S("VID_UPD")) \cup S("DEVICE")
  BY EventSeq DEF OfType, EvTypes
<1>3. \A s, t : s # t => S(s) \cap S(t) = {}
  BY DEF OfType
<1> HIDE DEF S
<1> DEFINE A == S("60HZ") \cup S("STOP")
           B == A \cup S("SCAN_INT")
           C == B \cup S("VBL_INT")
           D == C \cup S("VID_UPD")
           E == D \cup S("DEVICE")
<1>4. IsFiniteSet(A) /\ Cardinality(A) = Cardinality(S("60HZ")) + Cardinality(S("STOP"))
  BY <1>0, <1>1, <1>3
<1>5. A \cap S("SCAN_INT") = {}
  BY <1>3
<1>6. IsFiniteSet(B) /\ Cardinality(B) = Cardinality(A) + Cardinality(S("SCAN_INT"))
  BY <1>0, <1>1, <1>4, <1>5
<1>7. B \cap S("VBL_INT") = {}
  BY <1>3
<1>8. IsFiniteSet(C) /\ Cardinality(C) = Cardinality(B) + Cardinality(S("VBL_INT"))
  BY <1>0, <1>1, <1>6, <1>7
<1>9. C \cap S("VID_UPD") = {}
  BY <1>3
<1>10. IsFiniteSet(D) /\ Cardinality(D) = Cardinality(C) + Cardinality(S("VID_UPD"))
  BY <1>0, <1>1, <1>8, <1>9
<1>11. D \cap S("DEVICE") = {}
  BY <1>3
<1>12. Cardinality(E) = Cardinality(D) + Cardinality(S("DEVICE"))
  BY <1>0, <1>1, <1>10, <1>11
<1>13. Cardinality(1..Len(q)) = Len(q)
  BY FS_Interval, EventSeq
<1> HIDE DEF A, B, C, D, E
<1>14. Len(q) = Cardinality(E)
  BY <1>2, <1>13 DEF A, B, C, D, E
<1>15. Len(q) = Cardinality(S("60HZ")) + Cardinality(S("STOP")) + Cardinality(S("SCAN_INT"))
                  + Cardinality(S("VBL_INT")) + Cardinality(S("VID_UPD")) + Cardinality(S("DEVICE"))
  BY <1>4, <1>6, <1>8, <1>10, <1>12, <1>14, <1>0
<1> QED BY <1>15 DEF Count, S

-----------------------------------------------------------------------------
(* The scheduler                                                            *)
LEMMA FrameNat == Frame \in Nat /\ 1 + MaxInstr <= Frame /\ Frame <= TooFar
<1>1. Frame \in Nat
  BY SchedulerAssumption DEF Frame
<1> QED
  BY <1>1, SchedulerAssumption

-----------------------------------------------------------------------------
(* The inductive invariant.  FrameEventQueued alone is not inductive: the   *)
(* next frame's event is queued at its time only if add_event_entry neither *)
(* finds the pool empty nor the time in the past, so the list has to fit    *)
(* the pool and the engine must not have overrun the frame.  It has not     *)
(* because of its deadline, which has to be ahead of the list's head only   *)
(* while instructions still run (dcyclesEnd # 0) or may run on (RET_PSR).   *)

FrameQueued == FrameQueue(queue, lastVbl + Frame)

OnTime ==
  /\ 1 <= dfcyc /\ curCyc <= dfcyc
  /\ pc # "engine" => dfcyc = curCyc
  /\ pc # "events" => curCyc <= lastVbl + Frame
  /\ dfcyc <= lastVbl + Frame + 1 + MaxInstr

Ahead == dcyclesSave <= Later(queue[1].at, curCyc) + 1

Deadlines ==
  pc = "engine" =>
    /\ dcyclesEnd \in {0, dcyclesSave}
    /\ dcyclesSave <= lastVbl + Frame + 1
    /\ dcyclesEnd # 0 \/ ret = "psr" => Ahead
    /\ ret = "psr" => dcyclesEnd = 0

IInv == TypeOK /\ FrameQueued /\ OnTime /\ Deadlines

(* Facts about any state that satisfies the invariant.                      *)
LEMMA Facts ==
  ASSUME IInv
  PROVE  /\ Frame \in Nat /\ lastVbl + Frame \in Nat
         /\ {curCyc, dfcyc, lastVbl, dcyclesEnd, dcyclesSave, scanAt} \subseteq Nat
         /\ {MinInstr, MaxInstr} \subseteq Nat
         /\ queue \in Seq(Event) /\ queue # <<>>
         /\ queue[1].at \in Nat /\ queue[1].at <= lastVbl + Frame
         /\ queue[1].arg \in Nat
<1>1. Frame \in Nat /\ lastVbl + Frame \in Nat
  BY FrameNat DEF IInv, TypeOK
<1> QED
  BY <1>1, FrameQueueHead, SchedulerAssumption DEF IInv, TypeOK, FrameQueued

-----------------------------------------------------------------------------
(* What the operators on the scan-line state keep.                          *)

ScanStates == [q : Seq(Event), end : Nat, at : Nat, on : BOOLEAN]

(* r came from s with the 60 Hz event at t untouched, and if the engine is  *)
(* not told to look at the list, its head does not come earlier.            *)
Kept(s, r, t) ==
  /\ r \in ScanStates
  /\ FrameQueue(r.q, t)
  /\ r.end = 0 \/ (r.end = s.end /\ s.q[1].at <= r.q[1].at)

LEMMA AddEventScanIntKeeps ==
  ASSUME NEW s \in ScanStates, NEW t \in Nat, FrameQueue(s.q, t),
         NEW now \in Nat, NEW due \in Nat, NEW line \in Nat
  PROVE  Kept(s, AddEventScanInt(s, now, due, line), t)
<1> DEFINE left == IF s.at # 0 THEN RemoveFirstAt(s.q, OfType(s.q, "SCAN_INT")) ELSE s.q
           when == Later(due, now)
           add  == AddEvent(left, now, when, "SCAN_INT", line)
           r == AddEventScanInt(s, now, due, line)
<1>0. when \in Nat /\ s.end \in Nat /\ s.on \in BOOLEAN /\ s.at \in Nat
  BY DEF Later, ScanStates
<1>1. s.q[1].at \in Nat
  BY FrameQueueHead
<1>2. CASE s.at # 0 /\ due >= s.at
  <2>1. r = s
    BY <1>2 DEF AddEventScanInt
  <2> QED BY <2>1, <1>1 DEF Kept
<1>3. CASE ~(s.at # 0 /\ due >= s.at)
  <2>1. FrameQueue(left, t) /\ s.q[1].at <= left[1].at
    <3>1. CASE s.at # 0
      <4>1. /\ OfType(s.q, "SCAN_INT") \in SUBSET (1..Len(s.q))
            /\ OfType(s.q, "SCAN_INT") \cap OfType(s.q, "60HZ") = {}
        BY DEF OfType
      <4>2. /\ FrameQueue(RemoveFirstAt(s.q, OfType(s.q, "SCAN_INT")), t)
            /\ s.q[1].at <= RemoveFirstAt(s.q, OfType(s.q, "SCAN_INT"))[1].at
        BY <4>1, RemoveOther
      <4> QED BY <3>1, <4>2
    <3>2. CASE s.at = 0
      BY <3>2, <1>1
    <3> QED BY <3>1, <3>2
  <2> HIDE DEF left, when
  <2>2. /\ FrameQueue(add, t)
        /\ NewHead(left, now, when) \/ left[1].at <= add[1].at
    <3>1. "SCAN_INT" \in EvTypes \ {"60HZ"}
      BY DEF EvTypes
    <3> QED BY <3>1, <2>1, <1>0, AddOther
  <2>3. left[1].at \in Nat /\ add[1].at \in Nat /\ add \in Seq(Event)
    BY <2>1, <2>2, FrameQueueHead DEF FrameQueue
  <2> HIDE DEF add
  <2> DEFINE end == Recalc(NewHead(left, now, when), s.end)
  <2>4. end \in Nat /\ (end = 0 \/ (end = s.end /\ ~NewHead(left, now, when)))
    BY <1>0 DEF Recalc
  <2> HIDE DEF end
  <2>5. r = [q |-> add, end |-> end, at |-> when, on |-> s.on]
    BY <1>3 DEF AddEventScanInt, ScanState, left, when, add, end
  <2>6. r \in ScanStates /\ r.q = add /\ r.end = end
    BY <2>5, <2>3, <2>4, <1>0 DEF ScanStates
  <2> HIDE DEF r
  <2>7. end = 0 \/ (end = s.end /\ s.q[1].at <= add[1].at)
    BY <2>1, <2>2, <2>3, <2>4, <1>1
  <2> QED BY <2>2, <2>6, <2>7 DEF Kept, r
<1> QED
  BY <1>2, <1>3

LEMMA LinesNat == Lines \in SUBSET Nat
  BY SchedulerAssumption DEF Lines

LEMMA CheckScanKeeps ==
  ASSUME NEW s \in ScanStates, NEW t \in Nat, FrameQueue(s.q, t),
         NEW c, NEW lines \in SUBSET Lines, NEW start,
         NEW now \in Nat, NEW vbl \in Nat
  PROVE  Kept(s, CheckScanLineInt(s, c, lines, start, now, vbl), t)
<1> DEFINE asking == {line \in lines : line >= start}
           line == Min(asking)
           due == vbl + LineCyc * line
           a == AddEventScanInt(s, now, due, line)
           r == CheckScanLineInt(s, c, lines, start, now, vbl)
<1>1. CASE ~shr \/ "SCAN" \in c \/ asking = {}
  <2>1. r = s
    BY <1>1 DEF CheckScanLineInt
  <2>2. s.q[1].at \in Nat
    BY FrameQueueHead
  <2> QED BY <2>1, <2>2 DEF Kept
<1>2. CASE ~(~shr \/ "SCAN" \in c \/ asking = {})
  <2>1. line \in Nat
    <3>1. asking \in SUBSET Nat
      BY LinesNat
    <3> QED BY <3>1, <1>2, MinSpec
  <2>2. due \in Nat
    <3> HIDE DEF line
    <3>1. LineCyc * line \in Nat
      BY <2>1, SchedulerAssumption
    <3> QED BY <3>1
  <2> HIDE DEF due, line
  <2>3. Kept(s, a, t)
    BY <2>1, <2>2, AddEventScanIntKeeps
  <2> HIDE DEF a
  <2>4. r = [a EXCEPT !.on = TRUE]
    BY <1>2 DEF CheckScanLineInt, a, due, line
  <2>5. r \in ScanStates /\ r.q = a.q /\ r.end = a.end
    BY <2>3, <2>4 DEF ScanStates, Kept
  <2> QED BY <2>3, <2>5 DEF Kept
<1> QED
  BY <1>1, <1>2

-----------------------------------------------------------------------------
(* Steps of the invariant, by what they have in common.                     *)

(* The scan-line state a handler starts from.                               *)
LEMMA CurrentScanState ==
  ASSUME IInv
  PROVE  /\ ScanState(queue, dcyclesEnd, scanAt, scanEvents) \in ScanStates
         /\ ScanState(queue, dcyclesEnd, scanAt, scanEvents).q = queue
         /\ ScanState(queue, dcyclesEnd, scanAt, scanEvents).end = dcyclesEnd
  BY Facts DEF ScanState, ScanStates, IInv, TypeOK

(* An event of a device is queued.                                          *)
LEMMA AddDeviceKeeps ==
  ASSUME NEW q, NEW t \in Nat, FrameQueue(q, t),
         NEW now \in Nat, NEW due \in Nat, NEW dev \in Devices
  PROVE  /\ FrameQueue(AddDeviceEvent(q, now, due, dev), t)
         /\ NewDeviceHead(q, now, due) \/ q[1].at <= AddDeviceEvent(q, now, due, dev)[1].at
<1>1. Later(due, now) \in Nat /\ dev \in Nat /\ "DEVICE" \in EvTypes \ {"60HZ"}
  BY SchedulerAssumption DEF Later, EvTypes
<1> QED
  BY <1>1, AddOther DEF AddDeviceEvent, NewDeviceHead

(* ... and one is withdrawn.                                                *)
LEMMA RemoveDeviceKeeps ==
  ASSUME NEW q, NEW t \in Nat, FrameQueue(q, t), NEW dev
  PROVE  /\ FrameQueue(RemoveDeviceEvent(q, dev), t)
         /\ q[1].at <= RemoveDeviceEvent(q, dev)[1].at
<1>1. /\ OfTypeArg(q, "DEVICE", dev) \in SUBSET (1..Len(q))
      /\ OfTypeArg(q, "DEVICE", dev) \cap OfType(q, "60HZ") = {}
  BY DEF OfTypeArg, OfType
<1> QED
  BY <1>1, RemoveOther DEF RemoveDeviceEvent

(* An update of the screen is queued.                                       *)
LEMMA AddVidUpdKeeps ==
  ASSUME IInv, NEW q, NEW t \in Nat, FrameQueue(q, t), NEW line \in Nat
  PROVE  FrameQueue(AddEventVidUpd(q, line), t)
<1>1. /\ curCyc \in Nat /\ lastVbl \in Nat /\ LineCyc \in Nat
      /\ "VID_UPD" \in EvTypes \ {"60HZ"}
  BY Facts, SchedulerAssumption DEF EvTypes
<1>2. lastVbl + LineCyc * (line + 1) \in Nat
  BY <1>1
<1> QED
  BY <1>1, <1>2, AddOther DEF AddEventVidUpd

LEMMA WithDevicesKeeps ==
  ASSUME IInv, NEW q, NEW t \in Nat, FrameQueue(q, t), NEW upd \in DeviceUpdates
  PROVE  FrameQueue(WithDevices(q, upd), t)
<1>1. CASE upd.starting = {}
  BY <1>1 DEF WithDevices
<1>2. CASE upd.starting # {}
  <2>1. upd.starting \in {{}} \cup {{dev} : dev \in Devices} /\ upd.delay \in 1..MaxDelay
    BY DEF DeviceUpdates
  <2>2. PICK dev \in Devices : upd.starting = {dev}
    BY <1>2, <2>1
  <2> DEFINE d == CHOOSE x \in upd.starting : TRUE
  <2>3. d \in Devices
    BY <2>2
  <2>4. curCyc + upd.delay \in Nat /\ curCyc \in Nat
    <3>1. curCyc \in Nat
      BY Facts
    <3>2. upd.delay \in Nat
      BY <2>1, SchedulerAssumption
    <3> QED BY <3>1, <3>2
  <2> HIDE DEF d
  <2>5. FrameQueue(AddDeviceEvent(q, curCyc, curCyc + upd.delay, d), t)
    BY <2>3, <2>4, AddDeviceKeeps
  <2> QED BY <1>2, <2>5 DEF WithDevices, d
<1> QED
  BY <1>1, <1>2

(* An instruction keeps the time and the deadlines if what it does to the   *)
(* list is either announced by a deadline of 0 or leaves the head no        *)
(* earlier, and it ends with RET_PSR only if it leaves the list alone.      *)
LEMMA InstructionKeeps ==
  ASSUME IInv, NEW d \in MinInstr..MaxInstr,
         pc = "engine", dfcyc <= dcyclesEnd, dfcyc' = dfcyc + d,
         UNCHANGED <<pc, curCyc, lastVbl, dcyclesSave>>,
         FrameQueue(queue', lastVbl + Frame),
         dcyclesEnd' = 0 \/ (dcyclesEnd' = dcyclesEnd /\ queue[1].at <= queue'[1].at),
         ret' # "psr" \/ (dcyclesEnd' = 0 /\ queue' = queue) \/ ret' = ret
  PROVE  FrameQueued' /\ OnTime' /\ Deadlines'
<1>0. /\ {curCyc, dfcyc, lastVbl, dcyclesEnd, dcyclesSave} \subseteq Nat
      /\ Frame \in Nat /\ {MinInstr, MaxInstr} \subseteq Nat
      /\ queue[1].at \in Nat /\ lastVbl + Frame \in Nat
  BY Facts
<1>1. queue'[1].at \in Nat
  BY <1>0, FrameQueueHead
<1>2. dcyclesEnd # 0 /\ ret # "psr" /\ dcyclesEnd = dcyclesSave
      /\ dcyclesSave <= lastVbl + Frame + 1 /\ Ahead
  BY <1>0 DEF IInv, OnTime, Deadlines
<1>3. FrameQueued'
  BY DEF FrameQueued, Frame
<1>4. OnTime'
  <2>1. d \in Nat /\ d <= MaxInstr
    BY <1>0
  <2>2. dfcyc' <= lastVbl + Frame + 1 + MaxInstr
    BY <1>0, <1>2, <2>1
  <2>3. 1 <= dfcyc' /\ curCyc <= dfcyc' /\ curCyc <= lastVbl + Frame
    BY <1>0, <2>1 DEF IInv, OnTime
  <2>4. Frame' = Frame /\ MaxInstr' = MaxInstr
    BY DEF Frame
  <2> HIDE DEF Frame
  <2> QED BY <2>2, <2>3, <2>4 DEF OnTime
<1>5. Deadlines'
  <2>1. dcyclesEnd' \in {0, dcyclesSave'} /\ dcyclesSave' <= (lastVbl + Frame + 1)'
    BY <1>2 DEF Frame
  <2>2. ret' = "psr" => dcyclesEnd' = 0 /\ queue' = queue
    BY <1>2
  <2>3. dcyclesEnd' # 0 \/ ret' = "psr" => queue[1].at <= queue'[1].at
    BY <2>2, <1>0
  <2>4. queue[1].at <= queue'[1].at => Ahead'
    BY <1>0, <1>1, <1>2 DEF Ahead, Later
  <2> QED BY <2>1, <2>2, <2>3, <2>4 DEF Deadlines
<1> QED
  BY <1>3, <1>4, <1>5

(* A handler of an event other than the 60 Hz event keeps them if the list  *)
(* keeps that.                                                              *)
LEMMA HandlerKeeps ==
  ASSUME IInv, pc = "events", FrameQueue(queue', lastVbl + Frame),
         UNCHANGED <<pc, curCyc, dfcyc, lastVbl>>
  PROVE  FrameQueued' /\ OnTime' /\ Deadlines'
<1>1. Frame' = Frame
  BY DEF Frame
<1> QED
  BY <1>1 DEF IInv, FrameQueued, OnTime, Deadlines

-----------------------------------------------------------------------------
(* The instructions, one by one: the type invariant, and the hypotheses of  *)
(* InstructionKeeps.                                                        *)

LEMMA RecalcSpec ==
  ASSUME NEW needed \in BOOLEAN, NEW end \in Nat
  PROVE  /\ Recalc(needed, end) \in Nat
         /\ Recalc(needed, end) = 0 \/ (Recalc(needed, end) = end /\ ~needed)
  BY DEF Recalc

LEMMA AddIrqType ==
  ASSUME NEW pending \in SUBSET IrqSources, NEW mask \in SUBSET IrqSources
  PROVE  AddIrq(pending, mask) \in SUBSET IrqSources
  BY DEF AddIrq

(* do_reset leaves the list alone but for the event it withdraws.           *)
LEMMA ResetKeeps ==
  ASSUME IInv, NEW gone, ResetMachine(gone)
  PROVE  /\ FrameQueue(queue', lastVbl + Frame) /\ queue[1].at <= queue'[1].at
         /\ queue' \in Seq(Event)
<1> DEFINE dev == CHOOSE x \in gone : TRUE
           r == RemoveDeviceEvent(queue, dev)
<1>1. FrameQueue(queue, lastVbl + Frame) /\ queue[1].at \in Nat /\ lastVbl + Frame \in Nat
  BY Facts DEF IInv, FrameQueued
<1> HIDE DEF dev
<1>2. FrameQueue(r, lastVbl + Frame) /\ queue[1].at <= r[1].at
  BY <1>1, RemoveDeviceKeeps
<1>3. queue' = queue \/ queue' = r
  BY DEF ResetMachine, dev
<1> QED
  BY <1>1, <1>2, <1>3 DEF FrameQueue

LEMMA InstructionStep ==
  ASSUME IInv, Instruction
  PROVE  IInv'
<1>0. PICK d \in MinInstr..MaxInstr :
        \/ InstrOther(d) \/ InstrWai(d) \/ InstrPsr(d) \/ InstrHalt(d)
        \/ \E enables \in SUBSET C023Enables : WriteC023(d, enables)
        \/ \E clear \in SUBSET {"SEC", "SCAN"} : WriteC032(d, clear)
        \/ \E enables \in SUBSET MegaIIBits : WriteC041(d, enables)
        \/ AccessC047(d) \/ WriteC029(d)
        \/ \E line \in Lines : WriteScb(d, line)
        \/ \E dev \in Devices, delay \in 1..MaxDelay : DeviceStart(d, dev, delay)
        \/ \E dev \in Devices : DeviceStop(d, dev)
        \/ DeviceAck(d)
        \/ \E gone \in Withdrawn : InstrAdbReset(d, gone)
  BY DEF Instruction
<1>f. /\ Frame \in Nat /\ lastVbl + Frame \in Nat
      /\ {curCyc, dfcyc, lastVbl, dcyclesEnd, dcyclesSave, scanAt} \subseteq Nat
      /\ {MinInstr, MaxInstr} \subseteq Nat
      /\ queue \in Seq(Event) /\ queue[1].at \in Nat
      /\ d \in Nat /\ dfcyc + d \in Nat
      /\ FrameQueue(queue, lastVbl + Frame)
  BY Facts, SMTT(30) DEF IInv, FrameQueued
<1>t. TypeOK
  BY DEF IInv
<1> DEFINE Same == queue' = queue /\ (dcyclesEnd' = 0 \/ dcyclesEnd' = dcyclesEnd)
           Time == pc = "engine" /\ dfcyc <= dcyclesEnd /\ dfcyc' = dfcyc + d
                     /\ UNCHANGED <<pc, curCyc, lastVbl, dcyclesSave>>
<1>s. ASSUME TypeOK', Time, Same, ret' = ret \/ ret' # "psr" \/ dcyclesEnd' = 0
      PROVE  IInv'
  <2>1. FrameQueue(queue', lastVbl + Frame)
    BY <1>s, <1>f
  <2>2. dcyclesEnd' = 0 \/ (dcyclesEnd' = dcyclesEnd /\ queue[1].at <= queue'[1].at)
    BY <1>s, <1>f, SMTT(30)
  <2> QED BY <1>s, <2>1, <2>2, InstructionKeeps DEF IInv
<1>q. ASSUME TypeOK', Time, ret' = ret, FrameQueue(queue', lastVbl + Frame),
             dcyclesEnd' = 0 \/ (dcyclesEnd' = dcyclesEnd /\ queue[1].at <= queue'[1].at)
      PROVE  IInv'
  BY <1>q, InstructionKeeps DEF IInv
<1>1. CASE InstrOther(d)
  <2>1. TypeOK'
    BY <1>1, <1>f, <1>t DEF InstrOther, Executes, TypeOK, Recalc, scanVars, megaVars, videoVars
  <2>2. Time /\ Same
    BY <1>1 DEF InstrOther, Executes, Recalc
  <2> QED BY <1>1, <1>s, <2>1, <2>2 DEF InstrOther
<1>2. CASE InstrWai(d)
  <2>1. TypeOK'
    BY <1>2, <1>f, <1>t DEF InstrWai, TypeOK, engineVars, scanVars, megaVars, videoVars, cntVars, ctlVars
  <2>2. Time /\ Same
    BY <1>2 DEF InstrWai, engineVars
  <2> QED BY <1>2, <1>s, <2>1, <2>2 DEF InstrWai, engineVars
<1>3. CASE InstrPsr(d)
  <2>0. ret' \in {"none", "psr", "irq", "dbg"} /\ dcyclesEnd' \in Nat
    <3>1. PICK width \in BOOLEAN :
            /\ ret' = CASE width -> "psr"
                         [] ~width /\ (~iFlag' /\ irq # {}) -> "irq"
                         [] OTHER -> ret
            /\ dcyclesEnd' = Recalc(width \/ (~iFlag' /\ irq # {}), dcyclesEnd)
      BY <1>3, Zenon DEF InstrPsr
    <3> QED BY <3>1, <1>f, <1>t DEF TypeOK, Recalc
  <2>1. TypeOK'
    <3>1. iFlag' \in BOOLEAN /\ dfcyc' \in Nat /\ UNCHANGED <<pc, curCyc, lastVbl, dcyclesSave,
             waiting, secCnt, qsecCnt, stepping, stops, queue, scanAt, scanEvents, irq, c023,
             c041, c046, shr, scb, halt, devPending>>
      BY <1>3, <1>f DEF InstrPsr, Executes, scanVars, megaVars, videoVars
    <3> QED BY <2>0, <3>1, <1>t DEF TypeOK
  <2>2. Time /\ Same
    BY <1>3 DEF InstrPsr, Executes, Recalc
  <2>3. ret' = ret \/ ret' # "psr" \/ dcyclesEnd' = 0
    BY <1>3 DEF InstrPsr, Recalc
  <2> QED BY <1>s, <2>1, <2>2, <2>3
<1>4. CASE InstrHalt(d)
  <2>1. TypeOK'
    BY <1>4, <1>f, <1>t DEF InstrHalt, Executes, TypeOK, scanVars, megaVars, videoVars
  <2>2. Time /\ Same
    BY <1>4 DEF InstrHalt, Executes
  <2> QED BY <1>4, <1>s, <2>1, <2>2 DEF InstrHalt
<1>5. ASSUME NEW enables \in SUBSET C023Enables, WriteC023(d, enables) PROVE IInv'
  <2>1. irq' \in SUBSET IrqSources /\ c023' \in SUBSET C023Bits
    BY <1>5, <1>t DEF WriteC023, TypeOK, AddIrq, RemoveIrq, IrqSources, C023Bits, C023Enables
  <2>2. Time /\ Same /\ dcyclesEnd' \in Nat
    BY <1>5, <1>f DEF WriteC023, Executes, Recalc
  <2>3. TypeOK'
    BY <1>5, <1>f, <1>t, <2>1, <2>2 DEF WriteC023, Executes, TypeOK, scanVars, megaVars, videoVars
  <2> QED BY <1>5, <1>s, <2>2, <2>3 DEF WriteC023
<1>6. ASSUME NEW clear \in SUBSET {"SEC", "SCAN"}, WriteC032(d, clear) PROVE IInv'
  <2>1. irq' \in SUBSET IrqSources /\ c023' \in SUBSET C023Bits
    BY <1>6, <1>t DEF WriteC032, TypeOK, RemoveIrq, IrqSources, C023Bits, C023Enables
  <2>2. /\ queue' \in Seq(Event) /\ {dcyclesEnd', scanAt'} \subseteq Nat
        /\ scanEvents' \in BOOLEAN
        /\ FrameQueue(queue', lastVbl + Frame)
        /\ dcyclesEnd' = 0 \/ (dcyclesEnd' = dcyclesEnd /\ queue[1].at <= queue'[1].at)
    <3> DEFINE s == ScanState(queue, dcyclesEnd, scanAt, scanEvents)
    <3>1. \/ UNCHANGED <<queue, dcyclesEnd, scanVars>>
          \/ \E c : Becomes(CheckScanLineInt(s, c, scb, LinesSinceVbl(dfcyc'), curCyc, lastVbl))
      BY <1>6 DEF WriteC032
    <3>2. CASE UNCHANGED <<queue, dcyclesEnd, scanVars>>
      BY <3>2, <1>f, <1>t DEF scanVars, TypeOK
    <3>3. ASSUME NEW c,
                 Becomes(CheckScanLineInt(s, c, scb, LinesSinceVbl(dfcyc'), curCyc, lastVbl))
          PROVE  <2>2!:
      <4>1. Kept(s, CheckScanLineInt(s, c, scb, LinesSinceVbl(dfcyc'), curCyc, lastVbl),
                 lastVbl + Frame)
        BY <1>f, <1>t, CurrentScanState, CheckScanKeeps DEF TypeOK
      <4> QED BY <3>3, <4>1, CurrentScanState DEF Kept, Becomes, ScanStates, FrameQueue
    <3> QED BY <3>1, <3>2, <3>3
  <2>3. Time /\ ret' = ret
    BY <1>6 DEF WriteC032, Executes
  <2>4. TypeOK'
    BY <1>6, <1>f, <1>t, <2>1, <2>2, <2>3 DEF WriteC032, Executes, TypeOK, megaVars, videoVars
  <2> QED BY <1>q, <2>2, <2>3, <2>4
<1>7. ASSUME NEW enables \in SUBSET MegaIIBits, WriteC041(d, enables) PROVE IInv'
  <2>1. TypeOK'
    BY <1>7, <1>f, <1>t
    DEF WriteC041, Executes, TypeOK, RemoveIrq, scanVars, videoVars
  <2>2. Time /\ Same /\ ret' = ret
    BY <1>7 DEF WriteC041, Executes
  <2> QED BY <1>s, <2>1, <2>2
<1>8. CASE AccessC047(d)
  <2>1. TypeOK'
    BY <1>8, <1>f, <1>t
    DEF AccessC047, Executes, TypeOK, RemoveIrq, scanVars, videoVars
  <2>2. Time /\ Same /\ ret' = ret
    BY <1>8 DEF AccessC047, Executes
  <2> QED BY <1>s, <2>1, <2>2
<1>9. CASE WriteC029(d)
  <2>1. TypeOK'
    BY <1>9, <1>f, <1>t DEF WriteC029, Executes, TypeOK, scanVars, megaVars
  <2>2. Time /\ Same /\ ret' = ret
    BY <1>9 DEF WriteC029, Executes
  <2> QED BY <1>s, <2>1, <2>2
<1>10. ASSUME NEW line \in Lines, WriteScb(d, line) PROVE IInv'
  <2> DEFINE s == ScanState(queue, dcyclesEnd, scanAt, scanEvents)
             r == CheckScanLineInt(s, c023, scb \cup {line}, LinesSinceVbl(dfcyc'), curCyc, lastVbl)
  <2>1. \/ scb' = scb \ {line} /\ UNCHANGED <<queue, dcyclesEnd, scanVars>>
        \/ scb' = scb \cup {line} /\ Becomes(r)
    BY <1>10, Zenon DEF WriteScb
  <2>2. /\ queue' \in Seq(Event) /\ {dcyclesEnd', scanAt'} \subseteq Nat
        /\ scanEvents' \in BOOLEAN /\ scb' \in SUBSET Lines
        /\ FrameQueue(queue', lastVbl + Frame)
        /\ dcyclesEnd' = 0 \/ (dcyclesEnd' = dcyclesEnd /\ queue[1].at <= queue'[1].at)
    <3>1. CASE scb' = scb \ {line} /\ UNCHANGED <<queue, dcyclesEnd, scanVars>>
      BY <3>1, <1>f, <1>t DEF scanVars, TypeOK
    <3>2. CASE scb' = scb \cup {line} /\ Becomes(r)
      <4>1. Kept(s, r, lastVbl + Frame)
        BY <1>f, <1>t, CurrentScanState, CheckScanKeeps DEF TypeOK
      <4> HIDE DEF r
      <4> QED
        BY <3>2, <4>1, <1>t, CurrentScanState DEF Kept, Becomes, ScanStates, FrameQueue, TypeOK
    <3> QED BY <2>1, <3>1, <3>2
  <2>3. Time /\ ret' = ret
    BY <1>10 DEF WriteScb, Executes
  <2>4. TypeOK'
    BY <1>10, <1>f, <1>t, <2>2, <2>3 DEF WriteScb, Executes, TypeOK, megaVars
  <2> QED BY <1>q, <2>2, <2>3, <2>4
<1>11. ASSUME NEW dev \in Devices, NEW delay \in 1..MaxDelay, DeviceStart(d, dev, delay)
       PROVE  IInv'
  <2>1. dfcyc' + delay \in Nat
    <3>1. delay \in Nat
      BY SchedulerAssumption
    <3>2. dfcyc' = dfcyc + d
      BY <1>11 DEF DeviceStart, Executes
    <3>3. dfcyc' \in Nat
      BY <3>2, <1>f
    <3>4. \A a, b \in Nat : a + b \in Nat
      OBVIOUS
    <3> QED BY <3>1, <3>3, <3>4, Zenon
  <2> DEFINE due == dfcyc' + delay
             new == AddDeviceEvent(queue, curCyc, due, dev)
             head == NewDeviceHead(queue, curCyc, due)
  <2>2. Time /\ ret' = ret /\ queue' = new /\ dcyclesEnd' = Recalc(head, dcyclesEnd)
    BY <1>11 DEF DeviceStart, Executes
  <2> HIDE DEF due
  <2>3. FrameQueue(new, lastVbl + Frame) /\ (head \/ queue[1].at <= new[1].at)
    BY <2>1, <1>f, AddDeviceKeeps DEF due
  <2> HIDE DEF new, head
  <2>4. /\ dcyclesEnd' \in Nat /\ queue' \in Seq(Event)
        /\ dcyclesEnd' = 0 \/ (dcyclesEnd' = dcyclesEnd /\ queue[1].at <= queue'[1].at)
    BY <2>2, <2>3, <1>f DEF Recalc, FrameQueue
  <2>5. TypeOK'
    BY <1>11, <1>f, <1>t, <2>2, <2>4
    DEF DeviceStart, Executes, TypeOK, scanVars, megaVars, videoVars
  <2> QED BY <1>q, <2>2, <2>3, <2>4, <2>5
<1>12. ASSUME NEW dev \in Devices, DeviceStop(d, dev) PROVE IInv'
  <2>1. /\ FrameQueue(queue', lastVbl + Frame) /\ queue[1].at <= queue'[1].at
        /\ queue' \in Seq(Event)
    <3> DEFINE r == RemoveDeviceEvent(queue, dev)
    <3>1. FrameQueue(r, lastVbl + Frame) /\ queue[1].at <= r[1].at
      BY <1>f, RemoveDeviceKeeps
    <3>2. queue' = r
      BY <1>12 DEF DeviceStop
    <3> QED BY <3>1, <3>2 DEF FrameQueue
  <2>2. Time /\ ret' = ret /\ dcyclesEnd' = dcyclesEnd
    BY <1>12 DEF DeviceStop, Executes
  <2>3. TypeOK'
    BY <1>12, <1>f, <1>t, <2>1, <2>2
    DEF DeviceStop, Executes, TypeOK, scanVars, megaVars, videoVars
  <2> QED BY <1>q, <2>1, <2>2, <2>3
<1>13. CASE DeviceAck(d)
  <2>1. TypeOK'
    BY <1>13, <1>f, <1>t
    DEF DeviceAck, Executes, TypeOK, RemoveIrq, scanVars, megaVars, videoVars
  <2>2. Time /\ Same /\ ret' = ret
    BY <1>13 DEF DeviceAck, Executes
  <2> QED BY <1>s, <2>1, <2>2
<1>14. ASSUME NEW gone \in Withdrawn, InstrAdbReset(d, gone) PROVE IInv'
  <2>1. /\ FrameQueue(queue', lastVbl + Frame) /\ queue[1].at <= queue'[1].at
        /\ queue' \in Seq(Event)
    BY <1>14, ResetKeeps DEF InstrAdbReset
  <2>2. Time /\ ret' = ret /\ dcyclesEnd' = dcyclesEnd
    BY <1>14 DEF InstrAdbReset, ResetMachine, engineVars
  <2>3. TypeOK'
    BY <1>14, <1>f, <1>t, <2>1, <2>2
    DEF InstrAdbReset, ResetMachine, TypeOK, engineVars, scanVars, cntVars
  <2> QED BY <1>q, <2>1, <2>2, <2>3
<1> QED
  BY <1>0, <1>1, <1>2, <1>3, <1>4, <1>5, <1>6, <1>7, <1>8, <1>9, <1>10, <1>11, <1>12,
     <1>13, <1>14

-----------------------------------------------------------------------------
(* The events.                                                              *)

LEMMA NextCountSpec ==
  ASSUME NEW frames \in Nat \ {0}, NEW cnt \in 0..(frames - 1)
  PROVE  NextCount(cnt, frames) \in 0..(frames - 1)
  BY DEF NextCount

(* The 60 Hz event of the next frame replaces the one that is due.          *)
LEMMA Handle60HzStep ==
  ASSUME IInv, NEW upd \in DeviceUpdates, Handle60Hz(upd)
  PROVE  IInv'
<1> DEFINE vbl   == lastVbl + Frame
           next  == AddEvent(Tail(queue), curCyc, vbl + Frame, "60HZ", 0)
           withV == IF "VBL" \in c041 THEN AddEventVbl(next, vbl) ELSE next
<1>f. /\ Frame \in Nat /\ vbl \in Nat /\ vbl + Frame \in Nat
      /\ curCyc \in Nat /\ dfcyc \in Nat /\ MaxInstr \in Nat
      /\ 1 + MaxInstr <= Frame /\ Frame <= TooFar
      /\ FrameQueue(queue, vbl)
  BY Facts, FrameNat, SMTT(30) DEF IInv, FrameQueued
<1>p. pc = "events" /\ queue[1].at <= dfcyc /\ queue[1].type = "60HZ"
  BY DEF Handle60Hz, Due
<1>1. /\ Tail(queue) \in Seq(Event) /\ Sorted(Tail(queue)) /\ Len(Tail(queue)) < MaxEvents
      /\ OfType(Tail(queue), "60HZ") = {}
      /\ queue[1].at = vbl
  BY <1>f, <1>p, TailFrame
<1>2. dfcyc = curCyc /\ vbl <= curCyc /\ curCyc <= vbl + Frame
  <2>1. dfcyc = curCyc /\ dfcyc <= vbl + 1 + MaxInstr
    BY <1>p DEF IInv, OnTime
  <2> HIDE DEF vbl
  <2> QED BY <2>1, <1>1, <1>p, <1>f
<1>3. FrameQueue(next, vbl + Frame)
  <2>1. vbl + Frame <= curCyc + TooFar
    <3>1. TooFar \in Nat
      BY QueueAssumption
    <3> HIDE DEF vbl
    <3> QED BY <3>1, <1>2, <1>f
  <2> QED BY <2>1, <1>1, <1>2, <1>f, AddFrame
<1> HIDE DEF next
<1>4. FrameQueue(withV, vbl + Frame)
  <2>1. CASE "VBL" \in c041
    <3>1. /\ vbl + LineCyc * VblLine \in Nat
          /\ "VBL_INT" \in EvTypes \ {"60HZ"} /\ 0 \in Nat
      <4>1. LineCyc * VblLine \in Nat
        BY SchedulerAssumption
      <4> HIDE DEF vbl
      <4> QED BY <4>1, <1>f DEF EvTypes
    <3> QED BY <2>1, <3>1, <1>3, <1>f, AddOther DEF AddEventVbl
  <2>2. CASE "VBL" \notin c041
    BY <2>2, <1>3
  <2> QED BY <2>1, <2>2
<1> HIDE DEF withV
<1> DEFINE s0 == ScanState(withV, dcyclesEnd, scanAt, scanEvents)
<1>5. s0 \in ScanStates /\ s0.q = withV
  BY <1>4 DEF ScanState, ScanStates, FrameQueue, IInv, TypeOK
<1>6. PICK c, s : /\ s = IF scanEvents THEN s0 ELSE CheckScanLineInt(s0, c, scb, 0, curCyc, vbl)
                  /\ Becomes([s EXCEPT !.q = WithDevices(s.q, upd)])
  BY DEF Handle60Hz, s0, withV, next
<1>7. s \in ScanStates /\ FrameQueue(s.q, vbl + Frame)
  <2>1. CASE scanEvents
    BY <2>1, <1>4, <1>5, <1>6
  <2>2. CASE ~scanEvents
    <3>1. s = CheckScanLineInt(s0, c, scb, 0, curCyc, vbl) /\ scb \in SUBSET Lines
      BY <2>2, <1>6 DEF IInv, TypeOK
    <3> HIDE DEF s0, vbl
    <3>2. Kept(s0, s, vbl + Frame)
      BY <3>1, <1>4, <1>5, <1>f, CheckScanKeeps
    <3> QED BY <3>2 DEF Kept
  <2> QED BY <2>1, <2>2
<1>8. FrameQueue(WithDevices(s.q, upd), vbl + Frame)
  BY <1>7, <1>f, WithDevicesKeeps
<1>9. /\ FrameQueue(queue', vbl + Frame) /\ dcyclesEnd' \in Nat /\ scanAt' \in Nat
      /\ scanEvents' \in BOOLEAN
  <2> DEFINE w == WithDevices(s.q, upd)
  <2>1. FrameQueue(w, vbl + Frame)
    BY <1>8
  <2> HIDE DEF w
  <2>2. Becomes([s EXCEPT !.q = w])
    BY <1>6 DEF w
  <2> QED BY <2>1, <2>2, <1>7 DEF Becomes, ScanStates
<1>10. TypeOK'
  <2>1. secCnt' \in 0..(SecFrames - 1) /\ qsecCnt' \in 0..(QsecFrames - 1)
    BY SchedulerAssumption, NextCountSpec DEF Handle60Hz, IInv, TypeOK
  <2>2. irq' \in SUBSET IrqSources
    BY DEF Handle60Hz, IInv, TypeOK, IrqSources, AddIrq
  <2>3. /\ c046' \in SUBSET MegaIIBits /\ c023' \in SUBSET C023Bits
    BY DEF Handle60Hz, IInv, TypeOK, MegaIIBits, C023Bits
  <2>4. devPending' \in SUBSET Devices
    BY DEF Handle60Hz, IInv, TypeOK, DeviceUpdates
  <2>5. /\ lastVbl' = vbl /\ pc' = "video"
        /\ UNCHANGED <<curCyc, dfcyc, dcyclesSave, ret, iFlag, waiting, c041, shr, scb,
                       halt, stepping, stops>>
    BY DEF Handle60Hz, videoVars, ctlVars
  <2> HIDE DEF vbl
  <2> QED BY <1>f, <1>9, <2>1, <2>2, <2>3, <2>4, <2>5 DEF IInv, TypeOK, FrameQueue
<1>11. FrameQueued' /\ OnTime' /\ Deadlines'
  <2>1. lastVbl' = vbl /\ pc' = "video" /\ UNCHANGED <<curCyc, dfcyc>> /\ Frame' = Frame
    BY DEF Handle60Hz, Frame
  <2>2. FrameQueued'
    BY <1>9, <2>1 DEF FrameQueued
  <2>3. OnTime' /\ Deadlines'
    <3>1. 1 <= dfcyc /\ MaxInstr' = MaxInstr
      BY DEF IInv, OnTime
    <3> HIDE DEF vbl
    <3> QED BY <1>f, <1>2, <2>1, <3>1 DEF OnTime, Deadlines
  <2> QED BY <2>2, <2>3
<1> QED
  BY <1>10, <1>11 DEF IInv

(* The events of the other types.                                           *)
LEMMA OtherEventStep ==
  ASSUME IInv,
         \/ HandleScanInt \/ HandleVblInt \/ HandleStop
         \/ \E lines \in LineRefs : HandleVidUpd(lines)
         \/ \E request \in BOOLEAN, upd \in DeviceUpdates : HandleDevice(request, upd)
  PROVE  IInv'
<1> DEFINE t == lastVbl + Frame
<1>f. /\ t \in Nat /\ curCyc \in Nat /\ lastVbl \in Nat
      /\ dcyclesEnd \in Nat /\ scanAt \in Nat /\ scanEvents \in BOOLEAN
      /\ FrameQueue(queue, t) /\ queue[1].arg \in Nat
  BY Facts DEF IInv, FrameQueued, TypeOK
<1>p. pc = "events" /\ queue[1].type # "60HZ"
  BY DEF HandleScanInt, HandleVblInt, HandleStop, HandleVidUpd, HandleDevice, Due
<1>1. FrameQueue(Tail(queue), t)
  BY <1>f, <1>p, TailOther
<1>t. TypeOK
  BY DEF IInv
<1>2. ASSUME TypeOK', FrameQueue(queue', t), UNCHANGED <<pc, curCyc, dfcyc, lastVbl>>
      PROVE  IInv'
  BY <1>2, <1>p, HandlerKeeps DEF IInv
<1>3. CASE HandleScanInt
  <2> DEFINE line  == queue[1].arg
             s0    == ScanState(Tail(queue), dcyclesEnd, 0, FALSE)
             valid == line \in scb /\ shr
             s     == IF valid THEN s0
                      ELSE CheckScanLineInt(s0, c023, scb, line + 1, curCyc, lastVbl)
  <2>1. s0 \in ScanStates /\ s0.q = Tail(queue)
    BY <1>1, <1>f DEF ScanState, ScanStates, FrameQueue
  <2>2. Becomes(s)
    BY <1>3 DEF HandleScanInt
  <2>3. s \in ScanStates /\ FrameQueue(s.q, t)
    <3>1. CASE valid
      BY <3>1, <2>1, <1>1
    <3>2. CASE ~valid
      <4>1. s = CheckScanLineInt(s0, c023, scb, line + 1, curCyc, lastVbl)
        BY <3>2
      <4>2. scb \in SUBSET Lines
        BY <1>t DEF TypeOK
      <4> HIDE DEF s0, t
      <4>3. Kept(s0, s, t)
        BY <4>1, <4>2, <2>1, <1>1, <1>f, CheckScanKeeps
      <4> QED BY <4>3 DEF Kept
    <3> QED BY <3>1, <3>2
  <2> HIDE DEF s, valid
  <2>4. /\ queue' \in Seq(Event) /\ dcyclesEnd' \in Nat /\ scanAt' \in Nat
        /\ scanEvents' \in BOOLEAN /\ FrameQueue(queue', t)
    BY <2>2, <2>3 DEF Becomes, ScanStates, FrameQueue
  <2>5. /\ irq' \in SUBSET IrqSources /\ c023' \in SUBSET C023Bits
        /\ halt' \in BOOLEAN
    BY <1>3, <1>t DEF HandleScanInt, TypeOK, AddIrq, IrqSources, C023Bits
  <2>6. UNCHANGED <<pc, curCyc, dfcyc, lastVbl, dcyclesSave, ret, iFlag, waiting, c041, c046,
                    shr, scb, secCnt, qsecCnt, stepping, devPending, stops>>
    BY <1>3 DEF HandleScanInt, timeVars, megaVars, videoVars, cntVars
  <2>7. TypeOK'
    BY <1>t, <2>4, <2>5, <2>6 DEF TypeOK
  <2> QED BY <1>2, <2>4, <2>6, <2>7
<1>4. CASE HandleVblInt
  <2>1. /\ queue' = Tail(queue) /\ irq' \in SUBSET IrqSources /\ c046' \in SUBSET MegaIIBits
    BY <1>4, <1>t DEF HandleVblInt, TypeOK, AddIrq, IrqSources, MegaIIBits
  <2>2. UNCHANGED <<pc, curCyc, dfcyc, lastVbl, dcyclesEnd, dcyclesSave, ret, scanAt, scanEvents,
                    iFlag, waiting, c023, c041, shr, scb, secCnt, qsecCnt, halt, stepping,
                    devPending, stops>>
    BY <1>4 DEF HandleVblInt, timeVars, engineVars, scanVars, videoVars, cntVars, ctlVars
  <2>3. TypeOK'
    BY <1>1, <1>t, <2>1, <2>2 DEF TypeOK, FrameQueue
  <2> QED BY <1>1, <1>2, <2>1, <2>2, <2>3
<1>5. CASE HandleStop
  <2>1. /\ queue' = Tail(queue) /\ halt' \in BOOLEAN
    BY <1>5, <1>t DEF HandleStop, TypeOK
  <2>2. UNCHANGED <<pc, curCyc, dfcyc, lastVbl, dcyclesEnd, dcyclesSave, ret, scanAt, scanEvents,
                    irq, iFlag, waiting, c023, c041, c046, shr, scb, secCnt, qsecCnt, stepping,
                    devPending, stops>>
    BY <1>5 DEF HandleStop, timeVars, engineVars, scanVars, megaVars, videoVars, cntVars
  <2>3. TypeOK'
    BY <1>1, <1>t, <2>1, <2>2 DEF TypeOK, FrameQueue
  <2> QED BY <1>1, <1>2, <2>1, <2>2, <2>3
<1>6. ASSUME NEW request \in BOOLEAN, NEW upd \in DeviceUpdates, HandleDevice(request, upd)
      PROVE  IInv'
  <2>1. FrameQueue(WithDevices(Tail(queue), upd), t)
    BY <1>1, <1>f, WithDevicesKeeps
  <2>2. queue' = WithDevices(Tail(queue), upd)
    BY <1>6 DEF HandleDevice
  <2>3. irq' \in SUBSET IrqSources /\ devPending' \in SUBSET Devices
    BY <1>6, <1>t DEF HandleDevice, TypeOK, AddIrq, IrqSources, DeviceUpdates
  <2>4. UNCHANGED <<pc, curCyc, dfcyc, lastVbl, dcyclesEnd, dcyclesSave, ret, scanAt, scanEvents,
                    iFlag, waiting, c023, c041, c046, shr, scb, secCnt, qsecCnt, halt, stepping,
                    stops>>
    BY <1>6
    DEF HandleDevice, timeVars, engineVars, scanVars, megaVars, videoVars, cntVars, ctlVars
  <2>5. TypeOK'
    BY <1>t, <2>1, <2>2, <2>3, <2>4 DEF TypeOK, FrameQueue
  <2> QED BY <1>2, <2>1, <2>2, <2>4, <2>5
<1>7. ASSUME NEW lines \in LineRefs, HandleVidUpd(lines)
      PROVE  IInv'
  <2>1. queue[1].arg + lines \in Nat
    BY <1>f, SchedulerAssumption
  <2>2. FrameQueue(AddEventVidUpd(Tail(queue), queue[1].arg + lines), t)
    BY <1>1, <1>f, <2>1, AddVidUpdKeeps
  <2>3. FrameQueue(queue', t) /\ halt' \in BOOLEAN
    BY <1>7, <1>1, <1>t, <2>2 DEF HandleVidUpd, NextVidUpd, TypeOK
  <2>4. UNCHANGED <<pc, curCyc, dfcyc, lastVbl, dcyclesEnd, dcyclesSave, ret, scanAt, scanEvents,
                    irq, iFlag, waiting, c023, c041, c046, shr, scb, secCnt, qsecCnt, stepping,
                    devPending, stops>>
    BY <1>7 DEF HandleVidUpd, timeVars, engineVars, scanVars, megaVars, videoVars, cntVars
  <2>5. TypeOK'
    BY <1>t, <2>3, <2>4 DEF TypeOK, FrameQueue
  <2> QED BY <1>2, <2>3, <2>4, <2>5
<1> QED
  BY <1>3, <1>4, <1>5, <1>6, <1>7

-----------------------------------------------------------------------------
(* The invariant.                                                           *)

LEMMA InvInit == Init => IInv
<1> SUFFICES ASSUME Init PROVE IInv
  OBVIOUS
<1>f. Frame \in Nat /\ MaxInstr \in Nat /\ 1 + MaxInstr <= Frame /\ Frame <= TooFar /\ TooFar \in Nat
  BY FrameNat, SchedulerAssumption, QueueAssumption
<1>1. FrameQueue(queue, Frame)
  <2>1. /\ <<>> \in Seq(Event) /\ Sorted(<<>>) /\ Len(<<>>) < MaxEvents
        /\ OfType(<<>>, "60HZ") = {}
    BY QueueAssumption DEF Sorted, OfType
  <2>2. 1 <= Frame /\ Frame <= 1 + TooFar
    BY <1>f
  <2> QED BY <1>f, <2>1, <2>2, AddFrame DEF Init
<1>2. FrameQueued
  <2>1. lastVbl + Frame = Frame
    BY <1>f DEF Init
  <2> QED BY <1>1, <2>1 DEF FrameQueued
<1>3. TypeOK
  <2>1. 0 \in 0..(SecFrames - 1) /\ 0 \in 0..(QsecFrames - 1) /\ 0 \in 0..MaxStops
    BY SchedulerAssumption
  <2> QED BY <1>1, <2>1 DEF Init, TypeOK, FrameQueue
<1>4. OnTime /\ Deadlines
  BY <1>f DEF Init, OnTime, Deadlines
<1> QED
  BY <1>2, <1>3, <1>4 DEF IInv

LEMMA InvStep == IInv /\ [Next]_vars => IInv'
<1> SUFFICES ASSUME IInv, [Next]_vars PROVE IInv'
  OBVIOUS
<1>f. /\ Frame \in Nat /\ lastVbl + Frame \in Nat /\ MaxInstr \in Nat
      /\ curCyc \in Nat /\ dfcyc \in Nat /\ lastVbl \in Nat
      /\ dcyclesEnd \in Nat /\ dcyclesSave \in Nat
      /\ queue[1].at \in Nat /\ queue[1].at <= lastVbl + Frame
      /\ FrameQueue(queue, lastVbl + Frame)
  BY Facts, SchedulerAssumption DEF IInv, FrameQueued, TypeOK
<1>t. TypeOK /\ FrameQueued /\ OnTime /\ Deadlines /\ Frame' = Frame
  BY DEF IInv, Frame
<1>1. CASE RunFrame
  <2>1. TypeOK'
    BY <1>1, <1>t
    DEF RunFrame, TypeOK, timeVars, engineVars, scanVars, megaVars, videoVars, cntVars, ctlVars
  <2>2. FrameQueued' /\ OnTime' /\ Deadlines'
    BY <1>1, <1>t, <1>f DEF RunFrame, FrameQueued, OnTime, Deadlines, timeVars
  <2> QED BY <2>1, <2>2 DEF IInv
<1>2. CASE EnterEngine
  <2>1. /\ pc = "top" /\ pc' = "engine" /\ ret' = "none"
        /\ dcyclesEnd' = Deadline /\ dcyclesSave' = Deadline
        /\ iFlag' \in BOOLEAN /\ waiting' \in BOOLEAN
        /\ UNCHANGED <<queue, curCyc, dfcyc, lastVbl, scanAt, scanEvents, irq, c023, c041, c046,
                       shr, scb, secCnt, qsecCnt, halt, stepping, devPending, stops>>
    BY <1>2, <1>t
    DEF EnterEngine, TypeOK, timeVars, scanVars, megaVars, videoVars, cntVars, ctlVars
  <2>2. dfcyc = curCyc /\ curCyc <= lastVbl + Frame
    BY <1>t, <2>1 DEF OnTime
  <2>3. /\ Deadline \in Nat /\ Deadline <= lastVbl + Frame + 1
        /\ Deadline <= Later(queue[1].at, curCyc) + 1
    BY <2>2, <1>f DEF Deadline, Later
  <2> HIDE DEF Deadline
  <2>4. TypeOK'
    BY <1>t, <2>1, <2>3 DEF TypeOK
  <2>5. FrameQueued' /\ OnTime'
    BY <1>t, <1>f, <2>1, <2>2 DEF FrameQueued, OnTime
  <2>6. Deadlines'
    BY <1>t, <2>1, <2>3 DEF Deadlines, Ahead
  <2> QED BY <2>4, <2>5, <2>6 DEF IInv
<1>3. CASE Instruction
  BY <1>3, InstructionStep
<1>4. CASE ReenterEngine
  <2>1. /\ pc = "engine" /\ pc' = "engine" /\ ret = "psr" /\ ret' = "none"
        /\ dcyclesEnd' = dcyclesSave
    BY <1>4 DEF ReenterEngine, EngineStops
  <2>2. TypeOK'
    BY <1>4, <1>t, <2>1
    DEF ReenterEngine, TypeOK, timeVars, scanVars, megaVars, videoVars, cntVars, ctlVars
  <2>3. FrameQueued' /\ OnTime'
    BY <1>4, <1>t, <2>1 DEF ReenterEngine, FrameQueued, OnTime, timeVars
  <2>4. Deadlines'
    BY <1>4, <1>t, <2>1 DEF ReenterEngine, Deadlines, Ahead, timeVars
  <2> QED BY <2>2, <2>3, <2>4 DEF IInv
<1>5. CASE LeaveEngine
  <2>1. /\ pc = "engine" /\ pc' = "events" /\ curCyc' = dfcyc /\ halt' \in BOOLEAN
        /\ dcyclesEnd' = 0 /\ dcyclesSave' = 0 /\ ret' = "none"
        /\ UNCHANGED <<queue, dfcyc, lastVbl, scanAt, scanEvents, irq, iFlag, waiting, c023,
                       c041, c046, shr, scb, secCnt, qsecCnt, stepping, devPending, stops>>
    BY <1>5, <1>t DEF LeaveEngine, EngineStops, TypeOK, scanVars, megaVars, videoVars, cntVars
  <2>2. TypeOK'
    BY <1>t, <2>1 DEF TypeOK
  <2>3. FrameQueued' /\ OnTime' /\ Deadlines'
    BY <1>t, <1>f, <2>1 DEF FrameQueued, OnTime, Deadlines
  <2> QED BY <2>2, <2>3 DEF IInv
<1>6. CASE HandleEvents
  <2>1. CASE NoMoreDue
    <3>1. /\ pc = "events" /\ queue[1].at > dfcyc /\ pc' \in {"video", "top"}
          /\ UNCHANGED <<queue, curCyc, dfcyc, lastVbl, dcyclesEnd, dcyclesSave, ret, scanAt,
                         scanEvents, irq, iFlag, waiting, c023, c041, c046, shr, scb, secCnt,
                         qsecCnt, halt, stepping, devPending, stops>>
      BY <2>1
      DEF NoMoreDue, timeVars, engineVars, scanVars, megaVars, videoVars, cntVars, ctlVars
    <3>2. TypeOK'
      BY <1>t, <3>1 DEF TypeOK
    <3>3. FrameQueued' /\ OnTime' /\ Deadlines'
      BY <1>t, <1>f, <3>1 DEF FrameQueued, OnTime, Deadlines
    <3> QED BY <3>2, <3>3 DEF IInv
  <2> QED BY <1>6, <2>1, Handle60HzStep, OtherEventStep DEF HandleEvents
<1>7. ASSUME NEW gone \in Withdrawn, Reset(gone) PROVE IInv'
  <2>1. FrameQueue(queue', lastVbl + Frame) /\ queue' \in Seq(Event)
    BY <1>7, ResetKeeps DEF Reset
  <2>2. pc \in {"idle", "video"} /\ UNCHANGED <<pc, curCyc, dfcyc, lastVbl>>
    BY <1>7 DEF Reset, ResetMachine
  <2>3. TypeOK'
    BY <1>7, <1>t, <2>1, <2>2
    DEF Reset, ResetMachine, TypeOK, engineVars, scanVars, cntVars
  <2>4. FrameQueued' /\ OnTime' /\ Deadlines'
    BY <1>t, <2>1, <2>2 DEF FrameQueued, OnTime, Deadlines
  <2> QED BY <2>3, <2>4 DEF IInv
<1>8. ASSUME NEW due \in 0..(MaxFrames * Frame), DebuggerStopAt(due) PROVE IInv'
  <2>1. due \in Nat /\ "STOP" \in EvTypes \ {"60HZ"} /\ 0 \in Nat
    BY DEF EvTypes
  <2>2. FrameQueue(queue', lastVbl + Frame)
    BY <1>8, <1>f, <2>1, AddOther DEF DebuggerStopAt
  <2>6. stops' \in 0..MaxStops
    BY <1>8, <1>t, SchedulerAssumption DEF DebuggerStopAt, TypeOK
  <2>3. /\ pc \in {"idle", "video"} /\ stops' \in 0..MaxStops /\ halt' \in BOOLEAN
        /\ UNCHANGED <<pc, curCyc, dfcyc, lastVbl, dcyclesEnd, dcyclesSave, ret, scanAt,
                       scanEvents, irq, iFlag, waiting, c023, c041, c046, shr, scb, secCnt,
                       qsecCnt, stepping, devPending>>
    BY <1>8, <1>t, <2>6
    DEF DebuggerStopAt, TypeOK, timeVars, engineVars, scanVars, megaVars, videoVars, cntVars
  <2>4. TypeOK'
    BY <1>t, <2>2, <2>3 DEF TypeOK, FrameQueue
  <2>5. FrameQueued' /\ OnTime' /\ Deadlines'
    BY <1>t, <2>2, <2>3 DEF FrameQueued, OnTime, Deadlines
  <2> QED BY <2>4, <2>5 DEF IInv
<1>9. CASE ServerControl
  <2>1. /\ dcyclesEnd' \in {dcyclesEnd, 0} /\ halt' \in BOOLEAN /\ stepping' \in BOOLEAN
        /\ UNCHANGED <<pc, queue, curCyc, dfcyc, lastVbl, dcyclesSave, ret, scanAt, scanEvents,
                       irq, iFlag, waiting, c023, c041, c046, shr, scb, secCnt, qsecCnt,
                       devPending, stops>>
    BY <1>9, <1>t
    DEF ServerControl, TypeOK, timeVars, scanVars, megaVars, videoVars, cntVars
  <2>2. TypeOK'
    BY <1>t, <2>1 DEF TypeOK
  <2>3. FrameQueued' /\ OnTime'
    BY <1>t, <2>1 DEF FrameQueued, OnTime
  <2>4. Deadlines'
    BY <1>t, <2>1 DEF Deadlines, Ahead
  <2> QED BY <2>2, <2>3, <2>4 DEF IInv
<1>10. CASE VideoUpdate
  <2>1. FrameQueue(AddEventVidUpd(queue, 0), lastVbl + Frame)
    BY <1>f, AddVidUpdKeeps
  <2>2. /\ FrameQueue(queue', lastVbl + Frame) /\ halt' \in BOOLEAN
        /\ pc = "video" /\ pc' = "idle"
        /\ UNCHANGED <<curCyc, dfcyc, lastVbl, dcyclesEnd, dcyclesSave, ret, scanAt,
                       scanEvents, irq, iFlag, waiting, c023, c041, c046, shr, scb, secCnt,
                       qsecCnt, stepping, devPending, stops>>
    BY <1>10, <1>f, <1>t, <2>1
    DEF VideoUpdate, TypeOK, timeVars, engineVars, scanVars, megaVars, videoVars, cntVars
  <2>3. TypeOK'
    BY <1>t, <2>2 DEF TypeOK, FrameQueue
  <2>4. FrameQueued' /\ OnTime' /\ Deadlines'
    BY <1>t, <2>2 DEF FrameQueued, OnTime, Deadlines
  <2> QED BY <2>3, <2>4 DEF IInv
<1>11. CASE UNCHANGED vars
  <2>1. TypeOK'
    BY <1>11, <1>t
    DEF vars, TypeOK, timeVars, engineVars, scanVars, megaVars, videoVars, cntVars, ctlVars
  <2>2. FrameQueued' /\ OnTime' /\ Deadlines'
    BY <1>11, <1>t
    DEF vars, FrameQueued, OnTime, Deadlines, Ahead, timeVars, engineVars
  <2> QED BY <2>1, <2>2 DEF IInv
<1> QED
  BY <1>1, <1>2, <1>3, <1>4, <1>5, <1>6, <1>7, <1>8, <1>9, <1>10, <1>11
  DEF Next, Main, User

LEMMA Invariance == Spec => []IInv
  BY InvInit, InvStep, PTL DEF Spec

-----------------------------------------------------------------------------
(* Every variable keeps its type.                                           *)
THEOREM TypeCorrect == Spec => []TypeOK
<1>1. IInv => TypeOK
  BY DEF IInv
<1> QED
  BY <1>1, Invariance, PTL

(* add_event_entry, remove_event_entry and the handlers keep the list in    *)
(* order of time.                                                           *)
THEOREM QueueAlwaysSorted == Spec => []QueueSorted
<1>1. IInv => QueueSorted
  BY DEF IInv, FrameQueued, FrameQueue, QueueSorted
<1> QED
  BY <1>1, Invariance, PTL

(* The 60 Hz event is always queued once, a frame after the last one: the   *)
(* list that run_a2_one_vbl takes the first entry of is never empty.        *)
THEOREM FrameEventAlwaysQueued == Spec => []FrameEventQueued
<1>1. IInv => FrameEventQueued
  BY DEF IInv, FrameQueued, FrameQueue, FrameEventQueued
<1> QED
  BY <1>1, Invariance, PTL

(* In every state the list that run_a2_one_vbl and run_engine take the first *)
(* entry of is in order of time and holds the frame's event exactly once.    *)
THEOREM QueueAlwaysInOrder == Spec => []QueueInOrder
<1>1. QueueSorted /\ FrameEventQueued => QueueInOrder
  BY DEF QueueInOrder
<1> QED
  BY <1>1, QueueAlwaysSorted, FrameEventAlwaysQueued, PTL


(* A frame never lasts longer than its cycles and one instruction.          *)
THEOREM FramesOnTime == Spec => []FrameOnTime
<1>1. IInv => FrameOnTime
  BY DEF IInv, OnTime, FrameOnTime
<1> QED
  BY <1>1, Invariance, PTL

(* The engine's deadline is never behind the list while it runs.            *)
THEOREM DeadlineAlwaysFresh == Spec => []DeadlineFresh
<1>1. IInv => DeadlineFresh
  <2> SUFFICES ASSUME IInv, pc = "engine"
               PROVE  /\ dcyclesEnd <= Later(queue[1].at, curCyc) + 1
                      /\ ret = "psr" => dcyclesSave <= Later(queue[1].at, curCyc) + 1
    BY DEF DeadlineFresh
  <2>1. /\ queue[1].at \in Nat /\ curCyc \in Nat /\ dcyclesSave \in Nat
        /\ dcyclesEnd \in {0, dcyclesSave}
        /\ dcyclesEnd # 0 \/ ret = "psr" => Ahead
    BY Facts DEF IInv, Deadlines
  <2> QED BY <2>1 DEF Ahead, Later
<1> QED
  BY <1>1, Invariance, PTL

-----------------------------------------------------------------------------
(* The registers and the requests: this invariant is inductive by itself.   *)

LEMMA IrqStep ==
  ASSUME IrqsMatchRegisters, [Next]_vars
  PROVE  IrqsMatchRegisters'
<1> USE DEF IrqsMatchRegisters
<1>0. ASSUME UNCHANGED <<irq, c023, c041, c046>> PROVE IrqsMatchRegisters'
  BY <1>0
<1>1. CASE Instruction
  <2>0. PICK d \in MinInstr..MaxInstr :
          \/ InstrOther(d) \/ InstrWai(d) \/ InstrPsr(d) \/ InstrHalt(d)
          \/ \E enables \in SUBSET C023Enables : WriteC023(d, enables)
          \/ \E clear \in SUBSET {"SEC", "SCAN"} : WriteC032(d, clear)
          \/ \E enables \in SUBSET MegaIIBits : WriteC041(d, enables)
          \/ AccessC047(d) \/ WriteC029(d)
          \/ \E line \in Lines : WriteScb(d, line)
          \/ \E dev \in Devices, delay \in 1..MaxDelay : DeviceStart(d, dev, delay)
          \/ \E dev \in Devices : DeviceStop(d, dev)
          \/ DeviceAck(d)
          \/ \E gone \in Withdrawn : InstrAdbReset(d, gone)
    BY <1>1 DEF Instruction
  <2>1. CASE InstrOther(d) \/ InstrWai(d) \/ InstrPsr(d) \/ InstrHalt(d)
    <3>1. UNCHANGED <<irq, c023, c041, c046>>
      BY <2>1 DEF InstrOther, InstrWai, InstrPsr, InstrHalt, megaVars
    <3> QED BY <3>1, <1>0
  <2>2. ASSUME NEW enables \in SUBSET C023Enables, WriteC023(d, enables)
        PROVE  IrqsMatchRegisters'
    BY <2>2 DEF WriteC023, AddIrq, RemoveIrq, C023Enables, MegaIIBits, megaVars
  <2>3. ASSUME NEW clear \in SUBSET {"SEC", "SCAN"}, WriteC032(d, clear)
        PROVE  IrqsMatchRegisters'
    BY <2>3 DEF WriteC032, RemoveIrq, MegaIIBits, megaVars
  <2>4. ASSUME NEW enables \in SUBSET MegaIIBits, WriteC041(d, enables)
        PROVE  IrqsMatchRegisters'
    BY <2>4 DEF WriteC041, RemoveIrq, MegaIIBits
  <2>5. CASE AccessC047(d)
    BY <2>5 DEF AccessC047, RemoveIrq, MegaIIBits
  <2>6. CASE \/ WriteC029(d) \/ \E line \in Lines : WriteScb(d, line)
             \/ \E dev \in Devices, delay \in 1..MaxDelay : DeviceStart(d, dev, delay)
             \/ \E dev \in Devices : DeviceStop(d, dev)
    <3>1. UNCHANGED <<irq, c023, c041, c046>>
      BY <2>6 DEF WriteC029, WriteScb, DeviceStart, DeviceStop, megaVars
    <3> QED BY <3>1, <1>0
  <2>7. CASE DeviceAck(d)
    BY <2>7 DEF DeviceAck, RemoveIrq, MegaIIBits, megaVars
  <2>8. ASSUME NEW gone \in Withdrawn, InstrAdbReset(d, gone) PROVE IrqsMatchRegisters'
    BY <2>8 DEF InstrAdbReset, ResetMachine, MegaIIBits
  <2> QED BY <2>0, <2>1, <2>2, <2>3, <2>4, <2>5, <2>6, <2>7, <2>8
<1>2. CASE HandleEvents
  <2>1. ASSUME NEW upd \in DeviceUpdates, Handle60Hz(upd) PROVE IrqsMatchRegisters'
    BY <2>1 DEF Handle60Hz, AddIrq, MegaIIBits
  <2>2. CASE HandleScanInt
    BY <2>2 DEF HandleScanInt, AddIrq, MegaIIBits, megaVars
  <2>3. CASE HandleVblInt
    BY <2>3 DEF HandleVblInt, AddIrq, MegaIIBits
  <2>4. CASE HandleStop \/ NoMoreDue \/ \E lines \in LineRefs : HandleVidUpd(lines)
    <3>1. UNCHANGED <<irq, c023, c041, c046>>
      BY <2>4 DEF HandleStop, NoMoreDue, HandleVidUpd, megaVars
    <3> QED BY <3>1, <1>0
  <2>5. ASSUME NEW request \in BOOLEAN, NEW upd \in DeviceUpdates, HandleDevice(request, upd)
        PROVE  IrqsMatchRegisters'
    BY <2>5 DEF HandleDevice, AddIrq, MegaIIBits, megaVars
  <2> QED BY <1>2, <2>1, <2>2, <2>3, <2>4, <2>5 DEF HandleEvents
<1>3. CASE RunFrame \/ VideoUpdate \/ EnterEngine \/ ReenterEngine \/ LeaveEngine
  <2>1. UNCHANGED <<irq, c023, c041, c046>>
    BY <1>3 DEF RunFrame, VideoUpdate, EnterEngine, ReenterEngine, LeaveEngine, megaVars
  <2> QED BY <2>1, <1>0
<1>4. CASE User
  <2>1. ASSUME NEW gone \in Withdrawn, Reset(gone) PROVE IrqsMatchRegisters'
    BY <2>1 DEF Reset, ResetMachine, MegaIIBits
  <2>2. ASSUME NEW due \in 0..(MaxFrames * Frame), DebuggerStopAt(due)
        PROVE  IrqsMatchRegisters'
    <3>1. UNCHANGED <<irq, c023, c041, c046>>
      BY <2>2 DEF DebuggerStopAt, megaVars
    <3> QED BY <3>1, <1>0
  <2>3. CASE ServerControl
    <3>1. UNCHANGED <<irq, c023, c041, c046>>
      BY <2>3 DEF ServerControl, megaVars
    <3> QED BY <3>1, <1>0
  <2> QED BY <1>4, <2>1, <2>2, <2>3 DEF User
<1>5. CASE UNCHANGED vars
  <2>1. UNCHANGED <<irq, c023, c041, c046>>
    BY <1>5 DEF vars, megaVars
  <2> QED BY <2>1, <1>0
<1> QED
  BY <1>1, <1>2, <1>3, <1>4, <1>5 DEF Next, Main

(* The VGC and Mega II requests agree with $C023, $C041 and $C046, whatever *)
(* the program writes to them and whenever the events come.                 *)
THEOREM IrqsAlwaysMatch == Spec => []IrqsMatchRegisters
<1>1. Init => IrqsMatchRegisters
  BY DEF Init, IrqsMatchRegisters, MegaIIBits
<1>2. IrqsMatchRegisters /\ [Next]_vars => IrqsMatchRegisters'
  BY IrqStep
<1> QED
  BY <1>1, <1>2, PTL DEF Spec

-----------------------------------------------------------------------------
(***************************************************************************)
(* What the list says of the VBL, the scan line, the screen and the devices *)
(* needs more of the machine than its order does.                           *)
(*                                                                         *)
(* The hypothesis: an instruction is shorter than a line (a line is 65      *)
(* cycles), the vertical blanking is not the first line, and the pool holds *)
(* the 60 Hz, VBL, scan-line and video events, one for every device and one *)
(* for every stop the debugger asks for (MAX_EVENTS is 64; the oscillators, *)
(* the serial ports and the Mockingboard have 32, 6 and 1).  And nobody     *)
(* stops the machine between instructions: an instruction stepped after a   *)
(* halt reaches video_update, which queues a line's VID_UPD event although  *)
(* one is queued, and the pool fills.                                       *)
(***************************************************************************)
Unhurried ==
  /\ Inputs \cap {"halt", "step"} = {}
  /\ MaxInstr < LineCyc /\ 0 < VblLine
  /\ 4 + Cardinality(Devices) + MaxStops <= MaxEvents

(* An entry is at the time its type has in the frame that began at vbl, and *)
(* a line to draw is not forgotten for longer than an instruction.          *)
InItsTime(e, vbl, at, now) ==
  /\ e.type = "VBL_INT" => e.at = vbl + LineCyc * VblLine
  /\ e.type = "SCAN_INT" => e.at = at
  /\ e.type = "VID_UPD" =>
       /\ e.arg < ShrLines /\ e.at = vbl + LineCyc * (e.arg + 1)
       /\ now <= e.at + 1 + MaxInstr
  /\ e.type = "DEVICE" => e.arg \in Devices

(* How many entries of each type there are: a scan-line event when one was  *)
(* scheduled, and one event for each device that waits for one.             *)
Numbered(q, at, pend, st) ==
  /\ Count(q, "VBL_INT") <= 1 /\ Count(q, "VID_UPD") <= 1
  /\ Count(q, "SCAN_INT") = One(at # 0) /\ Count(q, "STOP") <= st
  /\ Count(q, "DEVICE") = Cardinality(pend)
  /\ \A dev \in Devices : CountArg(q, "DEVICE", dev) = One(dev \in pend)

Listed(q, vbl, at, pend, st, now) ==
  /\ Numbered(q, at, pend, st)
  /\ \A e \in Entries(q) : InItsTime(e, vbl, at, now)

(* No entry of a type is counted when none is there.                        *)
LEMMA NoneLeft ==
  ASSUME NEW q \in Seq(Event), NEW type
  PROVE  Count(q, type) = 0 <=> \A e \in Entries(q) : e.type # type
<1>1. IsFiniteSet(OfType(q, type))
  <2>1. IsFiniteSet(1..Len(q)) /\ OfType(q, type) \in SUBSET (1..Len(q))
    BY FS_Interval, EventSeq DEF OfType
  <2> QED BY <2>1, FS_Subset
<1>2. Count(q, type) = 0 <=> OfType(q, type) = {}
  BY <1>1, FS_EmptySet DEF Count
<1> QED BY <1>2 DEF OfType, Entries

(* There is one 60 Hz event,                                                *)
LEMMA FrameCount ==
  ASSUME NEW q, NEW t \in Nat, FrameQueue(q, t)
  PROVE  Count(q, "60HZ") = 1
  BY FS_Singleton DEF FrameQueue, Count

(* no more devices wait than there are,                                     *)
LEMMA PendingFinite ==
  ASSUME NEW pend \in SUBSET Devices
  PROVE  /\ IsFiniteSet(pend) /\ Cardinality(pend) \in Nat
         /\ Cardinality(Devices) \in Nat /\ Cardinality(pend) <= Cardinality(Devices)
         /\ \A dev \in Devices \ pend : Cardinality(pend) < Cardinality(Devices)
<1>1. IsFiniteSet(Devices)
  BY SchedulerAssumption
<1>2. /\ IsFiniteSet(pend) /\ Cardinality(pend) <= Cardinality(Devices)
      /\ Cardinality(pend) \in Nat /\ Cardinality(Devices) \in Nat
  BY <1>1, FS_Subset, FS_CardinalityType
<1>3. ASSUME NEW dev \in Devices \ pend PROVE Cardinality(pend) < Cardinality(Devices)
  <2>1. Cardinality(pend) = Cardinality(Devices) => pend = Devices
    BY <1>1, FS_Subset
  <2> QED BY <1>2, <2>1
<1> QED BY <1>2, <1>3

(* and so the pool is not empty when something is still to be queued.       *)
LEMMA Room ==
  ASSUME Unhurried, NEW q, NEW t \in Nat, FrameQueue(q, t),
         NEW vbl, NEW at, NEW pend \in SUBSET Devices, NEW st \in 0..MaxStops,
         Numbered(q, at, pend, st)
  PROVE  /\ Len(q) <= 4 + Cardinality(pend) + st
         /\ (\/ Count(q, "VBL_INT") = 0 \/ Count(q, "VID_UPD") = 0
             \/ at = 0 \/ st < MaxStops \/ Devices \ pend # {})
              => Len(q) < MaxEvents
<1>1. Len(q) = Count(q, "60HZ") + Count(q, "STOP") + Count(q, "SCAN_INT")
                    + Count(q, "VBL_INT") + Count(q, "VID_UPD") + Count(q, "DEVICE")
  BY LenCounts DEF FrameQueue
<1>2. Count(q, "60HZ") = 1
  BY FrameCount
<1>3. /\ Count(q, "STOP") \in Nat /\ Count(q, "VBL_INT") \in Nat /\ Count(q, "VID_UPD") \in Nat
      /\ Count(q, "SCAN_INT") \in Nat
  BY CountOf DEF FrameQueue
<1>4. /\ Cardinality(pend) \in Nat /\ Cardinality(Devices) \in Nat
      /\ Cardinality(pend) <= Cardinality(Devices)
      /\ Devices \ pend # {} => Cardinality(pend) < Cardinality(Devices)
  BY PendingFinite
<1>5. MaxEvents \in Nat /\ MaxStops \in Nat
  BY QueueAssumption, SchedulerAssumption
<1>6. One(at # 0) = IF at # 0 THEN 1 ELSE 0
  BY DEF One
<1>7. /\ Count(q, "VBL_INT") <= 1 /\ Count(q, "VID_UPD") <= 1
      /\ Count(q, "SCAN_INT") <= 1 /\ (at = 0 => Count(q, "SCAN_INT") = 0)
      /\ Count(q, "STOP") <= st /\ Count(q, "DEVICE") = Cardinality(pend)
      /\ 4 + Cardinality(Devices) + MaxStops <= MaxEvents
  <2>1. /\ Count(q, "VBL_INT") <= 1 /\ Count(q, "VID_UPD") <= 1
        /\ Count(q, "SCAN_INT") = One(at # 0)
        /\ Count(q, "STOP") <= st /\ Count(q, "DEVICE") = Cardinality(pend)
        /\ 4 + Cardinality(Devices) + MaxStops <= MaxEvents
    BY Zenon DEF Numbered, Unhurried
  <2> QED BY <2>1, <1>6
<1> DEFINE n == Len(q)
           a == Count(q, "STOP")
           b == Count(q, "SCAN_INT")
           c == Count(q, "VBL_INT")
           d == Count(q, "VID_UPD")
           e == Cardinality(pend)
           f == Cardinality(Devices)
           free == Devices \ pend # {}
<1>8. /\ n = 1 + a + b + c + d + e
      /\ {a, b, c, d, e, f} \subseteq Nat /\ e <= f /\ (free => e < f)
      /\ a <= st /\ b <= 1 /\ (at = 0 => b = 0) /\ c <= 1 /\ d <= 1
      /\ 4 + f + MaxStops <= MaxEvents
  BY <1>1, <1>2, <1>3, <1>4, <1>7
<1> HIDE DEF n, a, b, c, d, e, f, free
<1>9. n <= 4 + e + st
  BY <1>5, <1>8
<1>10. c = 0 \/ d = 0 \/ at = 0 \/ st < MaxStops \/ free => n < MaxEvents
  BY <1>5, <1>8
<1> QED BY <1>9, <1>10 DEF n, a, b, c, d, e, f, free

(* What adding an entry does to the numbers. *)
LEMMA GrownNumbers ==
  ASSUME NEW q, NEW e, NEW r, Grown(q, e, r)
  PROVE  /\ q \in Seq(Event) /\ r \in Seq(Event) /\ e \in Event
         /\ \A type \in EvTypes :
              /\ Count(q, type) \in Nat /\ Count(r, type) \in Nat
              /\ type # e.type => Count(r, type) = Count(q, type)
              /\ type = e.type => Count(r, type) = Count(q, type) + 1
         /\ \A arg : /\ CountArg(q, "DEVICE", arg) \in Nat
                     /\ e.type # "DEVICE" \/ e.arg # arg
                          => CountArg(r, "DEVICE", arg) = CountArg(q, "DEVICE", arg)
                     /\ e.type = "DEVICE" /\ e.arg = arg
                          => CountArg(r, "DEVICE", arg) = CountArg(q, "DEVICE", arg) + 1
         /\ Entries(r) = Entries(q) \cup {e}
<1>1. q \in Seq(Event) /\ r \in Seq(Event) /\ e \in Event
  BY DEF Grown
<1>2. ASSUME NEW type \in EvTypes
      PROVE  /\ Count(q, type) \in Nat /\ Count(r, type) \in Nat
             /\ type # e.type => Count(r, type) = Count(q, type)
             /\ type = e.type => Count(r, type) = Count(q, type) + 1
  <2>1. Count(q, type) \in Nat /\ Count(r, type) \in Nat
    BY <1>1, CountOf
  <2>2. Count(r, type) = Count(q, type) + One(type = e.type)
    BY GrownCount
  <2>3. One(type = e.type) = IF type = e.type THEN 1 ELSE 0
    BY DEF One
  <2> QED BY <2>1, <2>2, <2>3
<1>3. ASSUME NEW arg
      PROVE  /\ CountArg(q, "DEVICE", arg) \in Nat
             /\ e.type # "DEVICE" \/ e.arg # arg
                  => CountArg(r, "DEVICE", arg) = CountArg(q, "DEVICE", arg)
             /\ e.type = "DEVICE" /\ e.arg = arg
                  => CountArg(r, "DEVICE", arg) = CountArg(q, "DEVICE", arg) + 1
  <2> DEFINE new == "DEVICE" = e.type /\ arg = e.arg
  <2>1. CountArg(q, "DEVICE", arg) \in Nat
    BY <1>1, CountArgOf
  <2>2. CountArg(r, "DEVICE", arg) = CountArg(q, "DEVICE", arg) + One(new)
    BY GrownCount
  <2>3. One(new) = IF new THEN 1 ELSE 0
    BY DEF One
  <2> QED BY <2>1, <2>2, <2>3
<1> QED BY <1>1, <1>2, <1>3, GrownEntries

-----------------------------------------------------------------------------
(* One entry more, or one less, and what the list is then.                  *)

(* An entry of the frame changes nothing. *)
LEMMA FrameGrown ==
  ASSUME NEW q, NEW e, NEW r, Grown(q, e, r), e.type = "60HZ",
         NEW vbl, NEW at, NEW pend, NEW st, NEW now
  PROVE  Listed(q, vbl, at, pend, st, now) <=> Listed(r, vbl, at, pend, st, now)
<1>1. /\ \A type \in EvTypes \ {"60HZ"} : Count(r, type) = Count(q, type)
      /\ \A arg : CountArg(r, "DEVICE", arg) = CountArg(q, "DEVICE", arg)
      /\ Entries(r) = Entries(q) \cup {e}
  BY GrownNumbers
<1>2. InItsTime(e, vbl, at, now)
  BY DEF InItsTime
<1>3. Numbered(q, at, pend, st) <=> Numbered(r, at, pend, st)
  BY <1>1 DEF Numbered, EvTypes
<1> QED BY <1>1, <1>2, <1>3 DEF Listed

(* In its time no event of the frame moves.                                 *)
LEMMA NotMoved ==
  ASSUME NEW at \in Nat, NEW now \in Nat, now <= at, at <= now + TooFar
  PROVE  DueTime(at, now) = at
  BY QueueAssumption DEF DueTime

(* An event for the scan line that had none, at its time.                   *)
LEMMA AddScanListed ==
  ASSUME Unhurried, NEW q, NEW t \in Nat, FrameQueue(q, t),
         NEW vbl, NEW pend \in SUBSET Devices, NEW st \in 0..MaxStops, NEW now,
         Listed(q, vbl, 0, pend, st, now),
         NEW when \in Nat \ {0}, NEW cur \in Nat, cur <= when, when <= cur + TooFar,
         NEW line \in Nat
  PROVE  Listed(AddEvent(q, cur, when, "SCAN_INT", line), vbl, when, pend, st, now)
<1> DEFINE r == AddEvent(q, cur, when, "SCAN_INT", line)
           e == [at |-> when, type |-> "SCAN_INT", arg |-> line]
<1>1. Len(q) < MaxEvents
  BY Room DEF Listed
<1>2. Grown(q, e, r)
  BY <1>1, NotMoved, AddGrows DEF FrameQueue, EvTypes
<1>3. e.type = "SCAN_INT" /\ e.at = when
  OBVIOUS
<1> HIDE DEF r, e
<1>g. /\ \A type \in EvTypes :
           /\ Count(q, type) \in Nat /\ Count(r, type) \in Nat
           /\ type # e.type => Count(r, type) = Count(q, type)
           /\ type = e.type => Count(r, type) = Count(q, type) + 1
      /\ \A arg : /\ CountArg(q, "DEVICE", arg) \in Nat
                  /\ e.type # "DEVICE" \/ e.arg # arg
                       => CountArg(r, "DEVICE", arg) = CountArg(q, "DEVICE", arg)
                  /\ e.type = "DEVICE" /\ e.arg = arg
                       => CountArg(r, "DEVICE", arg) = CountArg(q, "DEVICE", arg) + 1
      /\ Entries(r) = Entries(q) \cup {e} /\ q \in Seq(Event)
  BY <1>2, GrownNumbers
<1>4. /\ \A type \in EvTypes \ {"SCAN_INT"} : Count(r, type) = Count(q, type)
      /\ Count(r, "SCAN_INT") = Count(q, "SCAN_INT") + 1 /\ Count(q, "SCAN_INT") \in Nat
      /\ \A arg : CountArg(r, "DEVICE", arg) = CountArg(q, "DEVICE", arg)
      /\ Entries(r) = Entries(q) \cup {e} /\ q \in Seq(Event)
  BY <1>3, <1>g DEF EvTypes
<1>5. Count(q, "SCAN_INT") = 0
  BY DEF Listed, Numbered, One
<1>6. \A x \in Entries(q) : x.type # "SCAN_INT"
  BY <1>4, <1>5, NoneLeft
<1>7. Numbered(r, when, pend, st)
  BY <1>4, <1>5 DEF Listed, Numbered, EvTypes, One
<1>8. \A x \in Entries(r) : InItsTime(x, vbl, when, now)
  BY <1>3, <1>4, <1>6 DEF Listed, InItsTime
<1> QED BY <1>7, <1>8 DEF Listed, r

(* The scan-line event is taken from the list's head by its handler,        *)
LEMMA ScanGoneListed ==
  ASSUME NEW q, NEW e, NEW r, Grown(r, e, q), e.type = "SCAN_INT",
         NEW vbl, NEW at, NEW pend, NEW st, NEW now,
         Listed(q, vbl, at, pend, st, now)
  PROVE  Listed(r, vbl, 0, pend, st, now)
<1>1. /\ \A type \in EvTypes \ {"SCAN_INT"} : Count(q, type) = Count(r, type)
      /\ Count(q, "SCAN_INT") = Count(r, "SCAN_INT") + 1 /\ Count(r, "SCAN_INT") \in Nat
      /\ \A arg : CountArg(q, "DEVICE", arg) = CountArg(r, "DEVICE", arg)
      /\ Entries(q) = Entries(r) \cup {e} /\ r \in Seq(Event)
  BY GrownNumbers DEF EvTypes
<1>2. Count(q, "SCAN_INT") = One(at # 0) /\ One(at # 0) \in {0, 1}
  BY DEF Listed, Numbered, One
<1>3. Count(r, "SCAN_INT") = 0
  BY <1>1, <1>2
<1>4. \A x \in Entries(r) : x.type # "SCAN_INT"
  BY <1>1, <1>3, NoneLeft
<1>5. Numbered(r, 0, pend, st)
  BY <1>1, <1>3 DEF Listed, Numbered, EvTypes, One
<1>6. \A x \in Entries(r) : InItsTime(x, vbl, 0, now)
  BY <1>1, <1>4 DEF Listed, InItsTime
<1> QED BY <1>5, <1>6 DEF Listed

(* or from anywhere by remove_event_entry.                                  *)
LEMMA RemoveScanListed ==
  ASSUME NEW q \in Seq(Event), NEW vbl, NEW at \in Nat, NEW pend, NEW st, NEW now,
         Listed(q, vbl, at, pend, st, now)
  PROVE  Listed(IF at # 0 THEN RemoveFirstAt(q, OfType(q, "SCAN_INT")) ELSE q,
                vbl, 0, pend, st, now)
<1>1. CASE at = 0
  BY <1>1
<1>2. CASE at # 0
  <2> DEFINE P == OfType(q, "SCAN_INT")
             r == RemoveFirstAt(q, P)
  <2>1. Count(q, "SCAN_INT") = 1
    BY <1>2 DEF Listed, Numbered, One
  <2>2. P # {} /\ P \in SUBSET (1..Len(q))
    <3>1. Cardinality({}) = 0
      BY FS_EmptySet
    <3>2. P = {} => Count(q, "SCAN_INT") = 0
      BY <3>1, Zenon DEF Count
    <3>3. P # {}
      <4> HIDE DEF P
      <4> QED BY <2>1, <3>2
    <3> QED BY <3>3 DEF OfType
  <2>3. PICK p \in P : Grown(r, q[p], q)
    BY <2>2, RemoveShrinks
  <2>4. q[p].type = "SCAN_INT"
    BY DEF OfType
  <2> HIDE DEF r, P
  <2>5. Listed(r, vbl, 0, pend, st, now)
    BY <2>3, <2>4, ScanGoneListed
  <2> QED BY <1>2, <2>5 DEF r, P
<1> QED BY <1>1, <1>2

(* A device that waits for nothing queues an event,                         *)
LEMMA AddDeviceListed ==
  ASSUME Unhurried, NEW q, NEW t \in Nat, FrameQueue(q, t),
         NEW vbl, NEW at, NEW pend \in SUBSET Devices, NEW st \in 0..MaxStops, NEW now,
         Listed(q, vbl, at, pend, st, now),
         NEW cur \in Nat, NEW due \in Nat, NEW dev \in Devices \ pend
  PROVE  Listed(AddDeviceEvent(q, cur, due, dev), vbl, at, pend \cup {dev}, st, now)
<1> DEFINE when == Later(due, cur)
           r == AddEvent(q, cur, when, "DEVICE", dev)
           e == [at |-> DueTime(when, cur), type |-> "DEVICE", arg |-> dev]
<1>0. when \in Nat /\ dev \in Nat
  BY SchedulerAssumption DEF Later
<1>1. Len(q) < MaxEvents
  BY Room DEF Listed
<1>2. Grown(q, e, r)
  BY <1>0, <1>1, AddGrows DEF FrameQueue, EvTypes
<1>3. e.type = "DEVICE" /\ e.arg = dev /\ r = AddDeviceEvent(q, cur, due, dev)
  BY DEF AddDeviceEvent
<1> HIDE DEF r, e
<1>g. /\ \A type \in EvTypes :
           /\ Count(q, type) \in Nat /\ Count(r, type) \in Nat
           /\ type # e.type => Count(r, type) = Count(q, type)
           /\ type = e.type => Count(r, type) = Count(q, type) + 1
      /\ \A arg : /\ CountArg(q, "DEVICE", arg) \in Nat
                  /\ e.type # "DEVICE" \/ e.arg # arg
                       => CountArg(r, "DEVICE", arg) = CountArg(q, "DEVICE", arg)
                  /\ e.type = "DEVICE" /\ e.arg = arg
                       => CountArg(r, "DEVICE", arg) = CountArg(q, "DEVICE", arg) + 1
      /\ Entries(r) = Entries(q) \cup {e} /\ q \in Seq(Event)
  BY <1>2, GrownNumbers
<1>4. /\ \A type \in EvTypes \ {"DEVICE"} : Count(r, type) = Count(q, type)
      /\ Count(r, "DEVICE") = Count(q, "DEVICE") + 1
      /\ \A arg : arg # dev => CountArg(r, "DEVICE", arg) = CountArg(q, "DEVICE", arg)
      /\ CountArg(r, "DEVICE", dev) = CountArg(q, "DEVICE", dev) + 1
      /\ Entries(r) = Entries(q) \cup {e}
  BY <1>3, <1>g DEF EvTypes
<1>5. Cardinality(pend \cup {dev}) = Cardinality(pend) + 1
  BY PendingFinite, FS_AddElement
<1>6. \A d \in Devices : CountArg(r, "DEVICE", d) = One(d \in pend \cup {dev})
  <2> SUFFICES ASSUME NEW d \in Devices
               PROVE  CountArg(r, "DEVICE", d) = One(d \in pend \cup {dev})
    OBVIOUS
  <2>1. CountArg(q, "DEVICE", d) = One(d \in pend)
    BY DEF Listed, Numbered
  <2>2. CASE d = dev
    <3>1. CountArg(q, "DEVICE", d) = 0 /\ One(d \in pend \cup {dev}) = 1
      BY <2>1, <2>2 DEF One
    <3> QED BY <3>1, <2>2, <1>4
  <2>3. CASE d # dev
    <3>1. One(d \in pend \cup {dev}) = One(d \in pend)
      BY <2>3 DEF One
    <3> QED BY <3>1, <2>1, <2>3, <1>4
  <2> QED BY <2>2, <2>3
<1>7. Numbered(r, at, pend \cup {dev}, st)
  BY <1>4, <1>5, <1>6 DEF Listed, Numbered, EvTypes
<1>8. \A x \in Entries(r) : InItsTime(x, vbl, at, now)
  BY <1>3, <1>4 DEF Listed, InItsTime
<1> QED BY <1>3, <1>7, <1>8 DEF Listed

(* and the event of one that waits is taken out.                            *)
LEMMA RemoveDeviceListed ==
  ASSUME NEW q \in Seq(Event), NEW e, NEW r, Grown(r, e, q), e.type = "DEVICE",
         NEW vbl, NEW at, NEW pend \in SUBSET Devices, NEW st, NEW now,
         Listed(q, vbl, at, pend, st, now), e.arg \in pend
  PROVE  Listed(r, vbl, at, pend \ {e.arg}, st, now)
<1> DEFINE dev == e.arg
<1>4. /\ \A type \in EvTypes \ {"DEVICE"} : Count(r, type) = Count(q, type)
      /\ Count(q, "DEVICE") = Count(r, "DEVICE") + 1 /\ Count(r, "DEVICE") \in Nat
      /\ \A arg : arg # dev => CountArg(r, "DEVICE", arg) = CountArg(q, "DEVICE", arg)
      /\ CountArg(q, "DEVICE", dev) = CountArg(r, "DEVICE", dev) + 1
      /\ CountArg(r, "DEVICE", dev) \in Nat
      /\ Entries(q) = Entries(r) \cup {e}
  BY GrownNumbers, SMTT(30) DEF EvTypes
<1>5. Cardinality(pend \ {dev}) = Cardinality(pend) - 1
  BY PendingFinite, FS_RemoveElement
<1> HIDE DEF dev
<1>6. \A d \in Devices : CountArg(r, "DEVICE", d) = One(d \in pend \ {dev})
  <2> SUFFICES ASSUME NEW d \in Devices
               PROVE  CountArg(r, "DEVICE", d) = One(d \in pend \ {dev})
    OBVIOUS
  <2>1. CountArg(q, "DEVICE", d) = One(d \in pend)
    BY DEF Listed, Numbered
  <2>2. CASE d = dev
    <3>1. CountArg(q, "DEVICE", d) = 1 /\ One(d \in pend \ {dev}) = 0
      BY <2>1, <2>2 DEF One, dev
    <3> QED BY <3>1, <2>2, <1>4
  <2>3. CASE d # dev
    <3>1. One(d \in pend \ {dev}) = One(d \in pend)
      BY <2>3 DEF One
    <3> QED BY <3>1, <2>1, <2>3, <1>4
  <2> QED BY <2>2, <2>3
<1>7. Numbered(r, at, pend \ {dev}, st)
  BY <1>4, <1>5, <1>6 DEF Listed, Numbered, EvTypes
<1>8. \A x \in Entries(r) : InItsTime(x, vbl, at, now)
  BY <1>4 DEF Listed
<1> QED BY <1>7, <1>8 DEF Listed, dev
(* An event of another type is taken out,                                   *)
LEMMA ListedLess ==
  ASSUME NEW q, NEW e, NEW r, Grown(r, e, q), e.type \in {"60HZ", "VBL_INT", "VID_UPD", "STOP"},
         NEW vbl, NEW at, NEW pend, NEW st \in Nat, NEW now,
         Listed(q, vbl, at, pend, st, now)
  PROVE  Listed(r, vbl, at, pend, st, now) /\ Count(r, e.type) = Count(q, e.type) - 1
<1>1. /\ \A type \in EvTypes :
           /\ Count(r, type) \in Nat /\ Count(q, type) \in Nat
           /\ type # e.type => Count(q, type) = Count(r, type)
           /\ type = e.type => Count(q, type) = Count(r, type) + 1
      /\ \A arg : CountArg(q, "DEVICE", arg) = CountArg(r, "DEVICE", arg)
      /\ Entries(q) = Entries(r) \cup {e}
  BY GrownNumbers
<1>2. Numbered(r, at, pend, st)
  <2>1. /\ Count(r, "VBL_INT") <= 1 /\ Count(r, "VID_UPD") <= 1 /\ Count(r, "STOP") <= st
        /\ Count(r, "SCAN_INT") = Count(q, "SCAN_INT") /\ Count(r, "DEVICE") = Count(q, "DEVICE")
    BY <1>1 DEF Listed, Numbered, EvTypes
  <2> QED BY <2>1, <1>1 DEF Listed, Numbered
<1>3. Count(r, e.type) = Count(q, e.type) - 1
  BY <1>1 DEF EvTypes
<1> QED BY <1>1, <1>2, <1>3 DEF Listed

(* or is put in when there was none.                                        *)
LEMMA ListedMore ==
  ASSUME NEW q, NEW e, NEW r, Grown(q, e, r), e.type \in {"VBL_INT", "VID_UPD"},
         NEW vbl, NEW at, NEW pend, NEW st, NEW now,
         Listed(q, vbl, at, pend, st, now),
         Count(q, e.type) = 0, InItsTime(e, vbl, at, now)
  PROVE  Listed(r, vbl, at, pend, st, now)
<1>1. /\ \A type \in EvTypes :
           /\ Count(r, type) \in Nat /\ Count(q, type) \in Nat
           /\ type # e.type => Count(r, type) = Count(q, type)
           /\ type = e.type => Count(r, type) = Count(q, type) + 1
      /\ \A arg : CountArg(r, "DEVICE", arg) = CountArg(q, "DEVICE", arg)
      /\ Entries(r) = Entries(q) \cup {e}
  BY GrownNumbers
<1>2. Numbered(r, at, pend, st)
  <2>1. /\ Count(r, "VBL_INT") <= 1 /\ Count(r, "VID_UPD") <= 1
        /\ Count(r, "STOP") = Count(q, "STOP")
        /\ Count(r, "SCAN_INT") = Count(q, "SCAN_INT") /\ Count(r, "DEVICE") = Count(q, "DEVICE")
    BY <1>1 DEF Listed, Numbered, EvTypes
  <2> QED BY <2>1, <1>1 DEF Listed, Numbered
<1> QED BY <1>1, <1>2 DEF Listed

(* The debugger asks for one more stop.                                     *)
LEMMA AddStopListed ==
  ASSUME NEW q, NEW e, NEW r, Grown(q, e, r), e.type = "STOP",
         NEW vbl, NEW at, NEW pend, NEW st \in Nat, NEW now,
         Listed(q, vbl, at, pend, st, now)
  PROVE  Listed(r, vbl, at, pend, st + 1, now)
<1>1. /\ \A type \in EvTypes :
           /\ Count(r, type) \in Nat /\ Count(q, type) \in Nat
           /\ type # e.type => Count(r, type) = Count(q, type)
           /\ type = e.type => Count(r, type) = Count(q, type) + 1
      /\ \A arg : CountArg(r, "DEVICE", arg) = CountArg(q, "DEVICE", arg)
      /\ Entries(r) = Entries(q) \cup {e}
  BY GrownNumbers
<1>2. Numbered(r, at, pend, st + 1)
  <2>1. /\ Count(r, "VBL_INT") <= 1 /\ Count(r, "VID_UPD") <= 1
        /\ Count(r, "STOP") <= st + 1
        /\ Count(r, "SCAN_INT") = Count(q, "SCAN_INT") /\ Count(r, "DEVICE") = Count(q, "DEVICE")
    BY <1>1 DEF Listed, Numbered, EvTypes
  <2> QED BY <2>1, <1>1 DEF Listed, Numbered
<1>3. InItsTime(e, vbl, at, now)
  BY DEF InItsTime
<1> QED BY <1>1, <1>2, <1>3 DEF Listed

(* What is on the list is not due before its head.                          *)
LEMMA NotBeforeHead ==
  ASSUME NEW q \in Seq(Event), Sorted(q), NEW e \in Entries(q)
  PROVE  e \in Event /\ e.at \in Nat /\ q[1].at \in Nat /\ q[1].at <= e.at
<1>1. PICK i \in 1..Len(q) : e = q[i]
  BY DEF Entries
<1>2. 1 \in 1..Len(q) /\ (i = 1 \/ 1 < i)
  BY EventSeq
<1>3. q[1].at \in Nat /\ e.at \in Nat /\ e \in Event
  BY <1>1, <1>2, EventSeq
<1> QED BY <1>1, <1>2, <1>3 DEF Sorted

(* Time passes, but not more than an instruction beyond the head.           *)
LEMMA LaterListed ==
  ASSUME NEW q \in Seq(Event), Sorted(q),
         NEW vbl, NEW at, NEW pend, NEW st, NEW now, NEW later \in Nat,
         Listed(q, vbl, at, pend, st, now), later <= q[1].at + 1 + MaxInstr
  PROVE  Listed(q, vbl, at, pend, st, later)
<1>1. MaxInstr \in Nat
  BY SchedulerAssumption
<1>2. ASSUME NEW e \in Entries(q) PROVE InItsTime(e, vbl, at, later)
  <2>1. later <= e.at + 1 + MaxInstr
    BY <1>1, NotBeforeHead
  <2> QED BY <2>1 DEF Listed, InItsTime
<1> QED BY <1>2 DEF Listed

(* Lines in order begin in order.                                           *)
LEMMA LineProduct ==
  ASSUME NEW a \in Nat, NEW b \in Nat, a < b
  PROVE  /\ LineCyc * a \in Nat /\ LineCyc * b \in Nat
         /\ LineCyc * a + LineCyc <= LineCyc * b
<1>1. LineCyc \in Nat
  BY SchedulerAssumption
<1>2. LineCyc * a \in Nat /\ LineCyc * b \in Nat
  BY <1>1
<1>3. PICK k \in Nat : b = (a + 1) + k
  <2>1. b - (a + 1) \in Nat /\ b = (a + 1) + (b - (a + 1))
    OBVIOUS
  <2> QED BY <2>1
<1>4. LineCyc * b = (LineCyc * a + LineCyc) + LineCyc * k
  BY <1>1, <1>3
<1>5. LineCyc * k \in Nat
  BY <1>1
<1> QED BY <1>1, <1>2, <1>4, <1>5

(* When the frame's event is the first, nothing is left of the frame.       *)
LEMMA NextFrameListed ==
  ASSUME NEW q, NEW vbl \in Nat, FrameQueue(q, vbl + Frame), q[1].type = "60HZ",
         NEW at, NEW pend, NEW st \in Nat, NEW now,
         Listed(q, vbl, at, pend, st, now)
  PROVE  /\ Listed(Tail(q), vbl + Frame, at, pend, st, now)
         /\ Count(Tail(q), "VBL_INT") = 0 /\ Count(Tail(q), "VID_UPD") = 0
<1> DEFINE r == Tail(q)
<1>0. Frame \in Nat /\ vbl + Frame \in Nat
  BY FrameNat
<1>1. q \in Seq(Event) /\ Sorted(q) /\ q # <<>>
  BY <1>0, FrameQueueHead DEF FrameQueue
<1>2. Grown(r, q[1], q) /\ r \in Seq(Event) /\ q[1].at = vbl + Frame
  BY <1>0, <1>1, TailShrinks, TailFrame
<1> HIDE DEF r
<1>3. Listed(r, vbl, at, pend, st, now)
  BY <1>2, ListedLess
<1>4. \A e \in Entries(r) : e \in Entries(q) /\ e.at \in Nat /\ vbl + Frame <= e.at /\ e \in Event
  BY <1>1, <1>2, NotBeforeHead, GrownEntries
<1>5. ASSUME NEW e \in Entries(r) PROVE e.type # "VBL_INT" /\ e.type # "VID_UPD"
  <2>1. InItsTime(e, vbl, at, now) /\ e.at \in Nat /\ vbl + Frame <= e.at /\ e.arg \in Nat
    BY <1>3, <1>4 DEF Listed, Event
  <2>2. CASE e.type = "VBL_INT"
    <3>1. /\ VblLine \in Nat /\ FrameLines \in Nat /\ VblLine < FrameLines
          /\ LineCyc \in Nat \ {0}
      BY SchedulerAssumption
    <3>2. /\ LineCyc * VblLine \in Nat
          /\ LineCyc * VblLine + LineCyc <= LineCyc * FrameLines
      BY <3>1, LineProduct
    <3>3. Frame = LineCyc * FrameLines
      BY <3>1 DEF Frame
    <3>4. e.at = vbl + LineCyc * VblLine
      BY <2>1, <2>2 DEF InItsTime
    <3> QED BY <1>0, <2>1, <3>1, <3>2, <3>3, <3>4
  <2>3. CASE e.type = "VID_UPD"
    <3>1. /\ ShrLines \in Nat /\ FrameLines \in Nat /\ ShrLines < FrameLines
          /\ LineCyc \in Nat \ {0}
      BY SchedulerAssumption
    <3>4. e.at = vbl + LineCyc * (e.arg + 1) /\ e.arg < ShrLines
      BY <2>1, <2>3 DEF InItsTime
    <3>5. e.arg + 1 \in Nat /\ e.arg + 1 < FrameLines
      BY <2>1, <3>1, <3>4
    <3>2. /\ LineCyc * (e.arg + 1) \in Nat
          /\ LineCyc * (e.arg + 1) + LineCyc <= LineCyc * FrameLines
      BY <3>1, <3>5, LineProduct
    <3>3. Frame = LineCyc * FrameLines
      BY <3>1 DEF Frame
    <3> QED BY <1>0, <2>1, <3>1, <3>2, <3>3, <3>4
  <2> QED BY <2>2, <2>3
<1>6. Count(r, "VBL_INT") = 0 /\ Count(r, "VID_UPD") = 0
  BY <1>2, <1>5, NoneLeft
<1>7. \A e \in Entries(r) : InItsTime(e, vbl + Frame, at, now)
  BY <1>3, <1>5 DEF Listed, InItsTime
<1> QED BY <1>3, <1>6, <1>7 DEF Listed, r
-----------------------------------------------------------------------------
(* What the operators on the scan-line state keep of the list.              *)
LEMMA AddEventScanIntListed ==
  ASSUME Unhurried, NEW s \in ScanStates, NEW t \in Nat, FrameQueue(s.q, t),
         NEW vbl \in Nat, NEW pend \in SUBSET Devices, NEW st \in 0..MaxStops, NEW now,
         Listed(s.q, vbl, s.at, pend, st, now),
         NEW cur \in Nat, 1 <= cur, NEW due \in Nat, due <= cur + TooFar, NEW line \in Nat
  PROVE  /\ Listed(AddEventScanInt(s, cur, due, line).q, vbl,
                   AddEventScanInt(s, cur, due, line).at, pend, st, now)
         /\ AddEventScanInt(s, cur, due, line).at # 0
<1> DEFINE left == IF s.at # 0 THEN RemoveFirstAt(s.q, OfType(s.q, "SCAN_INT")) ELSE s.q
           when == Later(due, cur)
           add  == AddEvent(left, cur, when, "SCAN_INT", line)
           r    == AddEventScanInt(s, cur, due, line)
<1>0. s.at \in Nat /\ s.q \in Seq(Event)
  BY DEF ScanStates
<1>1. CASE s.at # 0 /\ due >= s.at
  <2>1. r = s
    BY <1>1 DEF AddEventScanInt
  <2> QED BY <2>1, <1>1
<1>2. CASE ~(s.at # 0 /\ due >= s.at)
  <2>1. Listed(left, vbl, 0, pend, st, now)
    BY <1>0, RemoveScanListed
  <2>2. FrameQueue(left, t)
    <3>1. /\ OfType(s.q, "SCAN_INT") \in SUBSET (1..Len(s.q))
          /\ OfType(s.q, "SCAN_INT") \cap OfType(s.q, "60HZ") = {}
      BY DEF OfType
    <3>2. FrameQueue(RemoveFirstAt(s.q, OfType(s.q, "SCAN_INT")), t)
      BY <3>1, RemoveOther
    <3> QED BY <3>2
  <2>3. when \in Nat \ {0} /\ cur <= when /\ when <= cur + TooFar
    BY QueueAssumption DEF Later
  <2> HIDE DEF left, when
  <2>4. Listed(add, vbl, when, pend, st, now)
    BY <2>1, <2>2, <2>3, AddScanListed
  <2> HIDE DEF add
  <2>5. r.q = add /\ r.at = when
    BY <1>2 DEF AddEventScanInt, ScanState, left, when, add
  <2> QED BY <2>3, <2>4, <2>5
<1> QED BY <1>1, <1>2

(* check_scan_line_int looks for a line to interrupt only while the scan    *)
(* interrupt is not pending, and then queues at most one event.             *)
LEMMA CheckScanListed ==
  ASSUME Unhurried, NEW s \in ScanStates, NEW t \in Nat, FrameQueue(s.q, t),
         NEW vbl \in Nat, NEW pend \in SUBSET Devices, NEW st \in 0..MaxStops, NEW now,
         Listed(s.q, vbl, s.at, pend, st, now), s.on <=> s.at # 0,
         NEW cur \in Nat, 1 <= cur, vbl <= cur,
         NEW c, NEW lines \in SUBSET Lines, NEW start, NEW r,
         r = CheckScanLineInt(s, c, lines, start, cur, vbl)
  PROVE  /\ Listed(r.q, vbl, r.at, pend, st, now)
         /\ r.on <=> r.at # 0
         /\ r.on => s.on \/ "SCAN" \notin c
<1> DEFINE asking == {line \in lines : line >= start}
           line == Min(asking)
           due == vbl + LineCyc * line
           a == AddEventScanInt(s, cur, due, line)
<1>1. CASE ~shr \/ "SCAN" \in c \/ asking = {}
  <2>1. r = s
    BY <1>1 DEF CheckScanLineInt
  <2> QED BY <2>1
<1>2. CASE ~(~shr \/ "SCAN" \in c \/ asking = {})
  <2>1. line \in asking /\ line \in Lines
    <3>1. asking \in SUBSET Nat
      BY LinesNat
    <3> QED BY <3>1, <1>2, MinSpec
  <2> HIDE DEF line
  <2>2. line \in Nat /\ line < FrameLines
    BY <2>1, SchedulerAssumption DEF Lines
  <2>3. due \in Nat /\ due <= cur + TooFar
    <3>1. LineCyc * line \in Nat /\ LineCyc * line <= Frame /\ Frame \in Nat /\ Frame <= TooFar
      <4>1. LineCyc \in Nat \ {0} /\ FrameLines \in Nat
        BY SchedulerAssumption
      <4>2. LineCyc * line \in Nat /\ LineCyc * line + LineCyc <= LineCyc * FrameLines
        BY <2>2, <4>1, LineProduct
      <4>3. Frame = LineCyc * FrameLines
        BY <4>1 DEF Frame
      <4>4. Frame \in Nat /\ Frame <= TooFar
        BY FrameNat
      <4> QED BY <4>1, <4>2, <4>3, <4>4
    <3>2. TooFar \in Nat
      BY QueueAssumption
    <3> QED BY <3>1, <3>2
  <2> HIDE DEF due
  <2>4. Listed(a.q, vbl, a.at, pend, st, now) /\ a.at # 0
    BY <2>2, <2>3, AddEventScanIntListed
  <2>5. a \in ScanStates
    BY <2>2, <2>3, AddEventScanIntKeeps DEF Kept
  <2> HIDE DEF a
  <2>6. r = [a EXCEPT !.on = TRUE]
    BY <1>2 DEF CheckScanLineInt, a, due, line
  <2>7. r.q = a.q /\ r.at = a.at /\ r.on = TRUE
    BY <2>5, <2>6 DEF ScanStates
  <2> QED BY <1>2, <2>4, <2>7
<1> QED BY <1>1, <1>2

-----------------------------------------------------------------------------
(* The inductive invariant.  The list agrees with what the scan line, the   *)
(* devices and the debugger believe to have queued.  A line's VID_UPD is    *)
(* removed within an instruction of its time because the engine's deadline  *)
(* has to have seen it (HeadSeen), so when the frame ends no line is left   *)
(* to be drawn and the video code may queue the first one of the next       *)
(* frame (ScreenDone).                                                      *)
ScanOn ==
  /\ scanEvents <=> scanAt # 0
  /\ scanEvents => "SCAN" \notin c023

Undisturbed ==
  /\ ~stepping /\ ret # "dbg"
  /\ 1 <= curCyc /\ lastVbl <= curCyc

HeadSeen ==
  pc = "engine" /\ (dcyclesEnd # 0 \/ ret = "psr") => dcyclesSave <= queue[1].at + 1

ScreenDone ==
  pc = "video" /\ ~halt =>
    Count(queue, "VID_UPD") = 0 /\ curCyc <= lastVbl + 1 + MaxInstr

JInv ==
  /\ Listed(queue, lastVbl, scanAt, devPending, stops, dfcyc)
  /\ ScanOn /\ Undisturbed /\ HeadSeen /\ ScreenDone

(* The machine is switched on.                                              *)
LEMMA JInit ==
  ASSUME Unhurried, Init
  PROVE  JInv
<1> DEFINE e == [at |-> Frame, type |-> "60HZ", arg |-> 0]
<1>0. /\ <<>> \in Seq(Event) /\ Sorted(<<>>) /\ Len(<<>>) < MaxEvents /\ 0 \in Nat
      /\ Frame \in Nat /\ 1 <= Frame /\ Frame <= 1 + TooFar /\ TooFar \in Nat
      /\ MaxInstr \in Nat
  BY FrameNat, QueueAssumption, SchedulerAssumption DEF Sorted
<1>1. DueTime(Frame, 1) = Frame
  BY <1>0, NotMoved
<1>2. Grown(<<>>, [at |-> DueTime(Frame, 1), type |-> "60HZ", arg |-> 0],
            AddEvent(<<>>, 1, Frame, "60HZ", 0))
  BY <1>0, AddGrows DEF EvTypes
<1>3. Grown(<<>>, e, queue) /\ e.type = "60HZ"
  BY <1>1, <1>2 DEF Init
<1> HIDE DEF e
<1>4. \A type : OfType(<<>>, type) = {}
  BY DEF OfType
<1>5. \A type, arg : OfTypeArg(<<>>, type, arg) = {}
  BY <1>4 DEF OfTypeArg
<1>6. Cardinality({}) = 0
  BY FS_EmptySet
<1>7. Listed(<<>>, lastVbl, scanAt, devPending, stops, dfcyc)
  <2>1. /\ \A type : Count(<<>>, type) = 0
        /\ \A arg : CountArg(<<>>, "DEVICE", arg) = 0
    BY <1>4, <1>5, <1>6, Zenon DEF Count, CountArg
  <2>2. Entries(<<>>) = {}
    BY DEF Entries
  <2>3. scanAt = 0 /\ devPending = {} /\ stops = 0
    BY DEF Init
  <2>4. One(scanAt # 0) = 0 /\ \A dev \in Devices : One(dev \in devPending) = 0
    BY <2>3 DEF One
  <2>5. Cardinality(devPending) = 0
    BY <2>3, <1>6, Zenon
  <2>6. Numbered(<<>>, scanAt, devPending, stops)
    BY <2>1, <2>3, <2>4, <2>5 DEF Numbered
  <2> QED BY <2>2, <2>6 DEF Listed
<1>8. Listed(queue, lastVbl, scanAt, devPending, stops, dfcyc)
  BY <1>3, <1>7, FrameGrown
<1> QED BY <1>8 DEF Init, JInv, ScanOn, Undisturbed, HeadSeen, ScreenDone
(* remove_event_entry for a device that knows of its event.                 *)
LEMMA RemovedDeviceListed ==
  ASSUME NEW q \in Seq(Event), NEW vbl, NEW at, NEW pend \in SUBSET Devices, NEW st, NEW now,
         Listed(q, vbl, at, pend, st, now), NEW dev \in pend
  PROVE  Listed(RemoveDeviceEvent(q, dev), vbl, at, pend \ {dev}, st, now)
<1> DEFINE P == OfTypeArg(q, "DEVICE", dev)
           r == RemoveDeviceEvent(q, dev)
<1>1. CountArg(q, "DEVICE", dev) = 1
  BY DEF Listed, Numbered, One
<1>2. P = {} => CountArg(q, "DEVICE", dev) = 0
  <2>1. Cardinality({}) = 0
    BY FS_EmptySet
  <2> QED BY <2>1, Zenon DEF CountArg
<1>3. P # {}
  <2> HIDE DEF P
  <2> QED BY <1>1, <1>2
<1>4. P \in SUBSET (1..Len(q)) /\ \A p \in P : q[p].type = "DEVICE" /\ q[p].arg = dev
  BY DEF OfTypeArg, OfType
<1>5. r = RemoveFirstAt(q, P)
  BY DEF RemoveDeviceEvent
<1> HIDE DEF P, r
<1>6. PICK p \in P : Grown(r, q[p], q)
  BY <1>3, <1>4, <1>5, RemoveShrinks
<1>7. q[p].type = "DEVICE" /\ q[p].arg = dev
  BY <1>4
<1>8. Listed(r, vbl, at, pend \ {q[p].arg}, st, now)
  BY <1>6, <1>7, RemoveDeviceListed
<1> QED BY <1>7, <1>8 DEF r

(* A reset takes the events of the devices it resets off the list.          *)
LEMMA ResetWithdraws ==
  ASSUME NEW dev, ResetMachine({dev})
  PROVE  queue' = RemoveDeviceEvent(queue, dev) /\ devPending' = devPending \ {dev}
<1>1. {dev} # {}
  OBVIOUS
<1>2. queue' = RemoveDeviceEvent(queue, CHOOSE x \in {dev} : TRUE)
  BY <1>1 DEF ResetMachine
<1>3. (CHOOSE x \in {dev} : TRUE) = dev
  OBVIOUS
<1> QED BY <1>2, <1>3 DEF ResetMachine

(* An instruction starts with everything in its time.                       *)
LEMMA InstructionStarts ==
  ASSUME IInv, JInv, NEW d \in MinInstr..MaxInstr,
         pc = "engine", dfcyc <= dcyclesEnd, dfcyc' = dfcyc + d
  PROVE  /\ Listed(queue, lastVbl, scanAt, devPending, stops, dfcyc')
         /\ dcyclesEnd # 0 /\ dcyclesEnd = dcyclesSave /\ dcyclesSave <= queue[1].at + 1
         /\ ret # "psr" /\ dfcyc' \in Nat
<1>1. /\ {curCyc, dfcyc, lastVbl, dcyclesEnd, dcyclesSave, scanAt} \subseteq Nat
      /\ {MinInstr, MaxInstr} \subseteq Nat /\ queue[1].at \in Nat
      /\ queue \in Seq(Event) /\ Sorted(queue)
  BY Facts DEF IInv, FrameQueued, FrameQueue
<1>2. d \in Nat /\ d <= MaxInstr
  BY <1>1
<1>3. 1 <= dfcyc /\ dcyclesEnd \in {0, dcyclesSave} /\ (ret = "psr" => dcyclesEnd = 0)
  BY DEF IInv, OnTime, Deadlines
<1>4. dcyclesEnd # 0 /\ dcyclesEnd = dcyclesSave /\ ret # "psr"
  BY <1>1, <1>3
<1>5. dcyclesSave <= queue[1].at + 1
  BY <1>4 DEF JInv, HeadSeen
<1>6. dfcyc' \in Nat /\ dfcyc' <= queue[1].at + 1 + MaxInstr
  BY <1>1, <1>2, <1>4, <1>5, SMTT(30)
<1>7. Listed(queue, lastVbl, scanAt, devPending, stops, dfcyc')
  BY <1>1, <1>6, LaterListed DEF JInv
<1> QED BY <1>4, <1>5, <1>6, <1>7

(* When it ends, the engine has seen the head that its writes left behind.  *)
LEMMA InstructionEnds ==
  ASSUME IInv, JInv, NEW d \in MinInstr..MaxInstr,
         pc = "engine", dfcyc <= dcyclesEnd, dfcyc' = dfcyc + d,
         pc' = pc, curCyc' = curCyc, lastVbl' = lastVbl, dcyclesSave' = dcyclesSave,
         queue'[1].at \in Nat,
         dcyclesEnd' = 0 \/ (dcyclesEnd' = dcyclesEnd /\ queue[1].at <= queue'[1].at),
         ret' = ret \/ (ret' # "dbg" /\ (ret' # "psr" \/ queue' = queue)),
         Listed(queue', lastVbl, scanAt', devPending', stops', dfcyc'),
         ScanOn', stepping' = stepping \/ stepping' = FALSE
  PROVE  JInv'
<1>1. /\ dcyclesEnd # 0 /\ dcyclesEnd = dcyclesSave /\ dcyclesSave <= queue[1].at + 1
      /\ ret # "psr" /\ queue[1].at \in Nat /\ dcyclesSave \in Nat
  BY InstructionStarts, Facts
<1>2. Undisturbed'
  BY DEF JInv, Undisturbed
<1>3. HeadSeen'
  BY <1>1 DEF HeadSeen
<1>4. ScreenDone'
  BY DEF ScreenDone
<1> QED BY <1>2, <1>3, <1>4 DEF JInv

(* Every instruction keeps the invariant, whatever it writes.               *)
LEMMA JInstruction ==
  ASSUME Unhurried, IInv, JInv, Instruction
  PROVE  JInv'
<1>0. PICK d \in MinInstr..MaxInstr :
        \/ InstrOther(d) \/ InstrWai(d) \/ InstrPsr(d) \/ InstrHalt(d)
        \/ \E enables \in SUBSET C023Enables : WriteC023(d, enables)
        \/ \E clear \in SUBSET {"SEC", "SCAN"} : WriteC032(d, clear)
        \/ \E enables \in SUBSET MegaIIBits : WriteC041(d, enables)
        \/ AccessC047(d) \/ WriteC029(d)
        \/ \E line \in Lines : WriteScb(d, line)
        \/ \E dev \in Devices, delay \in 1..MaxDelay : DeviceStart(d, dev, delay)
        \/ \E dev \in Devices : DeviceStop(d, dev)
        \/ DeviceAck(d)
        \/ \E gone \in Withdrawn : InstrAdbReset(d, gone)
  BY DEF Instruction
<1> DEFINE t == lastVbl + Frame
           Time == /\ pc = "engine" /\ dfcyc <= dcyclesEnd /\ dfcyc' = dfcyc + d
                   /\ pc' = pc /\ curCyc' = curCyc /\ lastVbl' = lastVbl
                   /\ dcyclesSave' = dcyclesSave /\ stops' = stops
           Now(q, at, pend) == Listed(q, lastVbl, at, pend, stops, dfcyc')
<1>1. Time
  BY <1>0
  DEF InstrOther, InstrWai, InstrPsr, InstrHalt, WriteC023, WriteC032, WriteC041, AccessC047,
      WriteC029, WriteScb, DeviceStart, DeviceStop, DeviceAck, InstrAdbReset, Executes,
      ResetMachine, engineVars
<1>2. Now(queue, scanAt, devPending) /\ dfcyc' \in Nat /\ ret # "psr"
  BY <1>1, InstructionStarts
<1>3. /\ t \in Nat /\ FrameQueue(queue, t) /\ queue[1].at \in Nat /\ queue \in Seq(Event)
      /\ curCyc \in Nat /\ lastVbl \in Nat /\ 1 <= curCyc /\ lastVbl <= curCyc
      /\ devPending \in SUBSET Devices /\ stops \in 0..MaxStops /\ scb \in SUBSET Lines
  BY Facts DEF IInv, FrameQueued, JInv, Undisturbed, TypeOK
<1> HIDE DEF t, Now
<1>e. ASSUME queue'[1].at \in Nat,
             dcyclesEnd' = 0 \/ (dcyclesEnd' = dcyclesEnd /\ queue[1].at <= queue'[1].at),
             ret' = ret \/ (ret' # "dbg" /\ (ret' # "psr" \/ queue' = queue)),
             Now(queue', scanAt', devPending'), ScanOn',
             stepping' = stepping \/ stepping' = FALSE
      PROVE  JInv'
  <2>1. Listed(queue', lastVbl, scanAt', devPending', stops', dfcyc')
    BY <1>1, <1>e DEF Now
  <2> QED BY <1>1, <1>e, <2>1, InstructionEnds
<1>s. ASSUME UNCHANGED <<queue, scanAt, scanEvents, devPending, stepping>>,
             dcyclesEnd' = 0 \/ dcyclesEnd' = dcyclesEnd,
             ret' = ret \/ ret' # "dbg", "SCAN" \in c023' => "SCAN" \in c023
      PROVE  JInv'
  <2>1. ScanOn'
    BY <1>s DEF JInv, ScanOn
  <2>2. Now(queue', scanAt', devPending')
    BY <1>2, <1>s
  <2> QED BY <1>3, <1>e, <1>s, <2>1, <2>2
<1>4. CASE \/ InstrOther(d) \/ InstrWai(d) \/ DeviceAck(d)
           \/ \E enables \in SUBSET MegaIIBits : WriteC041(d, enables)
           \/ AccessC047(d) \/ WriteC029(d)
  <2>1. /\ UNCHANGED <<queue, scanAt, scanEvents, devPending, stepping, ret, c023>>
        /\ dcyclesEnd' = 0 \/ dcyclesEnd' = dcyclesEnd
    BY <1>4 DEF InstrOther, InstrWai, DeviceAck, WriteC041, AccessC047, WriteC029, Executes,
                Recalc, scanVars, engineVars, ctlVars
  <2> QED BY <2>1, <1>s
<1>5. CASE InstrPsr(d)
  <2>1. /\ UNCHANGED <<queue, scanAt, scanEvents, devPending, stepping, c023>>
        /\ dcyclesEnd' = 0 \/ dcyclesEnd' = dcyclesEnd
        /\ ret' = ret \/ ret' # "dbg"
    BY <1>5 DEF InstrPsr, Executes, Recalc, scanVars
  <2> QED BY <2>1, <1>s
<1>6. CASE InstrHalt(d)
  BY <1>6 DEF InstrHalt, Unhurried
<1>7. ASSUME NEW enables \in SUBSET C023Enables, WriteC023(d, enables) PROVE JInv'
  <2>1. /\ UNCHANGED <<queue, scanAt, scanEvents, devPending, stepping, ret>>
        /\ dcyclesEnd' = 0 \/ dcyclesEnd' = dcyclesEnd
        /\ "SCAN" \in c023' => "SCAN" \in c023
    BY <1>7 DEF WriteC023, Executes, Recalc, scanVars, C023Enables
  <2> QED BY <2>1, <1>s
<1>8. ASSUME NEW c, NEW lines \in SUBSET Lines,
             Becomes(CheckScanLineInt(ScanState(queue, dcyclesEnd, scanAt, scanEvents),
                                      c, lines, LinesSinceVbl(dfcyc'), curCyc, lastVbl)),
             UNCHANGED <<devPending, stepping, ret>>,
             "SCAN" \in c023' <=> "SCAN" \in c, "SCAN" \in c => "SCAN" \in c023
      PROVE  JInv'
  <2> DEFINE s == ScanState(queue, dcyclesEnd, scanAt, scanEvents)
             r == CheckScanLineInt(s, c, lines, LinesSinceVbl(dfcyc'), curCyc, lastVbl)
  <2>1. /\ s \in ScanStates /\ s.q = queue /\ s.end = dcyclesEnd
        /\ s.at = scanAt /\ s.on = scanEvents
    BY CurrentScanState DEF ScanState
  <2>2. Listed(s.q, lastVbl, s.at, devPending, stops, dfcyc')
    BY <1>2, <2>1 DEF Now
  <2> HIDE DEF s
  <2>3. Kept(s, r, t)
    BY <1>3, <1>8, <2>1, CheckScanKeeps
  <2>4. /\ Listed(r.q, lastVbl, r.at, devPending, stops, dfcyc')
        /\ r.on <=> r.at # 0
        /\ r.on => s.on \/ "SCAN" \notin c
    <3>1. s.on <=> s.at # 0
      BY <2>1 DEF JInv, ScanOn
    <3>2. /\ FrameQueue(s.q, t) /\ r = CheckScanLineInt(s, c, lines, LinesSinceVbl(dfcyc'), curCyc, lastVbl)
          /\ lines \in SUBSET Lines
      BY <1>3, <1>8, <2>1
    <3> DEFINE n == dfcyc'
               start == LinesSinceVbl(n)
    <3>3. r = CheckScanLineInt(s, c, lines, start, curCyc, lastVbl)
      BY <3>2
    <3>4. s \in ScanStates /\ Listed(s.q, lastVbl, s.at, devPending, stops, n)
      BY <2>1, <2>2
    <3> HIDE DEF r, start, n
    <3>5. /\ Listed(r.q, lastVbl, r.at, devPending, stops, n)
          /\ r.on <=> r.at # 0
          /\ r.on => s.on \/ "SCAN" \notin c
      BY <1>3, <3>1, <3>2, <3>3, <3>4, CheckScanListed
    <3> QED BY <3>5 DEF n
  <2> HIDE DEF r
  <2>5. Becomes(r)
    BY <1>8 DEF r, s
  <2>6. queue' = r.q /\ dcyclesEnd' = r.end /\ scanAt' = r.at /\ scanEvents' = r.on
    BY <2>5 DEF Becomes
  <2>7. ScanOn'
    BY <1>8, <2>1, <2>4, <2>6 DEF JInv, ScanOn
  <2>8. /\ queue'[1].at \in Nat
        /\ dcyclesEnd' = 0 \/ (dcyclesEnd' = dcyclesEnd /\ queue[1].at <= queue'[1].at)
    BY <1>3, <2>1, <2>3, <2>6, FrameQueueHead DEF Kept
  <2>9. Now(queue', scanAt', devPending')
    BY <1>8, <2>4, <2>6 DEF Now
  <2> QED BY <1>8, <1>e, <2>7, <2>8, <2>9
<1>9. ASSUME NEW clear \in SUBSET {"SEC", "SCAN"}, WriteC032(d, clear) PROVE JInv'
  <2>1. /\ UNCHANGED <<devPending, stepping, ret>> /\ ("SCAN" \in c023' => "SCAN" \in c023)
    BY <1>9 DEF WriteC032, Executes
  <2>2. CASE UNCHANGED <<queue, dcyclesEnd, scanVars>>
    BY <2>1, <2>2, <1>s DEF scanVars
  <2>3. \/ UNCHANGED <<queue, dcyclesEnd, scanVars>>
        \/ \E c : /\ Becomes(CheckScanLineInt(ScanState(queue, dcyclesEnd, scanAt, scanEvents), c,
                                               scb, LinesSinceVbl(dfcyc'), curCyc, lastVbl))
                  /\ "SCAN" \in c023' <=> "SCAN" \in c
                  /\ "SCAN" \in c => "SCAN" \in c023
    BY <1>9 DEF WriteC032
  <2>4. ASSUME NEW c, Becomes(CheckScanLineInt(ScanState(queue, dcyclesEnd, scanAt, scanEvents), c,
                                               scb, LinesSinceVbl(dfcyc'), curCyc, lastVbl)),
               "SCAN" \in c023' <=> "SCAN" \in c, "SCAN" \in c => "SCAN" \in c023
        PROVE  JInv'
    BY <1>3, <1>8, <2>1, <2>4
  <2> QED BY <2>2, <2>3, <2>4
<1>10. ASSUME NEW line \in Lines, WriteScb(d, line) PROVE JInv'
  <2>1. UNCHANGED <<devPending, stepping, ret, c023>> /\ scb' \in SUBSET Lines
    BY <1>10, <1>3 DEF WriteScb, Executes
  <2>2. \/ UNCHANGED <<queue, dcyclesEnd, scanVars>>
        \/ Becomes(CheckScanLineInt(ScanState(queue, dcyclesEnd, scanAt, scanEvents), c023,
                                    scb', LinesSinceVbl(dfcyc'), curCyc, lastVbl))
    BY <1>10, Zenon DEF WriteScb
  <2>3. CASE UNCHANGED <<queue, dcyclesEnd, scanVars>>
    BY <2>1, <2>3, <1>s DEF scanVars
  <2>4. CASE Becomes(CheckScanLineInt(ScanState(queue, dcyclesEnd, scanAt, scanEvents), c023,
                                      scb', LinesSinceVbl(dfcyc'), curCyc, lastVbl))
    BY <2>1, <2>4, <1>8
  <2> QED BY <2>2, <2>3, <2>4
<1>11. ASSUME NEW dev \in Devices, NEW delay \in 1..MaxDelay, DeviceStart(d, dev, delay)
       PROVE  JInv'
  <2> DEFINE due == dfcyc' + delay
             new == AddDeviceEvent(queue, curCyc, due, dev)
             head == NewDeviceHead(queue, curCyc, due)
  <2>1. due \in Nat
    <3>1. delay \in Nat
      BY SchedulerAssumption
    <3>2. \A a, b \in Nat : a + b \in Nat
      OBVIOUS
    <3> QED BY <1>2, <3>1, <3>2, Zenon
  <2>2. /\ queue' = new /\ dcyclesEnd' = Recalc(head, dcyclesEnd) /\ dev \notin devPending
        /\ devPending' = devPending \cup {dev}
        /\ UNCHANGED <<scanAt, scanEvents, stepping, ret, c023>>
    BY <1>11 DEF DeviceStart, Executes, scanVars
  <2> HIDE DEF due
  <2>3. FrameQueue(new, t) /\ (head \/ queue[1].at <= new[1].at)
    BY <2>1, <1>3, AddDeviceKeeps
  <2>4. Listed(new, lastVbl, scanAt, devPending', stops, dfcyc')
    BY <2>1, <2>2, <1>2, <1>3, AddDeviceListed DEF Now
  <2> HIDE DEF new, head
  <2>5. dcyclesEnd' = 0 \/ (dcyclesEnd' = dcyclesEnd /\ queue[1].at <= queue'[1].at)
    BY <2>2, <2>3 DEF Recalc
  <2>6. queue'[1].at \in Nat
    BY <1>3, <2>2, <2>3, FrameQueueHead
  <2>7. ScanOn' /\ Now(queue', scanAt', devPending')
    BY <2>2, <2>4 DEF JInv, ScanOn, Now
  <2> QED BY <1>e, <2>2, <2>5, <2>6, <2>7
<1>12. ASSUME NEW dev \in devPending, queue' = RemoveDeviceEvent(queue, dev),
              devPending' = devPending \ {dev}
       PROVE  /\ queue'[1].at \in Nat /\ queue[1].at <= queue'[1].at
              /\ Now(queue', scanAt, devPending')
  <2>1. FrameQueue(queue', t) /\ queue[1].at <= queue'[1].at
    BY <1>12, <1>3, RemoveDeviceKeeps
  <2>2. queue'[1].at \in Nat
    BY <1>3, <2>1, FrameQueueHead
  <2>3. Listed(queue', lastVbl, scanAt, devPending', stops, dfcyc')
    BY <1>2, <1>3, <1>12, RemovedDeviceListed DEF Now
  <2> QED BY <2>1, <2>2, <2>3 DEF Now
<1>13. ASSUME NEW dev \in Devices, DeviceStop(d, dev) PROVE JInv'
  <2>1. /\ dev \in devPending /\ queue' = RemoveDeviceEvent(queue, dev)
        /\ devPending' = devPending \ {dev}
        /\ UNCHANGED <<dcyclesEnd, scanAt, scanEvents, stepping, ret, c023>>
    BY <1>13 DEF DeviceStop, Executes, scanVars
  <2>2. ScanOn'
    BY <2>1 DEF JInv, ScanOn
  <2> QED BY <1>e, <1>12, <2>1, <2>2
<1>14. ASSUME NEW gone \in Withdrawn, InstrAdbReset(d, gone) PROVE JInv'
  <2>1. /\ UNCHANGED <<dcyclesEnd, scanAt, scanEvents, ret>> /\ c023' = {} /\ stepping' = FALSE
        /\ ResetMachine(gone)
    BY <1>14 DEF InstrAdbReset, ResetMachine, engineVars, scanVars
  <2>2. ScanOn'
    BY <2>1 DEF JInv, ScanOn
  <2>3. /\ queue'[1].at \in Nat /\ queue[1].at <= queue'[1].at
        /\ Now(queue', scanAt, devPending')
    <3>1. CASE gone = {}
      <4>1. queue' = queue /\ devPending' = devPending
        BY <2>1, <3>1 DEF ResetMachine
      <4> QED BY <4>1, <1>2, <1>3
    <3>2. ASSUME NEW dev \in devPending, gone = {dev}
          PROVE  /\ queue'[1].at \in Nat /\ queue[1].at <= queue'[1].at
                 /\ Now(queue', scanAt, devPending')
      <4>1. queue' = RemoveDeviceEvent(queue, dev) /\ devPending' = devPending \ {dev}
        BY <2>1, <3>2, ResetWithdraws
      <4> QED BY <4>1, <1>12
    <3> QED BY <3>1, <3>2 DEF Withdrawn
  <2> QED BY <1>e, <2>1, <2>2, <2>3
<1> QED BY <1>0, <1>4, <1>5, <1>6, <1>7, <1>9, <1>10, <1>11, <1>13, <1>14
-----------------------------------------------------------------------------
(* Entries of other types are not counted.                                  *)
LEMMA AddCount ==
  ASSUME NEW q \in Seq(Event), Sorted(q), NEW now \in Nat, NEW at \in Nat,
         NEW type \in EvTypes, NEW other \in EvTypes \ {type}, NEW arg \in Nat
  PROVE  Count(AddEvent(q, now, at, type, arg), other) = Count(q, other)
<1>0. Len(q) \in Nat /\ MaxEvents \in Nat
  BY EventSeq, QueueAssumption
<1>1. CASE Len(q) >= MaxEvents
  BY <1>1 DEF AddEvent
<1>2. CASE Len(q) < MaxEvents
  <2> DEFINE e == [at |-> DueTime(at, now), type |-> type, arg |-> arg]
             r == AddEvent(q, now, at, type, arg)
  <2>1. Grown(q, e, r) /\ e.type = type
    BY <1>2, AddGrows
  <2> HIDE DEF e, r
  <2>2. Count(r, other) = Count(q, other)
    BY <2>1, GrownNumbers
  <2> QED BY <2>2 DEF r
<1> QED BY <1>0, <1>1, <1>2

(* Nor are they when they are taken out,                                    *)
LEMMA RemoveCount ==
  ASSUME NEW q \in Seq(Event), NEW type \in EvTypes, NEW other \in EvTypes \ {type},
         NEW P \in SUBSET OfType(q, type)
  PROVE  Count(RemoveFirstAt(q, P), other) = Count(q, other)
<1>1. CASE P = {}
  BY <1>1 DEF RemoveFirstAt
<1>2. CASE P # {}
  <2> DEFINE r == RemoveFirstAt(q, P)
  <2>1. P \in SUBSET (1..Len(q)) /\ \A p \in P : q[p].type = type
    BY DEF OfType
  <2>2. PICK p \in P : Grown(r, q[p], q)
    BY <1>2, <2>1, RemoveShrinks
  <2>3. q[p].type = type
    BY <2>1
  <2> HIDE DEF r
  <2>4. Count(r, other) = Count(q, other)
    BY <2>2, <2>3, GrownNumbers
  <2> QED BY <2>4 DEF r
<1> QED BY <1>1, <1>2

(* or when the scan line is looked at.                                      *)
LEMMA CheckScanCount ==
  ASSUME NEW s \in ScanStates, NEW t \in Nat, FrameQueue(s.q, t),
         NEW vbl \in Nat, NEW cur \in Nat,
         NEW c, NEW lines \in SUBSET Lines, NEW start, NEW r,
         r = CheckScanLineInt(s, c, lines, start, cur, vbl)
  PROVE  Count(r.q, "VID_UPD") = Count(s.q, "VID_UPD")
<1> DEFINE asking == {line \in lines : line >= start}
           line == Min(asking)
           due == vbl + LineCyc * line
           left == IF s.at # 0 THEN RemoveFirstAt(s.q, OfType(s.q, "SCAN_INT")) ELSE s.q
           when == Later(due, cur)
           add  == AddEvent(left, cur, when, "SCAN_INT", line)
           a == AddEventScanInt(s, cur, due, line)
<1>0. s.q \in Seq(Event) /\ {"SCAN_INT", "VID_UPD"} \subseteq EvTypes
  BY DEF ScanStates, EvTypes
<1>1. CASE ~shr \/ "SCAN" \in c \/ asking = {}
  BY <1>1 DEF CheckScanLineInt
<1>2. CASE ~(~shr \/ "SCAN" \in c \/ asking = {})
  <2>1. line \in Nat
    <3>1. asking \in SUBSET Nat
      BY LinesNat
    <3> QED BY <3>1, <1>2, MinSpec
  <2> HIDE DEF line
  <2>2. due \in Nat
    <3>1. LineCyc * line \in Nat
      BY <2>1, SchedulerAssumption
    <3> QED BY <3>1
  <2> HIDE DEF due
  <2>3. when \in Nat
    BY <2>2 DEF Later
  <2>4. Count(left, "VID_UPD") = Count(s.q, "VID_UPD")
    BY <1>0, RemoveCount
  <2>5. FrameQueue(left, t)
    <3>1. /\ OfType(s.q, "SCAN_INT") \in SUBSET (1..Len(s.q))
          /\ OfType(s.q, "SCAN_INT") \cap OfType(s.q, "60HZ") = {}
      BY DEF OfType
    <3>2. FrameQueue(RemoveFirstAt(s.q, OfType(s.q, "SCAN_INT")), t)
      BY <3>1, RemoveOther
    <3> QED BY <3>2
  <2> HIDE DEF left, when
  <2>6. Count(add, "VID_UPD") = Count(left, "VID_UPD")
    BY <2>1, <2>3, <2>5, <1>0, AddCount DEF FrameQueue
  <2> HIDE DEF add
  <2>7. a.q = add \/ a.q = s.q
    BY DEF AddEventScanInt, ScanState, left, when, add
  <2>8. a \in ScanStates
    BY <2>1, <2>2, AddEventScanIntKeeps DEF Kept
  <2> HIDE DEF a
  <2>9. r = [a EXCEPT !.on = TRUE]
    BY <1>2 DEF CheckScanLineInt, a, due, line
  <2>10. r.q = a.q
    BY <2>8, <2>9 DEF ScanStates
  <2> QED BY <2>4, <2>6, <2>7, <2>10
<1> QED BY <1>1, <1>2

(* A device that has none queued queues its event.                          *)
LEMMA WithDevicesListed ==
  ASSUME Unhurried, IInv, NEW q, NEW t \in Nat, FrameQueue(q, t),
         NEW vbl, NEW at, NEW pend \in SUBSET Devices, NEW st \in 0..MaxStops, NEW now,
         Listed(q, vbl, at, pend, st, now),
         NEW upd \in DeviceUpdates, upd.starting \cap pend = {}
  PROVE  /\ Listed(WithDevices(q, upd), vbl, at, pend \cup upd.starting, st, now)
         /\ Count(WithDevices(q, upd), "VID_UPD") = Count(q, "VID_UPD")
<1>1. CASE upd.starting = {}
  <2>1. WithDevices(q, upd) = q /\ pend \cup upd.starting = pend
    BY <1>1 DEF WithDevices
  <2> QED BY <2>1
<1>2. CASE upd.starting # {}
  <2>1. upd.starting \in {{}} \cup {{dev} : dev \in Devices} /\ upd.delay \in 1..MaxDelay
    BY DEF DeviceUpdates
  <2>2. PICK dev \in Devices : upd.starting = {dev}
    BY <1>2, <2>1
  <2>3. (CHOOSE x \in upd.starting : TRUE) = dev
    BY <2>2
  <2>4. curCyc + upd.delay \in Nat /\ curCyc \in Nat
    <3>1. curCyc \in Nat
      BY Facts
    <3>2. upd.delay \in Nat
      BY <2>1, SchedulerAssumption
    <3> QED BY <3>1, <3>2
  <2> DEFINE due == curCyc + upd.delay
             r == AddDeviceEvent(q, curCyc, due, dev)
  <2> HIDE DEF due
  <2>5. WithDevices(q, upd) = r
    BY <1>2, <2>3 DEF WithDevices, due
  <2>6. Listed(r, vbl, at, pend \cup {dev}, st, now)
    BY <2>2, <2>4, AddDeviceListed DEF due
  <2>7. Count(r, "VID_UPD") = Count(q, "VID_UPD")
    <3>1. dev \in Nat /\ Later(due, curCyc) \in Nat
      BY <2>4, SchedulerAssumption DEF Later, due
    <3> QED BY <3>1, <2>4, AddCount DEF AddDeviceEvent, FrameQueue, EvTypes
  <2> HIDE DEF r
  <2> QED BY <2>2, <2>5, <2>6, <2>7
<1> QED BY <1>1, <1>2

(* video_update asks for a line of this frame that is still to come.        *)
LEMMA AddVidUpdListed ==
  ASSUME Unhurried, IInv, JInv, NEW q, NEW t \in Nat, FrameQueue(q, t),
         Listed(q, lastVbl, scanAt, devPending, stops, dfcyc), Count(q, "VID_UPD") = 0,
         NEW line \in Nat, line < ShrLines, dfcyc = curCyc,
         curCyc <= lastVbl + LineCyc * (line + 1)
  PROVE  Listed(AddEventVidUpd(q, line), lastVbl, scanAt, devPending, stops, dfcyc)
<1> DEFINE at == lastVbl + LineCyc * (line + 1)
           e == [at |-> at, type |-> "VID_UPD", arg |-> line]
           r == AddEvent(q, curCyc, at, "VID_UPD", line)
<1>1. /\ curCyc \in Nat /\ lastVbl \in Nat /\ lastVbl <= curCyc /\ MaxInstr \in Nat
      /\ devPending \in SUBSET Devices /\ stops \in 0..MaxStops
  BY Facts DEF JInv, Undisturbed, IInv, TypeOK
<1>2. at \in Nat /\ curCyc <= at /\ at <= curCyc + TooFar
  <2>1. LineCyc \in Nat \ {0} /\ FrameLines \in Nat /\ line + 1 \in Nat /\ line + 1 < FrameLines
    BY SchedulerAssumption
  <2>2. LineCyc * (line + 1) \in Nat /\ LineCyc * (line + 1) + LineCyc <= LineCyc * FrameLines
    BY <2>1, LineProduct
  <2>3. Frame = LineCyc * FrameLines /\ Frame \in Nat /\ Frame <= TooFar /\ TooFar \in Nat
    BY <2>1, FrameNat, QueueAssumption DEF Frame
  <2> QED BY <1>1, <2>1, <2>2, <2>3
<1>3. InItsTime(e, lastVbl, scanAt, dfcyc)
  BY <1>1, <1>2 DEF InItsTime
<1> HIDE DEF at
<1>4. Len(q) < MaxEvents
  BY <1>1, Room DEF Listed
<1>5. Grown(q, [at |-> DueTime(at, curCyc), type |-> "VID_UPD", arg |-> line], r)
  BY <1>1, <1>2, <1>4, AddGrows DEF FrameQueue, EvTypes
<1>6. Grown(q, e, r) /\ e.type = "VID_UPD"
  BY <1>1, <1>2, <1>5, NotMoved
<1> HIDE DEF e, r
<1>7. Listed(r, lastVbl, scanAt, devPending, stops, dfcyc)
  BY <1>3, <1>6, ListedMore
<1> QED BY <1>7 DEF r, at, AddEventVidUpd
(* The frame's end: what is left of the frame is handled, and the events of *)
(* the next are queued.                                                     *)
LEMMA J60Hz ==
  ASSUME Unhurried, IInv, JInv, NEW upd \in DeviceUpdates, Handle60Hz(upd)
  PROVE  JInv'
<1> DEFINE vbl   == lastVbl + Frame
           due   == vbl + LineCyc * VblLine
           rest  == Tail(queue)
           next  == AddEvent(rest, curCyc, vbl + Frame, "60HZ", 0)
           withV == IF "VBL" \in c041 THEN AddEventVbl(next, vbl) ELSE next
           Good(q) == Listed(q, vbl, scanAt, devPending, stops, dfcyc)
                        /\ Count(q, "VID_UPD") = 0
<1>f. /\ Frame \in Nat /\ vbl \in Nat /\ vbl + Frame \in Nat
      /\ curCyc \in Nat /\ dfcyc \in Nat /\ MaxInstr \in Nat /\ lastVbl \in Nat
      /\ Frame <= TooFar /\ TooFar \in Nat
      /\ FrameQueue(queue, vbl)
      /\ devPending \in SUBSET Devices /\ stops \in 0..MaxStops /\ stops \in Nat
  BY Facts, FrameNat, QueueAssumption DEF IInv, FrameQueued, TypeOK
<1>p. pc = "events" /\ queue[1].at <= dfcyc /\ queue[1].type = "60HZ"
  BY DEF Handle60Hz, Due
<1>1. /\ rest \in Seq(Event) /\ Sorted(rest) /\ Len(rest) < MaxEvents
      /\ OfType(rest, "60HZ") = {} /\ queue[1].at = vbl
  BY <1>f, <1>p, TailFrame
<1>2. dfcyc = curCyc /\ vbl <= curCyc /\ curCyc <= vbl + 1 + MaxInstr
  <2>1. dfcyc = curCyc /\ dfcyc <= vbl + 1 + MaxInstr
    BY <1>p DEF IInv, OnTime
  <2> HIDE DEF vbl
  <2> QED BY <2>1, <1>1, <1>p, <1>f
<1>3. Good(rest) /\ Count(rest, "VBL_INT") = 0
  BY <1>f, <1>p, NextFrameListed DEF JInv
<1>4. /\ vbl + Frame <= curCyc + TooFar /\ curCyc <= vbl + Frame
      /\ due \in Nat /\ curCyc <= due /\ due <= curCyc + TooFar
  <2>1. /\ LineCyc \in Nat \ {0} /\ FrameLines \in Nat /\ VblLine \in Nat
        /\ VblLine < FrameLines /\ 0 < VblLine /\ MaxInstr < LineCyc
    BY SchedulerAssumption DEF Unhurried
  <2>2. /\ LineCyc * VblLine \in Nat /\ LineCyc * VblLine + LineCyc <= LineCyc * FrameLines
    BY <2>1, LineProduct
  <2>3. LineCyc * 0 + LineCyc <= LineCyc * VblLine /\ LineCyc * 0 = 0
    BY <2>1, LineProduct
  <2>4. Frame = LineCyc * FrameLines
    BY <2>1 DEF Frame
  <2> HIDE DEF vbl
  <2> QED BY <1>f, <1>2, <2>1, <2>2, <2>3, <2>4
<1> HIDE DEF rest, vbl, due
<1>5. FrameQueue(next, vbl + Frame)
  BY <1>f, <1>1, <1>2, <1>4, AddFrame
<1>6. Good(next) /\ Count(next, "VBL_INT") = 0
  <2> DEFINE e == [at |-> DueTime(vbl + Frame, curCyc), type |-> "60HZ", arg |-> 0]
  <2>1. Grown(rest, e, next)
    BY <1>f, <1>1, AddGrows DEF EvTypes
  <2>2. e.type = "60HZ"
    OBVIOUS
  <2> HIDE DEF e, next
  <2>3. Count(next, "VBL_INT") = Count(rest, "VBL_INT") /\ Count(next, "VID_UPD") = Count(rest, "VID_UPD")
    BY <2>1, <2>2, GrownNumbers DEF EvTypes
  <2> QED BY <2>1, <2>2, <2>3, <1>3, FrameGrown
<1> HIDE DEF next
<1>7. FrameQueue(withV, vbl + Frame) /\ Good(withV)
  <2>1. CASE "VBL" \in c041
    <3> DEFINE e == [at |-> due, type |-> "VBL_INT", arg |-> 0]
               r == AddEvent(next, curCyc, due, "VBL_INT", 0)
    <3>0. withV = r
      BY <2>1 DEF AddEventVbl, due
    <3>1. FrameQueue(r, vbl + Frame)
      BY <1>4, <1>5, <1>f, AddOther DEF EvTypes
    <3>2. Len(next) < MaxEvents
      BY <1>5, <1>6, <1>f, Room DEF Listed
    <3>3. Grown(next, [at |-> DueTime(due, curCyc), type |-> "VBL_INT", arg |-> 0], r)
      BY <1>4, <1>5, <1>f, <3>2, AddGrows DEF FrameQueue, EvTypes
    <3>4. Grown(next, e, r)
      BY <1>4, <1>f, <3>3, NotMoved
    <3>5. e.type = "VBL_INT" /\ InItsTime(e, vbl, scanAt, dfcyc)
      BY DEF InItsTime, due
    <3> HIDE DEF e, r
    <3>6. Listed(r, vbl, scanAt, devPending, stops, dfcyc)
      BY <1>6, <3>4, <3>5, ListedMore
    <3>7. Count(r, "VID_UPD") = 0
      BY <1>6, <3>4, <3>5, GrownNumbers DEF EvTypes
    <3> HIDE DEF withV
    <3> QED BY <3>0, <3>1, <3>6, <3>7
  <2>2. CASE "VBL" \notin c041
    BY <2>2, <1>5, <1>6
  <2> QED BY <2>1, <2>2
<1> HIDE DEF withV
<1> DEFINE s0 == ScanState(withV, dcyclesEnd, scanAt, scanEvents)
<1>8. /\ s0 \in ScanStates /\ s0.q = withV /\ s0.at = scanAt /\ s0.on = scanEvents
      /\ s0.on <=> s0.at # 0
  BY <1>7 DEF ScanState, ScanStates, FrameQueue, IInv, TypeOK, JInv, ScanOn
<1>9. PICK c, s : /\ s = IF scanEvents THEN s0 ELSE CheckScanLineInt(s0, c, scb, 0, curCyc, vbl)
                  /\ Becomes([s EXCEPT !.q = WithDevices(s.q, upd)])
                  /\ c023' = c
  BY DEF Handle60Hz, s0, withV, next, rest, vbl
<1>c. "SCAN" \in c <=> "SCAN" \in c023
  BY <1>9 DEF Handle60Hz
<1> HIDE DEF s0
<1>10. /\ s \in ScanStates /\ FrameQueue(s.q, vbl + Frame)
       /\ Listed(s.q, vbl, s.at, devPending, stops, dfcyc) /\ Count(s.q, "VID_UPD") = 0
       /\ s.on <=> s.at # 0
       /\ s.on => "SCAN" \notin c
  <2>1. CASE scanEvents
    <3>1. s = s0
      BY <2>1, <1>9
    <3> QED BY <2>1, <3>1, <1>7, <1>8, <1>c DEF JInv, ScanOn
  <2>2. CASE ~scanEvents
    <3>1. s = CheckScanLineInt(s0, c, scb, 0, curCyc, vbl) /\ scb \in SUBSET Lines
      BY <2>2, <1>9 DEF IInv, TypeOK
    <3>2. Kept(s0, s, vbl + Frame)
      BY <3>1, <1>7, <1>8, <1>f, CheckScanKeeps
    <3>3. 1 <= curCyc /\ ~s0.on
      BY <2>2, <1>8 DEF JInv, Undisturbed
    <3>5. FrameQueue(s0.q, vbl + Frame) /\ Listed(s0.q, vbl, s0.at, devPending, stops, dfcyc)
      BY <1>7, <1>8
    <3>4. /\ Listed(s.q, vbl, s.at, devPending, stops, dfcyc)
          /\ s.on <=> s.at # 0
          /\ s.on => s0.on \/ "SCAN" \notin c
      BY <3>1, <3>3, <3>5, <1>2, <1>8, <1>f, CheckScanListed
    <3>6. Count(s.q, "VID_UPD") = Count(s0.q, "VID_UPD")
      BY <3>1, <3>5, <1>8, <1>f, CheckScanCount
    <3> QED BY <3>2, <3>3, <3>4, <3>6, <1>7, <1>8 DEF Kept
  <2> QED BY <2>1, <2>2
<1> DEFINE w == WithDevices(s.q, upd)
<1>11. /\ Listed(w, vbl, s.at, devPending \cup upd.starting, stops, dfcyc)
       /\ Count(w, "VID_UPD") = 0
  <2>1. upd.starting \cap devPending = {}
    BY DEF Handle60Hz
  <2> QED BY <2>1, <1>10, <1>f, WithDevicesListed
<1>12. queue' = w /\ scanAt' = s.at /\ scanEvents' = s.on
  <2> HIDE DEF w
  <2>1. Becomes([s EXCEPT !.q = w])
    BY <1>9 DEF w
  <2> QED BY <2>1, <1>10 DEF Becomes, ScanStates
<1>13. /\ lastVbl' = vbl /\ devPending' = devPending \cup upd.starting /\ pc' = "video"
       /\ UNCHANGED <<curCyc, dfcyc, stops, ret, stepping>>
  BY DEF Handle60Hz, ctlVars, vbl
<1> HIDE DEF w
<1>14. Listed(queue', lastVbl', scanAt', devPending', stops', dfcyc')
  BY <1>11, <1>12, <1>13
<1>15. ScanOn'
  BY <1>9, <1>10, <1>12 DEF ScanOn
<1>16. Undisturbed'
  BY <1>2, <1>13 DEF JInv, Undisturbed
<1>17. HeadSeen' /\ ScreenDone'
  BY <1>2, <1>11, <1>12, <1>13 DEF HeadSeen, ScreenDone
<1> QED BY <1>14, <1>15, <1>16, <1>17 DEF JInv

(* The handlers of the other events.                                        *)
LEMMA JOtherEvents ==
  ASSUME Unhurried, IInv, JInv,
         \/ HandleScanInt \/ HandleVblInt \/ HandleStop
         \/ \E lines \in LineRefs : HandleVidUpd(lines)
         \/ \E request \in BOOLEAN, upd \in DeviceUpdates : HandleDevice(request, upd)
  PROVE  JInv'
<1> DEFINE t == lastVbl + Frame
           r == Tail(queue)
           Now(q, at, pend) == Listed(q, lastVbl, at, pend, stops, dfcyc)
<1>f. /\ t \in Nat /\ curCyc \in Nat /\ lastVbl \in Nat /\ dfcyc \in Nat
      /\ dcyclesEnd \in Nat /\ FrameQueue(queue, t) /\ queue \in Seq(Event) /\ queue # <<>>
      /\ queue[1].arg \in Nat
      /\ devPending \in SUBSET Devices /\ stops \in 0..MaxStops /\ stops \in Nat
      /\ scb \in SUBSET Lines
      /\ 1 <= curCyc /\ lastVbl <= curCyc
  BY Facts DEF IInv, FrameQueued, TypeOK, JInv, Undisturbed
<1>p. pc = "events" /\ pc' = "events" /\ queue[1].type # "60HZ" /\ dfcyc = curCyc
      /\ UNCHANGED <<curCyc, dfcyc, lastVbl, stops, stepping, ret>>
  BY DEF HandleScanInt, HandleVblInt, HandleStop, HandleVidUpd, HandleDevice, Due, timeVars,
         engineVars, ctlVars, IInv, OnTime
<1>1. FrameQueue(r, t)
  BY <1>f, <1>p, TailOther
<1>2. Grown(r, queue[1], queue) /\ r \in Seq(Event)
  BY <1>1, <1>f, TailShrinks DEF FrameQueue
<1>3. Now(queue, scanAt, devPending)
  BY DEF JInv
<1> HIDE DEF t, r, Now
<1>e. ASSUME Now(queue', scanAt', devPending'), ScanOn'
      PROVE  JInv'
  <2>1. Listed(queue', lastVbl', scanAt', devPending', stops', dfcyc')
    BY <1>e, <1>p DEF Now
  <2> QED BY <1>e, <1>p, <2>1 DEF JInv, Undisturbed, HeadSeen, ScreenDone
<1>s. ASSUME UNCHANGED <<scanAt, scanEvents, c023>> PROVE ScanOn'
  BY <1>s DEF JInv, ScanOn
<1>4. CASE HandleVblInt \/ HandleStop
  <2>1. queue[1].type \in {"VBL_INT", "STOP"} /\ queue' = r
        /\ UNCHANGED <<scanAt, scanEvents, c023, devPending>>
    BY <1>4 DEF HandleVblInt, HandleStop, Due, scanVars, r
  <2>2. Now(r, scanAt, devPending)
    BY <1>2, <1>3, <1>f, <2>1, ListedLess DEF Now
  <2> QED BY <1>e, <1>s, <2>1, <2>2
<1>5. ASSUME NEW lines \in LineRefs, HandleVidUpd(lines) PROVE JInv'
  <2> DEFINE arg  == queue[1].arg
             line == arg + lines
  <2>1. queue[1].type = "VID_UPD" /\ queue' = NextVidUpd(r, line)
        /\ UNCHANGED <<scanAt, scanEvents, c023, devPending>>
    BY <1>5 DEF HandleVidUpd, Due, scanVars, r
  <2>2. Now(r, scanAt, devPending) /\ Count(r, "VID_UPD") = 0
    <3>1. Listed(r, lastVbl, scanAt, devPending, stops, dfcyc)
          /\ Count(r, "VID_UPD") = Count(queue, "VID_UPD") - 1
      BY <1>2, <1>3, <1>f, <2>1, ListedLess DEF Now
    <3>2. Count(r, "VID_UPD") \in Nat /\ Count(queue, "VID_UPD") <= 1
          /\ Count(queue, "VID_UPD") \in Nat
      BY <1>2, <1>3, <1>f, CountOf DEF Now, Listed, Numbered
    <3> QED BY <3>1, <3>2 DEF Now
  <2>3. CASE line < ShrLines /\ ~halt
    <3>1. queue' = AddEventVidUpd(r, line)
      BY <2>1, <2>3 DEF NextVidUpd
    <3>2. lines \in Nat \ {0} /\ arg \in Nat /\ LineCyc \in Nat /\ MaxInstr \in Nat
          /\ MaxInstr < LineCyc
      BY <1>f, SchedulerAssumption DEF Unhurried
    <3>3. dfcyc <= (lastVbl + LineCyc * (arg + 1)) + 1 + MaxInstr
      <4>1. queue[1] \in Entries(queue)
        BY <1>f, FrameQueueHead DEF Entries
      <4>2. InItsTime(queue[1], lastVbl, scanAt, dfcyc)
        BY <4>1, <1>3 DEF Now, Listed
      <4>3. queue[1].at = lastVbl + LineCyc * (arg + 1) /\ dfcyc <= queue[1].at + 1 + MaxInstr
        BY <4>2, <2>1, Zenon DEF InItsTime
      <4> QED BY <4>3
    <3> HIDE DEF arg
    <3>4. arg + 1 \in Nat /\ line + 1 \in Nat /\ arg + 1 < line + 1 /\ line \in Nat
      BY <3>2
    <3> HIDE DEF line
    <3>5. /\ LineCyc * (arg + 1) \in Nat /\ LineCyc * (line + 1) \in Nat
          /\ LineCyc * (arg + 1) + LineCyc <= LineCyc * (line + 1)
      BY <3>4, LineProduct
    <3>6. curCyc <= lastVbl + LineCyc * (line + 1)
      BY <1>f, <1>p, <3>2, <3>3, <3>5
    <3>7. Listed(AddEventVidUpd(r, line), lastVbl, scanAt, devPending, stops, dfcyc)
      BY <1>1, <1>f, <1>p, <2>2, <2>3, <3>4, <3>6, AddVidUpdListed DEF Now
    <3> QED BY <1>e, <1>s, <2>1, <3>1, <3>7 DEF Now
  <2>4. CASE ~(line < ShrLines /\ ~halt)
    <3>1. queue' = r
      BY <2>1, <2>4 DEF NextVidUpd
    <3> QED BY <1>e, <1>s, <2>1, <2>2, <3>1
  <2> QED BY <2>3, <2>4
<1>6. ASSUME NEW request \in BOOLEAN, NEW upd \in DeviceUpdates, HandleDevice(request, upd)
      PROVE  JInv'
  <2> DEFINE dev  == queue[1].arg
             left == devPending \ {dev}
  <2>1. /\ queue[1].type = "DEVICE" /\ queue' = WithDevices(r, upd)
        /\ devPending' = left \cup upd.starting /\ upd.starting \cap left = {}
        /\ UNCHANGED <<scanAt, scanEvents, c023>>
    BY <1>6 DEF HandleDevice, Due, scanVars, r
  <2>2. dev \in devPending
    <3>1. queue[1] \in Entries(queue)
      BY <1>f, FrameQueueHead DEF Entries
    <3>2. dev \in Devices
      BY <3>1, <2>1, <1>3 DEF Now, Listed, InItsTime
    <3>3. CountArg(queue, "DEVICE", dev) = One(dev \in devPending)
      BY <3>2, <1>3 DEF Now, Listed, Numbered
    <3>4. CountArg(queue, "DEVICE", dev) = CountArg(r, "DEVICE", dev) + 1
          /\ CountArg(r, "DEVICE", dev) \in Nat
      BY <1>2, <2>1, GrownNumbers
    <3> HIDE DEF dev
    <3>5. One(dev \in devPending) # 0
      BY <3>3, <3>4
    <3> QED BY <3>5 DEF One
  <2>3. Listed(r, lastVbl, scanAt, left, stops, dfcyc)
    BY <1>2, <1>3, <1>f, <2>1, <2>2, RemoveDeviceListed DEF Now
  <2> HIDE DEF dev, left
  <2>4. Listed(WithDevices(r, upd), lastVbl, scanAt, left \cup upd.starting, stops, dfcyc)
    <3>1. left \in SUBSET Devices
      BY <1>f DEF left
    <3> QED BY <3>1, <1>1, <1>f, <2>1, <2>3, WithDevicesListed
  <2> QED BY <1>e, <1>s, <2>1, <2>4 DEF Now
<1>7. CASE HandleScanInt
  <2> DEFINE line  == queue[1].arg
             s0    == ScanState(r, dcyclesEnd, 0, FALSE)
             valid == line \in scb /\ shr
             s     == IF valid THEN s0
                      ELSE CheckScanLineInt(s0, c023, scb, line + 1, curCyc, lastVbl)
  <2>1. /\ queue[1].type = "SCAN_INT" /\ Becomes(s) /\ devPending' = devPending
        /\ valid \/ c023' = c023
    BY <1>7 DEF HandleScanInt, Due, r
  <2>2. s0 \in ScanStates /\ s0.q = r /\ s0.at = 0 /\ s0.on = FALSE
    BY <1>2, <1>f DEF ScanState, ScanStates
  <2>3. Listed(r, lastVbl, 0, devPending, stops, dfcyc)
    BY <1>2, <1>3, <2>1, ScanGoneListed DEF Now
  <2> HIDE DEF s0, line, valid
  <2>4. /\ Listed(s.q, lastVbl, s.at, devPending, stops, dfcyc)
        /\ s.on <=> s.at # 0
        /\ s.on => ~valid /\ "SCAN" \notin c023
    <3>1. CASE valid
      BY <3>1, <2>2, <2>3
    <3>2. CASE ~valid
      <4> DEFINE start == line + 1
      <4>1. s = CheckScanLineInt(s0, c023, scb, start, curCyc, lastVbl)
        BY <3>2
      <4>4. /\ t \in Nat /\ curCyc \in Nat /\ lastVbl \in Nat /\ 1 <= curCyc /\ lastVbl <= curCyc
            /\ devPending \in SUBSET Devices /\ stops \in 0..MaxStops /\ scb \in SUBSET Lines
        BY <1>f
      <4>2. s0 \in ScanStates /\ FrameQueue(s0.q, t) /\ Listed(s0.q, lastVbl, s0.at, devPending, stops, dfcyc)
            /\ (s0.on <=> s0.at # 0)
        BY <1>1, <2>2, <2>3
      <4> HIDE DEF s, start
      <4>3. /\ Listed(s.q, lastVbl, s.at, devPending, stops, dfcyc)
            /\ s.on <=> s.at # 0
            /\ s.on => s0.on \/ "SCAN" \notin c023
        BY <4>1, <4>2, <4>4, CheckScanListed
      <4> QED BY <3>2, <2>2, <4>3
    <3> QED BY <3>1, <3>2
  <2> HIDE DEF s
  <2>5. queue' = s.q /\ scanAt' = s.at /\ scanEvents' = s.on
    BY <2>1 DEF Becomes
  <2>6. ScanOn'
    BY <2>1, <2>4, <2>5 DEF ScanOn
  <2>7. Now(queue', scanAt', devPending')
    BY <2>1, <2>4, <2>5 DEF Now
  <2> QED BY <1>e, <2>6, <2>7
<1> QED BY <1>4, <1>5, <1>6, <1>7
(* Every step of the machine keeps the invariant.                           *)
LEMMA JStep ==
  ASSUME Unhurried, IInv, JInv, [Next]_vars
  PROVE  JInv'
<1> DEFINE t == lastVbl + Frame
           Now(q, pend, st) == Listed(q, lastVbl, scanAt, pend, st, dfcyc)
<1>f. /\ t \in Nat /\ curCyc \in Nat /\ lastVbl \in Nat /\ dfcyc \in Nat
      /\ dcyclesEnd \in Nat /\ FrameQueue(queue, t) /\ queue \in Seq(Event) /\ Sorted(queue)
      /\ queue[1].at \in Nat
      /\ devPending \in SUBSET Devices /\ stops \in 0..MaxStops /\ stops \in Nat
      /\ 1 <= curCyc /\ lastVbl <= curCyc /\ curCyc <= dfcyc
      /\ pc # "engine" => dfcyc = curCyc
      /\ ~stepping /\ ret # "dbg"
  <2>1. FrameQueue(queue, t)
    BY DEF IInv, FrameQueued
  <2>2. Sorted(queue)
    BY <2>1 DEF FrameQueue
  <2>3. devPending \in SUBSET Devices /\ stops \in 0..MaxStops
    BY DEF IInv, TypeOK
  <2>4. stops \in Nat
    BY <2>3, SchedulerAssumption
  <2>5. 1 <= curCyc /\ lastVbl <= curCyc
    BY DEF JInv, Undisturbed
  <2>6. ~stepping /\ ret # "dbg"
    BY Zenon DEF JInv, Undisturbed
  <2>7. curCyc <= dfcyc /\ (pc # "engine" => dfcyc = curCyc)
    BY DEF IInv, OnTime
  <2>8. /\ t \in Nat /\ curCyc \in Nat /\ lastVbl \in Nat /\ dfcyc \in Nat
        /\ dcyclesEnd \in Nat /\ queue \in Seq(Event) /\ queue[1].at \in Nat
    BY Facts
  <2> HIDE DEF t
  <2> QED BY <2>1, <2>2, <2>3, <2>4, <2>5, <2>6, <2>7, <2>8
<1>j. Now(queue, devPending, stops) /\ ScanOn /\ Undisturbed /\ HeadSeen /\ ScreenDone
  BY DEF JInv
<1> HIDE DEF t, Now
<1>e. ASSUME Now(queue', devPending', stops'), UNCHANGED <<lastVbl, scanAt, scanEvents, dfcyc>>,
             "SCAN" \in c023' => "SCAN" \in c023,
             stepping' = stepping \/ stepping' = FALSE, ret' = ret \/ ret' = "none",
             curCyc' = curCyc \/ curCyc' = dfcyc, HeadSeen', ScreenDone'
      PROVE  JInv'
  <2>1. Listed(queue', lastVbl', scanAt', devPending', stops', dfcyc')
    BY <1>e DEF Now
  <2>2. ScanOn' /\ Undisturbed'
    BY <1>e, <1>f, <1>j DEF ScanOn, Undisturbed
  <2> QED BY <1>e, <2>1, <2>2 DEF JInv
<1>1. CASE RunFrame
  <2>1. /\ UNCHANGED <<queue, devPending, stops, lastVbl, scanAt, scanEvents, dfcyc, c023,
                       stepping, ret, curCyc, halt>>
        /\ pc' = IF halt THEN "video" ELSE "top"
    BY <1>1 DEF RunFrame, timeVars, engineVars, scanVars, ctlVars
  <2>2. HeadSeen' /\ ScreenDone'
    BY <2>1 DEF HeadSeen, ScreenDone
  <2> QED BY <1>e, <1>j, <2>1, <2>2
<1>2. CASE EnterEngine
  <2>1. /\ UNCHANGED <<queue, devPending, stops, lastVbl, scanAt, scanEvents, dfcyc, c023,
                       stepping, curCyc, halt>>
        /\ pc' = "engine" /\ ret' = "none" /\ dcyclesSave' = queue[1].at + 1
    BY <1>2, <1>f DEF EnterEngine, Deadline, timeVars, scanVars, ctlVars
  <2>2. HeadSeen' /\ ScreenDone'
    BY <2>1, <1>f DEF HeadSeen, ScreenDone
  <2> QED BY <1>e, <1>j, <2>1, <2>2
<1>3. CASE Instruction
  BY <1>3, JInstruction
<1>4. CASE ReenterEngine
  <2>1. /\ UNCHANGED <<queue, devPending, stops, lastVbl, scanAt, scanEvents, dfcyc, c023,
                       stepping, curCyc, halt, dcyclesSave, pc>>
        /\ pc = "engine" /\ ret = "psr" /\ ret' = "none"
    BY <1>4 DEF ReenterEngine, EngineStops, timeVars, scanVars, ctlVars
  <2>2. HeadSeen' /\ ScreenDone'
    BY <2>1, <1>j DEF HeadSeen, ScreenDone
  <2> QED BY <1>e, <1>j, <2>1, <2>2
<1>5. CASE LeaveEngine
  <2>1. /\ UNCHANGED <<queue, devPending, stops, lastVbl, scanAt, scanEvents, dfcyc, c023,
                       stepping>>
        /\ pc' = "events" /\ ret' = "none" /\ curCyc' = dfcyc
    BY <1>5 DEF LeaveEngine, scanVars
  <2>2. HeadSeen' /\ ScreenDone'
    BY <2>1 DEF HeadSeen, ScreenDone
  <2> QED BY <1>e, <1>j, <2>1, <2>2
<1>6. CASE NoMoreDue
  <2>1. /\ UNCHANGED <<queue, devPending, stops, lastVbl, scanAt, scanEvents, dfcyc, c023,
                       stepping, ret, curCyc, halt>>
        /\ pc' = IF halt THEN "video" ELSE "top"
    BY <1>6, <1>f DEF NoMoreDue, timeVars, engineVars, scanVars, ctlVars
  <2>2. HeadSeen' /\ ScreenDone'
    BY <2>1 DEF HeadSeen, ScreenDone
  <2> QED BY <1>e, <1>j, <2>1, <2>2
<1>7. ASSUME NEW gone \in Withdrawn, Reset(gone) PROVE JInv'
  <2>1. /\ UNCHANGED <<stops, lastVbl, scanAt, scanEvents, dfcyc, ret, curCyc, halt, pc>>
        /\ c023' = {} /\ stepping' = FALSE /\ pc \in {"idle", "video"} /\ ResetMachine(gone)
    BY <1>7 DEF Reset, ResetMachine, scanVars, engineVars
  <2>2. Now(queue', devPending', stops') /\ Count(queue', "VID_UPD") = Count(queue, "VID_UPD")
    <3>1. CASE gone = {}
      BY <2>1, <3>1, <1>j DEF ResetMachine
    <3>2. ASSUME NEW dev \in devPending, gone = {dev}
          PROVE  /\ Now(queue', devPending', stops')
                 /\ Count(queue', "VID_UPD") = Count(queue, "VID_UPD")
      <4>1. queue' = RemoveDeviceEvent(queue, dev) /\ devPending' = devPending \ {dev}
        BY <2>1, <3>2, ResetWithdraws
      <4>2. Listed(queue', lastVbl, scanAt, devPending', stops', dfcyc)
        BY <2>1, <4>1, <1>f, <1>j, RemovedDeviceListed DEF Now
      <4>3. OfTypeArg(queue, "DEVICE", dev) \in SUBSET OfType(queue, "DEVICE")
        BY DEF OfTypeArg
      <4>4. Count(queue', "VID_UPD") = Count(queue, "VID_UPD")
        BY <4>1, <4>3, <1>f, RemoveCount DEF RemoveDeviceEvent, EvTypes
      <4> QED BY <4>2, <4>4 DEF Now
    <3> QED BY <3>1, <3>2 DEF Withdrawn
  <2>3. HeadSeen' /\ ScreenDone'
    BY <2>1, <2>2, <1>j DEF HeadSeen, ScreenDone
  <2> QED BY <1>e, <2>1, <2>2, <2>3
<1>8. ASSUME NEW due \in 0..(MaxFrames * Frame), DebuggerStopAt(due) PROVE JInv'
  <2>1. /\ UNCHANGED <<devPending, lastVbl, scanAt, scanEvents, dfcyc, ret, curCyc, pc, stepping,
                       c023>>
        /\ pc \in {"idle", "video"} /\ stops < MaxStops /\ stops' = stops + 1
        /\ queue' = AddEvent(queue, curCyc, due, "STOP", 0) /\ (halt => halt')
    BY <1>8 DEF DebuggerStopAt, timeVars, scanVars, engineVars
  <2>2. due \in Nat
    OBVIOUS
  <2> DEFINE e == [at |-> DueTime(due, curCyc), type |-> "STOP", arg |-> 0]
             r == AddEvent(queue, curCyc, due, "STOP", 0)
  <2>3. Len(queue) < MaxEvents
    BY <1>f, <1>j, <2>1, Room DEF Now, Listed
  <2>4. Grown(queue, e, r) /\ e.type = "STOP"
    BY <1>f, <2>2, <2>3, AddGrows DEF EvTypes
  <2>5. Count(r, "VID_UPD") = Count(queue, "VID_UPD")
    BY <1>f, <2>2, AddCount DEF EvTypes
  <2> HIDE DEF e, r
  <2>6. Listed(r, lastVbl, scanAt, devPending, stops + 1, dfcyc)
    BY <2>4, <1>f, <1>j, AddStopListed DEF Now
  <2>7. Now(queue', devPending', stops') /\ Count(queue', "VID_UPD") = Count(queue, "VID_UPD")
    BY <2>1, <2>5, <2>6 DEF Now, r
  <2>8. HeadSeen' /\ ScreenDone'
    BY <2>1, <2>7, <1>j DEF HeadSeen, ScreenDone
  <2> QED BY <1>e, <2>1, <2>7, <2>8
<1>9. CASE ServerControl
  BY <1>9 DEF ServerControl, Unhurried
<1>10. CASE VideoUpdate
  <2>1. /\ UNCHANGED <<devPending, stops, lastVbl, scanAt, scanEvents, dfcyc, ret, curCyc,
                       stepping, c023>>
        /\ pc = "video" /\ pc' = "idle"
        /\ queue' = IF halt THEN queue ELSE AddEventVidUpd(queue, 0)
    BY <1>10 DEF VideoUpdate, timeVars, engineVars, scanVars
  <2>2. CASE halt
    BY <2>1, <2>2, <1>e, <1>j DEF HeadSeen, ScreenDone
  <2>3. CASE ~halt
    <3>1. Count(queue, "VID_UPD") = 0 /\ curCyc <= lastVbl + 1 + MaxInstr
      BY <2>1, <2>3, <1>j DEF ScreenDone
    <3>2. /\ LineCyc \in Nat /\ MaxInstr \in Nat /\ MaxInstr < LineCyc /\ 0 < ShrLines
      BY SchedulerAssumption DEF Unhurried
    <3>3. curCyc <= lastVbl + LineCyc * (0 + 1)
      BY <1>f, <3>1, <3>2
    <3>4. Listed(AddEventVidUpd(queue, 0), lastVbl, scanAt, devPending, stops, dfcyc)
      BY <1>f, <1>j, <2>1, <3>1, <3>2, <3>3, AddVidUpdListed DEF Now
    <3>5. Now(queue', devPending', stops') /\ HeadSeen' /\ ScreenDone'
      BY <2>1, <2>3, <3>4 DEF Now, HeadSeen, ScreenDone
    <3> QED BY <1>e, <2>1, <3>5
  <2> QED BY <2>2, <2>3
<1>11. CASE UNCHANGED vars
  <2>1. UNCHANGED <<queue, devPending, stops, lastVbl, scanAt, scanEvents, dfcyc, c023, ret, curCyc,
                    stepping, halt, pc, dcyclesEnd, dcyclesSave>>
    BY <1>11 DEF vars, timeVars, engineVars, scanVars, ctlVars
  <2>2. HeadSeen' /\ ScreenDone'
    BY <2>1, <1>j DEF HeadSeen, ScreenDone
  <2> QED BY <1>e, <1>j, <2>1, <2>2
<1> QED
  BY <1>1, <1>2, <1>3, <1>4, <1>5, <1>6, <1>7, <1>8, <1>9, <1>10, <1>11, J60Hz, JOtherEvents
  DEF Next, Main, User, HandleEvents

LEMMA JInvariance ==
  ASSUME Unhurried
  PROVE  Spec => []JInv
<1>1. Init => JInv
  BY JInit
<1>2. IInv /\ JInv /\ [Next]_vars => JInv'
  BY JStep
<1> QED BY <1>1, <1>2, Invariance, PTL DEF Spec

(* Every device has an event on the list when and only when it waits for    *)
(* one, the VBL interrupt is queued once at the frame's VBL line, and the   *)
(* pool of events never runs out: add_event_entry's "Out of queue entries"  *)
(* cannot happen on a machine that nobody steps.                            *)
THEOREM EventsAlwaysExpected ==
  ASSUME Unhurried
  PROVE  Spec => []EventsExpected
<1>1. IInv /\ JInv => EventsExpected
  <2> SUFFICES ASSUME IInv, JInv PROVE EventsExpected
    OBVIOUS
  <2>1. /\ lastVbl + Frame \in Nat /\ FrameQueue(queue, lastVbl + Frame)
        /\ devPending \in SUBSET Devices /\ stops \in 0..MaxStops
    BY Facts DEF IInv, FrameQueued, TypeOK
  <2>2. Numbered(queue, scanAt, devPending, stops)
        /\ \A e \in Entries(queue) : InItsTime(e, lastVbl, scanAt, dfcyc)
    BY DEF JInv, Listed
  <2>3. PoolSuffices
    BY <2>1, <2>2, Room DEF PoolSuffices
  <2>4. DevicesAgree
    BY <2>2 DEF Numbered, CountArg, One, DevicesAgree
  <2>5. VblOnce
    <3>1. ASSUME NEW i \in OfType(queue, "VBL_INT")
          PROVE  queue[i].at = lastVbl + LineCyc * VblLine
      <4>1. queue[i] \in Entries(queue) /\ queue[i].type = "VBL_INT"
        BY DEF OfType, Entries
      <4> QED BY <4>1, <2>2, Zenon DEF InItsTime
    <3>2. Cardinality(OfType(queue, "VBL_INT")) <= 1
      BY <2>2, Zenon DEF Numbered, Count
    <3> QED BY <3>1, <3>2, Zenon DEF VblOnce
  <2> QED BY <2>3, <2>4, <2>5 DEF EventsExpected
<1> QED BY <1>1, Invariance, JInvariance, PTL

(* g_scan_line_event_queued and the time the scan line was scheduled for    *)
(* agree with the list: there is one EV_SCAN_INT at that time, or none.     *)
THEOREM ScanAlwaysAgrees ==
  ASSUME Unhurried
  PROVE  Spec => []ScanAgrees
<1>1. IInv /\ JInv => ScanAgrees
  <2> SUFFICES ASSUME IInv, JInv PROVE ScanAgrees
    OBVIOUS
  <2>1. TypeOK /\ ScanOn /\ queue \in Seq(Event)
        /\ Count(queue, "SCAN_INT") = One(scanAt # 0)
        /\ \A e \in Entries(queue) : e.type = "SCAN_INT" => e.at = scanAt
    BY DEF IInv, JInv, Listed, Numbered, InItsTime, TypeOK
  <2>2. IsFiniteSet(OfType(queue, "SCAN_INT"))
    <3>1. IsFiniteSet(1..Len(queue)) /\ OfType(queue, "SCAN_INT") \in SUBSET (1..Len(queue))
      BY <2>1, FS_Interval, EventSeq DEF OfType
    <3> QED BY <3>1, FS_Subset
  <2>3. CASE scanEvents
    <3>1. Cardinality(OfType(queue, "SCAN_INT")) = 1
      BY <2>1, <2>3 DEF ScanOn, One, Count
    <3>2. PICK i : OfType(queue, "SCAN_INT") = {i}
      BY <3>1, <2>2, FS_Singleton
    <3>3. i \in 1..Len(queue) /\ queue[i].type = "SCAN_INT"
      BY <3>2 DEF OfType
    <3>4. queue[i].at = scanAt
      BY <3>3, <2>1 DEF Entries
    <3> QED BY <2>1, <2>3, <3>2, <3>3, <3>4 DEF ScanAgrees, ScanOn
  <2>4. CASE ~scanEvents
    <3>1. Cardinality(OfType(queue, "SCAN_INT")) = 0
      BY <2>1, <2>4 DEF ScanOn, One, Count
    <3>2. OfType(queue, "SCAN_INT") = {}
      BY <3>1, <2>2, FS_EmptySet
    <3> QED BY <2>1, <2>4, <3>2 DEF ScanAgrees, ScanOn
  <2> QED BY <2>1, <2>3, <2>4 DEF TypeOK
<1> QED BY <1>1, Invariance, JInvariance, PTL

-----------------------------------------------------------------------------
(* The scan-line event of a frame.  One that is left from the frame before  *)
(* does not stand in the way of the new frame's first: the line it was for  *)
(* was past, so it was queued for the moment it was asked for.              *)
InTime(at, vbl, now) == at < vbl + Frame \/ at <= now

ScanInTime == InTime(scanAt, lastVbl, curCyc)

(* The step of ScanArmed.                                                   *)
ArmsScan ==
  lastVbl' # lastVbl /\ shr' /\ "SCAN" \notin c023' /\ scb' # {}
    => scanEvents' /\ scanAt' <= Later(lastVbl' + LineCyc * Min(scb'), curCyc')

IsScanState(s) == s = ScanState(s.q, s.end, s.at, s.on) /\ s.at \in Nat

Armed(s, vbl, lines, now) == s.on /\ s.at <= Later(vbl + LineCyc * Min(lines), now)

(* check_scan_line_int queues the first line that asks, unless an earlier   *)
(* one is queued.                                                           *)
LEMMA CheckScanInTime ==
  ASSUME NEW s, IsScanState(s), NEW c, NEW lines \in SUBSET Lines, NEW start,
         NEW now \in Nat, NEW vbl \in Nat, InTime(s.at, vbl, now),
         NEW r, r = CheckScanLineInt(s, c, lines, start, now, vbl)
  PROVE  /\ IsScanState(r) /\ InTime(r.at, vbl, now)
         /\ start = 0 /\ shr /\ "SCAN" \notin c /\ lines # {}
              => Armed(r, vbl, lines, now)
<1> DEFINE asking == {line \in lines : line >= start}
           line == Min(asking)
           due == vbl + LineCyc * line
           a == AddEventScanInt(s, now, due, line)
<1>0. start = 0 => asking = lines
  <2> SUFFICES ASSUME start = 0 PROVE asking = lines
    OBVIOUS
  <2>1. asking = {x \in lines : x >= 0}
    OBVIOUS
  <2>2. \A x \in lines : x >= 0
    BY LinesNat
  <2> QED BY <2>1, <2>2
<1>1. CASE ~shr \/ "SCAN" \in c \/ asking = {}
  <2>1. r = s
    BY <1>1 DEF CheckScanLineInt
  <2> QED BY <1>0, <1>1, <2>1
<1>2. CASE ~(~shr \/ "SCAN" \in c \/ asking = {})
  <2>1. line \in Nat /\ line < FrameLines
    <3>1. asking \in SUBSET Nat
      BY LinesNat
    <3>2. line \in asking
      BY <3>1, <1>2, MinSpec
    <3> HIDE DEF line
    <3> QED BY <3>2, SchedulerAssumption DEF Lines
  <2>2. due \in Nat /\ due < vbl + Frame
    <3> HIDE DEF line
    <3>1. LineCyc \in Nat \ {0} /\ FrameLines \in Nat
      BY SchedulerAssumption
    <3>2. LineCyc * line \in Nat /\ LineCyc * line + LineCyc <= LineCyc * FrameLines
      BY <2>1, <3>1, LineProduct
    <3>3. Frame = LineCyc * FrameLines /\ Frame \in Nat
      BY <3>1, FrameNat DEF Frame
    <3> QED BY <3>1, <3>2, <3>3
  <2>3. r = [a EXCEPT !.on = TRUE]
    BY <1>2 DEF CheckScanLineInt
  <2> HIDE DEF due, line
  <2>4. a.at = (IF s.at # 0 /\ due >= s.at THEN s.at ELSE Later(due, now))
        /\ r.at = a.at /\ r.on = TRUE /\ r = ScanState(r.q, r.end, r.at, r.on)
    <3>1. CASE s.at # 0 /\ due >= s.at
      <4>1. a = s
        BY <3>1 DEF AddEventScanInt
      <4> HIDE DEF a
      <4> QED BY <3>1, <4>1, <2>3 DEF IsScanState, ScanState
    <3>2. CASE ~(s.at # 0 /\ due >= s.at)
      <4>1. PICK q, end : a = ScanState(q, end, Later(due, now), s.on)
        BY <3>2 DEF AddEventScanInt
      <4> HIDE DEF a
      <4> QED BY <3>2, <4>1, <2>3 DEF ScanState
    <3> QED BY <3>1, <3>2
  <2> HIDE DEF a
  <2>5. s.at \in Nat /\ Frame \in Nat
    BY FrameNat DEF IsScanState
  <2>7. r.at \in Nat
    BY <2>2, <2>4, <2>5 DEF Later
  <2>6. InTime(r.at, vbl, now) /\ r.at <= Later(due, now)
    BY <2>2, <2>4, <2>5 DEF InTime, Later
  <2> QED BY <1>0, <2>4, <2>6, <2>7 DEF due, line, Armed, IsScanState
<1> QED BY <1>1, <1>2

(* The scan-line event stays in its frame, and the 60 Hz handler leaves one *)
(* for the frame it begins.                                                 *)
LEMMA ScanStep ==
  ASSUME IInv, ScanInTime, [Next]_vars
  PROVE  ScanInTime' /\ ArmsScan
<1>f. /\ Frame \in Nat /\ curCyc \in Nat /\ dfcyc \in Nat /\ lastVbl \in Nat /\ scanAt \in Nat
      /\ lastVbl + Frame \in Nat /\ curCyc <= dfcyc
      /\ queue \in Seq(Event) /\ scb \in SUBSET Lines
  BY Facts DEF IInv, OnTime, TypeOK
<1>s. \A q, end : /\ IsScanState(ScanState(q, end, scanAt, scanEvents))
                  /\ ScanState(q, end, scanAt, scanEvents).at = scanAt
                  /\ ScanState(q, end, scanAt, scanEvents).on = scanEvents
  BY <1>f DEF ScanState, IsScanState
<1>e. ASSUME UNCHANGED <<lastVbl, scanAt>>, curCyc' = curCyc \/ curCyc' = dfcyc
      PROVE  ScanInTime' /\ ArmsScan
  BY <1>e, <1>f DEF ArmsScan, ScanInTime, InTime, Frame
<1>b. ASSUME NEW s, IsScanState(s), InTime(s.at, lastVbl, curCyc),
             NEW c, NEW lines \in SUBSET Lines, NEW start,
             Becomes(CheckScanLineInt(s, c, lines, start, curCyc, lastVbl)),
             UNCHANGED <<lastVbl, curCyc>>
      PROVE  ScanInTime' /\ ArmsScan
  <2> DEFINE r == CheckScanLineInt(s, c, lines, start, curCyc, lastVbl)
  <2>1. InTime(r.at, lastVbl, curCyc)
    BY <1>b, <1>f, CheckScanInTime
  <2> HIDE DEF r
  <2>2. scanAt' = r.at
    BY <1>b DEF Becomes, r
  <2> QED BY <1>b, <2>1, <2>2 DEF ArmsScan, ScanInTime, InTime, Frame
<1>1. CASE RunFrame \/ VideoUpdate \/ EnterEngine \/ ReenterEngine \/ LeaveEngine
  <2>1. UNCHANGED <<lastVbl, scanAt>> /\ (curCyc' = curCyc \/ curCyc' = dfcyc)
    BY <1>1 DEF RunFrame, VideoUpdate, EnterEngine, ReenterEngine, LeaveEngine, timeVars, scanVars
  <2> QED BY <2>1, <1>e
<1>2. ASSUME Instruction
      PROVE  ScanInTime' /\ ArmsScan
  <2> PICK d \in MinInstr..MaxInstr :
        \/ InstrOther(d) \/ InstrWai(d) \/ InstrPsr(d) \/ InstrHalt(d)
        \/ \E enables \in SUBSET C023Enables : WriteC023(d, enables)
        \/ \E clear \in SUBSET {"SEC", "SCAN"} : WriteC032(d, clear)
        \/ \E enables \in SUBSET MegaIIBits : WriteC041(d, enables)
        \/ AccessC047(d) \/ WriteC029(d)
        \/ \E line \in Lines : WriteScb(d, line)
        \/ \E dev \in Devices, delay \in 1..MaxDelay : DeviceStart(d, dev, delay)
        \/ \E dev \in Devices : DeviceStop(d, dev)
        \/ DeviceAck(d)
        \/ \E gone \in Withdrawn : InstrAdbReset(d, gone)
    BY <1>2 DEF Instruction
  <2>1. ASSUME NEW clear \in SUBSET {"SEC", "SCAN"}, WriteC032(d, clear) PROVE ScanInTime' /\ lastVbl' = lastVbl
    <3>1. UNCHANGED <<lastVbl, curCyc>>
      BY <2>1 DEF WriteC032, Executes
    <3>2. CASE UNCHANGED scanVars
      BY <3>1, <3>2, <1>e DEF scanVars
    <3>3. CASE ~UNCHANGED scanVars
      <4>1. PICK c : Becomes(CheckScanLineInt(ScanState(queue, dcyclesEnd, scanAt, scanEvents),
                               c, scb, LinesSinceVbl(dfcyc'), curCyc, lastVbl))
        BY <2>1, <3>3 DEF WriteC032
      <4> QED BY <4>1, <3>1, <1>b, <1>f, <1>s DEF ScanInTime
    <3> QED BY <3>2, <3>3
  <2>2. ASSUME NEW line \in Lines, WriteScb(d, line) PROVE ScanInTime' /\ lastVbl' = lastVbl
    <3>1. UNCHANGED <<lastVbl, curCyc>>
      BY <2>2 DEF WriteScb, Executes
    <3>2. CASE UNCHANGED scanVars
      BY <3>1, <3>2, <1>e DEF scanVars
    <3>3. CASE ~UNCHANGED scanVars
      <4>1. Becomes(CheckScanLineInt(ScanState(queue, dcyclesEnd, scanAt, scanEvents),
                      c023, scb', LinesSinceVbl(dfcyc'), curCyc, lastVbl))
            /\ scb' \in SUBSET Lines
        BY <2>2, <3>3, <1>f DEF WriteScb
      <4> QED BY <4>1, <3>1, <1>b, <1>s DEF ScanInTime
    <3> QED BY <3>2, <3>3
  <2>3. ASSUME
             \/ InstrOther(d) \/ InstrWai(d) \/ InstrPsr(d) \/ InstrHalt(d)
             \/ \E enables \in SUBSET C023Enables : WriteC023(d, enables)
             \/ \E enables \in SUBSET MegaIIBits : WriteC041(d, enables)
             \/ AccessC047(d) \/ WriteC029(d)
             \/ \E dev \in Devices, delay \in 1..MaxDelay : DeviceStart(d, dev, delay)
             \/ \E dev \in Devices : DeviceStop(d, dev)
             \/ DeviceAck(d)
             \/ \E gone \in Withdrawn : InstrAdbReset(d, gone)
        PROVE  ScanInTime' /\ lastVbl' = lastVbl
    <3>1. UNCHANGED <<lastVbl, scanAt, curCyc>>
      BY <2>3 DEF InstrOther, InstrWai, InstrPsr, InstrHalt, WriteC023, WriteC041, AccessC047,
                  WriteC029, DeviceStart, DeviceStop, DeviceAck, InstrAdbReset, ResetMachine,
                  Executes, scanVars
    <3> QED BY <3>1, <1>e
  <2>4. lastVbl' = lastVbl /\ ScanInTime'
    <3>1. InstrOther(d) \/ InstrWai(d) \/ InstrPsr(d) \/ InstrHalt(d)
          \/ (\E enables \in SUBSET C023Enables : WriteC023(d, enables))
          \/ (\E enables \in SUBSET MegaIIBits : WriteC041(d, enables))
          \/ AccessC047(d) \/ WriteC029(d)
          \/ (\E dev \in Devices, delay \in 1..MaxDelay : DeviceStart(d, dev, delay))
          \/ (\E dev \in Devices : DeviceStop(d, dev))
          \/ DeviceAck(d)
          \/ (\E gone \in Withdrawn : InstrAdbReset(d, gone))
          \/ (\E clear \in SUBSET {"SEC", "SCAN"} : WriteC032(d, clear))
          \/ (\E line \in Lines : WriteScb(d, line))
      OBVIOUS
    <3> QED BY <3>1, <2>1, <2>2, <2>3
  <2> QED BY <2>4 DEF ArmsScan
<1>3. ASSUME NEW upd \in DeviceUpdates, Handle60Hz(upd)
      PROVE  ScanInTime' /\ ArmsScan
  <2> DEFINE vbl == lastVbl + Frame
  <2>1. PICK q, c, s :
          LET s0 == ScanState(q, dcyclesEnd, scanAt, scanEvents)
          IN  /\ s = IF scanEvents THEN s0 ELSE CheckScanLineInt(s0, c, scb, 0, curCyc, vbl)
              /\ Becomes([s EXCEPT !.q = WithDevices(s.q, upd)])
              /\ c023' = c
    BY <1>3 DEF Handle60Hz
  <2>2. /\ lastVbl' = vbl /\ curCyc' = curCyc /\ pc = "events" /\ Due("60HZ")
        /\ UNCHANGED <<shr, scb>>
    BY <1>3 DEF Handle60Hz, videoVars, Due
  <2> DEFINE s0 == ScanState(q, dcyclesEnd, scanAt, scanEvents)
  <2>3. IsScanState(s0) /\ s0.at = scanAt /\ s0.on = scanEvents /\ InTime(s0.at, vbl, curCyc)
    BY <1>s, <1>f DEF ScanInTime, InTime
  <2>6. s = IF scanEvents THEN s0 ELSE CheckScanLineInt(s0, c, scb, 0, curCyc, vbl)
    BY <2>1
  <2>7. scb # {} => LineCyc * Min(scb) \in Nat
    <3>1. scb \in SUBSET Nat
      BY <1>f, LinesNat
    <3>2. scb # {} => Min(scb) \in Nat
      BY <3>1, MinSpec
    <3> QED BY <3>2, SchedulerAssumption
  <2> HIDE DEF s0, vbl
  <2>8. /\ IsScanState(s) /\ InTime(s.at, vbl, curCyc)
        /\ shr /\ "SCAN" \notin c /\ scb # {}
             => Armed(s, vbl, scb, curCyc)
    <3>0. vbl \in Nat
      BY <1>f DEF vbl
    <3>1. CASE scanEvents
      <4>1. s = s0
        BY <2>6, <3>1
      <4>2. scanAt < vbl \/ scanAt <= curCyc
        BY DEF ScanInTime, InTime, vbl
      <4> QED BY <4>1, <4>2, <3>0, <3>1, <2>3, <2>7, <1>f DEF Later, Armed
    <3>2. CASE ~scanEvents
      <4>1. s = CheckScanLineInt(s0, c, scb, 0, curCyc, vbl)
        BY <2>6, <3>2
      <4>2. InTime(s0.at, vbl, curCyc) /\ IsScanState(s0)
        BY <2>3
      <4>3. curCyc \in Nat /\ scb \in SUBSET Lines
        BY <1>f
      <4> QED BY <3>0, <4>1, <4>2, <4>3, CheckScanInTime
    <3> QED BY <3>1, <3>2
  <2>9. scanAt' = s.at /\ scanEvents' = s.on
    BY <2>1, <2>8 DEF Becomes, IsScanState, ScanState
  <2> QED BY <2>1, <2>2, <2>8, <2>9 DEF Armed, ArmsScan, ScanInTime, InTime, Frame
<1>4. CASE HandleScanInt
  <2>1. UNCHANGED <<lastVbl, curCyc>>
    BY <1>4 DEF HandleScanInt, timeVars
  <2> DEFINE s0 == ScanState(Tail(queue), dcyclesEnd, 0, FALSE)
  <2>2. IsScanState(s0) /\ s0.at = 0 /\ InTime(s0.at, lastVbl, curCyc)
    BY <1>f DEF ScanState, IsScanState, InTime
  <2>3. CASE Becomes(s0)
    BY <2>1, <2>2, <2>3, <1>f DEF Becomes, ArmsScan, ScanInTime, InTime
  <2>4. CASE ~Becomes(s0)
    <3>1. PICK start : Becomes(CheckScanLineInt(s0, c023, scb, start, curCyc, lastVbl))
      BY <1>4, <2>4 DEF HandleScanInt
    <3> HIDE DEF s0
    <3> QED BY <3>1, <2>1, <2>2, <1>b, <1>f
  <2> QED BY <2>3, <2>4
<1>5. CASE \/ HandleVblInt \/ HandleStop \/ NoMoreDue \/ User \/ UNCHANGED vars
           \/ \E lines \in LineRefs : HandleVidUpd(lines)
           \/ \E request \in BOOLEAN, upd \in DeviceUpdates : HandleDevice(request, upd)
  <2>1. UNCHANGED <<lastVbl, scanAt, curCyc>>
    BY <1>5 DEF HandleVblInt, HandleStop, NoMoreDue, HandleVidUpd, HandleDevice, User, Reset,
                ResetMachine, DebuggerStopAt, ServerControl, vars, scanVars, timeVars
  <2> QED BY <2>1, <1>e
<1> QED BY <1>1, <1>2, <1>3, <1>4, <1>5 DEF Next, Main, HandleEvents

(* When a frame begins with super hires on, lines that ask for interrupts   *)
(* and no unserved scan-line interrupt, the 60 Hz handler leaves a scan-    *)
(* line event for the first of the lines or an earlier moment: a program    *)
(* that reprograms the control bytes and serves its interrupts late or past *)
(* the frame's end never loses the next frame's interrupts.                 *)
THEOREM ScanAlwaysArmed == Spec => ScanArmed
<1>1. Init => ScanInTime
  BY FrameNat DEF Init, ScanInTime, InTime
<1>2. IInv /\ ScanInTime /\ [Next]_vars => ScanInTime'
  BY ScanStep
<1>3. IInv /\ ScanInTime /\ [Next]_vars
        => [ArmsScan]_vars
  BY ScanStep
<1> QED BY <1>1, <1>2, <1>3, Invariance, PTL DEF Spec, ScanArmed, ArmsScan

=============================================================================
