---------------------------- MODULE SoundProofs ----------------------------
(***************************************************************************)
(* Proofs about the sound: the two threads that share a ring of samples     *)
(* (SoundRing), and the Mockingboard's timers (Mockingboard), which are     *)
(* those of the chips in Via6522.                                           *)
(***************************************************************************)
EXTENDS Mockingboard, SoundRing, FiniteSetTheorems, WellFoundedInduction, TLAPS

-----------------------------------------------------------------------------
(* PART 1: SoundRing                                                        *)

(* What CoreAudio has not taken of the driver's ring                        *)
Away(wr, rd) == (wr + RebufSize - rd) % RebufSize
Unread(ring, wr, rd) == [k \in 1..Away(wr, rd) |-> ring[(rd + k - 1) % RebufSize]]
Dist == Away(macWr, macRd)
Waiting == Unread(rebuf, macWr, macRd)

(* No sample of s comes twice or after a later one, and there is no gap but *)
(* silence.                                                                 *)
InOrder(s) ==
  \A i, j \in 1..Len(s) : i < j /\ s[i] # 0 /\ s[j] # 0 =>
    s[i] < s[j] /\ (j = i + 1 => s[j] = s[i] + 1)

Joins(s, t) == s # <<>> /\ t # <<>> /\ s[Len(s)] # 0 /\ t[1] # 0 => t[1] = s[Len(s)] + 1
Before(s, t) == \A i \in 1..Len(s), j \in 1..Len(t) : s[i] # 0 /\ t[j] # 0 => s[i] < t[j]
Between(s, low, high) == \A i \in 1..Len(s) : s[i] # 0 => low < s[i] /\ s[i] <= high

(* The driver may have to go on after sample high: the end of what it was   *)
(* given is silence if it has paused.                                       *)
EndsWith(s, high, pause) == s # <<>> /\ s[Len(s)] # 0 => s[Len(s)] = high /\ ~pause

(* What waits in the ring and what is to be sent, after sample low          *)
Stream(w, out, low, high, pause) ==
  /\ low <= high
  /\ InOrder(w) /\ Between(w, low, high)
  /\ \A i \in 1..Len(out) :
       /\ out[i] # <<>> /\ InOrder(out[i]) /\ Between(out[i], low, high)
       /\ Before(w, out[i])
       /\ \A j \in 1..i - 1 : Before(out[j], out[i])
       /\ Joins(IF i = 1 THEN w ELSE out[i - 1], out[i])
  /\ EndsWith(IF out = <<>> THEN w ELSE out[Len(out)], high, pause)

(* The samples that are queued are in the emulator's ring.                  *)
QueueOK ==
  /\ samps <= made /\ samps + nonsamps < Quantum /\ (samps = 0 \/ nonsamps = 0)
  /\ shmPos = (childPos + samps + nonsamps) % ShmSize
  /\ \A k \in 0..samps - 1 : shm[(childPos + k) % ShmSize] = made - samps + k + 1

(* What CoreAudio's thread saw of the ring is still there, and what was     *)
(* copied to the ring is where macWr will say it is.                        *)
RingOK ==
  /\ asked > 0 => avail <= Dist
  /\ copied => /\ sending # <<>> /\ Dist + Len(Head(sending)) < RebufSize
               /\ \A k \in 1..Len(Head(sending)) :
                    rebuf[(macWr + k - 1) % RebufSize] = Head(sending)[k]

IInv ==
  /\ RingTypeOK /\ RingOK /\ QueueOK
  /\ Stream(Waiting, sending, last, made - samps, paused)

-----------------------------------------------------------------------------
(* Positions in a ring of n places                                          *)
LEMMA Sizes ==
  /\ ShmSize \in Nat \ {0} /\ RebufSize \in Nat \ {0} /\ Quantum \in Nat \ {0}
  /\ MinSamples \in Nat /\ MaxSamples \in Nat /\ PauseAfter \in Nat /\ PauseSafety \in Nat
  /\ MaxMade \in Nat /\ 0 \in 0..MaxMade
BY RingAssumption

(* A position is its own remainder, and is met again a round later.         *)
LEMMA ModSame ==
  ASSUME NEW n \in Nat \ {0}, NEW i \in 0..n - 1
  PROVE  i % n = i /\ (n + i) % n = i /\ (i + n) % n = i
<1>1. i % n = i
  OBVIOUS
<1>2. (n + i) % n = i
  OBVIOUS
<1> QED  BY <1>1, <1>2

(* Steps around a ring add up.                                              *)
LEMMA ModAdd ==
  ASSUME NEW n \in Nat \ {0}, NEW x \in 0..2 * n - 1, NEW y \in 0..n
  PROVE  ((x % n) + y) % n = (x + y) % n
<1>1. CASE x < n
  <2>1. x % n = x
    BY <1>1
  <2> QED  BY <2>1
<1>2. CASE x >= n
  <2>1. x % n = x - n
    BY <1>2
  <2>2. CASE x + y < 2 * n
    <3>1. (x + y) % n = x + y - n
      BY <1>2, <2>2
    <3>2. (x - n + y) % n = x - n + y
      BY <1>2, <2>2
    <3> QED  BY <2>1, <3>1, <3>2
  <2>3. CASE x + y >= 2 * n
    <3>1. (x + y) % n = x + y - 2 * n
      BY <1>2, <2>3
    <3>2. (x - n + y) % n = x - n + y - n
      BY <1>2, <2>3
    <3> QED  BY <2>1, <3>1, <3>2
  <2> QED  BY <2>2, <2>3
<1> QED  BY <1>1, <1>2

(* Wider bounds                                                             *)
LEMMA Widen ==
  ASSUME NEW s \in Seq(0..MaxMade), NEW low \in Nat, NEW high \in Nat, Between(s, low, high),
         NEW l \in Nat, NEW h \in Nat, l <= low, high <= h
  PROVE  Between(s, l, h)
<1> SUFFICES ASSUME NEW i \in 1..Len(s), s[i] # 0 PROVE l < s[i] /\ s[i] <= h
  BY DEF Between
<1>1. s[i] \in 0..MaxMade /\ MaxMade \in Nat
  BY Sizes
<1>2. low < s[i] /\ s[i] <= high
  BY DEF Between
<1> QED  BY <1>1, <1>2

(* Samples between two numbers come before those above both.                *)
LEMMA BeforeNext ==
  ASSUME NEW a \in Seq(0..MaxMade), NEW b \in Seq(0..MaxMade), NEW low \in Nat, NEW high \in Nat, NEW top \in Nat,
         Between(a, low, high), Between(b, high, top)
  PROVE  Before(a, b)
<1> SUFFICES ASSUME NEW i \in 1..Len(a), NEW j \in 1..Len(b), a[i] # 0, b[j] # 0
             PROVE  a[i] < b[j]
  BY DEF Before
<1>1. a[i] \in Nat /\ b[j] \in Nat
  <2>1. MaxMade \in Nat /\ a[i] \in 0..MaxMade /\ b[j] \in 0..MaxMade
    BY Sizes
  <2> QED  BY <2>1, SMTT(30)
<1>2. a[i] <= high /\ high < b[j]
  BY DEF Between
<1> QED  BY <1>1, <1>2

(* A piece that goes on where the stream ends                               *)
LEMMA StreamGrows ==
  ASSUME NEW w \in Seq(0..MaxMade), NEW out \in Seq(Seq(0..MaxMade)), NEW low \in Nat, NEW high \in Nat,
         NEW pause \in BOOLEAN, Stream(w, out, low, high, pause),
         NEW s \in Seq(0..MaxMade), s # <<>>, InOrder(s), s[1] # 0 => s[1] = high + 1,
         NEW top \in Nat, high <= top, Between(s, high, top),
         NEW p \in BOOLEAN, EndsWith(s, top, p)
  PROVE  Stream(w, Append(out, s), low, top, p)
<1> DEFINE o == Append(out, s)
           m == Len(out) + 1
<1>1. /\ o \in Seq(Seq(0..MaxMade)) /\ Len(o) = m /\ o[m] = s /\ o # <<>>
      /\ \A i \in 1..Len(out) : o[i] = out[i] /\ out[i] \in Seq(0..MaxMade)
  <2>1. o \in Seq(Seq(0..MaxMade)) /\ Len(o) = m /\ o[m] = s
    OBVIOUS
  <2>2. o # <<>>
    <3> HIDE DEF o
    <3> QED  BY <2>1
  <2>3. \A i \in 1..Len(out) : o[i] = out[i] /\ out[i] \in Seq(0..MaxMade)
    OBVIOUS
  <2> QED  BY <2>1, <2>2, <2>3
<1>2. low <= high /\ low <= top /\ InOrder(w) /\ Between(w, low, top)
  <2>1. low <= high /\ InOrder(w) /\ Between(w, low, high)
    BY DEF Stream
  <2> QED  BY <2>1, Widen, low <= low
<1>3. ASSUME NEW i \in 1..Len(out)
      PROVE  /\ o[i] # <<>> /\ InOrder(o[i]) /\ Between(o[i], low, top)
             /\ Before(w, o[i])
             /\ \A j \in 1..i - 1 : Before(o[j], o[i])
             /\ Joins(IF i = 1 THEN w ELSE o[i - 1], o[i])
  <2>1. /\ out[i] # <<>> /\ InOrder(out[i]) /\ Between(out[i], low, high)
        /\ Before(w, out[i])
        /\ \A j \in 1..i - 1 : Before(out[j], out[i])
        /\ Joins(IF i = 1 THEN w ELSE out[i - 1], out[i])
    BY DEF Stream
  <2>2. o[i] = out[i] /\ \A j \in 1..i - 1 : o[j] = out[j]
    BY <1>1
  <2>3. Between(out[i], low, top)
    BY <2>1, <1>1, Widen, low <= low
  <2> HIDE DEF o
  <2> QED  BY <2>1, <2>2, <2>3
<1>4. /\ Between(s, low, top) /\ Before(w, s)
      /\ \A j \in 1..Len(out) : Before(out[j], s)
  <2>1. Between(s, low, top)
    BY <1>2, Widen, top <= top
  <2>2. Between(w, low, high) /\ \A j \in 1..Len(out) : Between(out[j], low, high)
    BY DEF Stream
  <2>3. Before(w, s)
    BY <2>2, BeforeNext
  <2>4. ASSUME NEW j \in 1..Len(out) PROVE Before(out[j], s)
    <3>1. out[j] \in Seq(0..MaxMade)
      OBVIOUS
    <3> QED  BY <2>2, <3>1, BeforeNext
  <2> QED  BY <2>1, <2>3, <2>4
<1>5. Joins(IF m = 1 THEN w ELSE o[m - 1], s)
  <2>1. CASE out = <<>>
    <3>1. m = 1 /\ EndsWith(w, high, pause)
      BY <2>1 DEF Stream
    <3> QED  BY <3>1 DEF EndsWith, Joins
  <2>2. CASE out # <<>>
    <3>1. m # 1 /\ o[m - 1] = out[Len(out)] /\ EndsWith(out[Len(out)], high, pause)
      BY <2>2, <1>1 DEF Stream
    <3> HIDE DEF o
    <3> QED  BY <3>1 DEF EndsWith, Joins
  <2> QED  BY <2>1, <2>2
<1>6. /\ o[m] # <<>> /\ InOrder(o[m]) /\ Between(o[m], low, top)
      /\ Before(w, o[m])
      /\ \A j \in 1..m - 1 : Before(o[j], o[m])
      /\ Joins(IF m = 1 THEN w ELSE o[m - 1], o[m])
  <2>1. \A j \in 1..m - 1 : Before(o[j], s)
    BY <1>1, <1>4
  <2> HIDE DEF o
  <2> QED  BY <1>1, <1>4, <1>5, <2>1
<1>7. EndsWith(IF o = <<>> THEN w ELSE o[Len(o)], top, p)
  BY <1>1
<1> HIDE DEF o
<1>8. \A i \in 1..Len(o) : i = m \/ i \in 1..Len(out)
  BY <1>1
<1>9. Stream(w, o, low, top, p)
  <2> HIDE DEF m
  <2> QED  BY <1>1, <1>2, <1>3, <1>6, <1>7, <1>8 DEF Stream
<1> QED  BY <1>9 DEF o

-----------------------------------------------------------------------------
(* The driver, as a record                                                  *)
Drivers ==
  [ pos : 0..ShmSize - 1, seen : Nat, kept : Nat, paused : BOOLEAN, out : Seq(Seq(0..MaxMade)) ]

(* Silence is in order.                                                     *)
LEMMA ZeroesOrder ==
  ASSUME NEW n \in Nat \ {0}, NEW low \in Nat
  PROVE  /\ Zeroes(n) \in Seq(0..MaxMade) /\ Zeroes(n) # <<>> /\ InOrder(Zeroes(n))
         /\ Zeroes(n)[1] = 0 /\ \A top \in Nat, p \in BOOLEAN : EndsWith(Zeroes(n), top, p)
         /\ \A top \in Nat : Between(Zeroes(n), low, top)
<1>1. Zeroes(n) \in Seq({0}) /\ Len(Zeroes(n)) = n /\ \A i \in 1..n : Zeroes(n)[i] = 0
  BY DEF Zeroes
<1>2. 0 \in 0..MaxMade
  BY RingAssumption
<1>3. Zeroes(n) \in Seq(0..MaxMade)
  BY <1>2 DEF Zeroes
<1> QED  BY <1>1, <1>3 DEF InOrder, EndsWith, Between

(* Silence: sent, or kept back when the driver has paused                   *)
LEMMA ZeroesSent ==
  ASSUME NEW d \in Drivers, NEW size \in Nat \ {0}, NEW w \in Seq(0..MaxMade), NEW low \in Nat,
         NEW high \in Nat, Stream(w, d.out, low, high, d.paused), NEW e, e = PlayZeroes(d, size)
  PROVE  /\ e \in Drivers /\ e.pos = (d.pos + size) % ShmSize
         /\ Stream(w, e.out, low, high, e.paused)
<1>1. (d.pos + size) % ShmSize \in 0..ShmSize - 1
  BY Sizes DEF Drivers
<1>2. CASE d.paused
  <2>1. PICK n \in Nat : e = [d EXCEPT !.pos = (d.pos + size) % ShmSize, !.kept = n]
    <3>1. (IF d.kept < PauseSafety THEN d.kept + size ELSE d.kept) \in Nat
      BY RingAssumption, SMTT(30) DEF Drivers
    <3>2. e = [d EXCEPT !.pos = (d.pos + size) % ShmSize,
                        !.kept = IF d.kept < PauseSafety THEN d.kept + size ELSE d.kept]
      BY <1>2 DEF PlayZeroes, Drivers
    <3> QED  BY <3>1, <3>2
  <2> QED  BY <1>1, <1>2, <2>1 DEF Drivers
<1>3. CASE ~d.paused
  <2>1. PICK n \in Nat, p \in BOOLEAN :
          e = [d EXCEPT !.pos = (d.pos + size) % ShmSize, !.seen = n, !.paused = p,
                        !.out = Append(d.out, Zeroes(size))]
    <3>1. d.seen + size \in Nat /\ (d.seen + size >= PauseAfter) \in BOOLEAN
      BY RingAssumption, SMTT(30) DEF Drivers
    <3>2. e = [d EXCEPT !.pos = (d.pos + size) % ShmSize, !.seen = d.seen + size,
                        !.paused = (d.seen + size >= PauseAfter),
                        !.out = Append(d.out, Zeroes(size))]
      BY <1>3 DEF PlayZeroes, Drivers
    <3> QED  BY <3>1, <3>2, Zenon
  <2>2. /\ e.pos = (d.pos + size) % ShmSize /\ e.seen = n /\ e.paused = p
        /\ e.kept = d.kept /\ e.out = Append(d.out, Zeroes(size))
        /\ e = [pos |-> e.pos, seen |-> e.seen, kept |-> e.kept, paused |-> e.paused, out |-> e.out]
    BY <2>1 DEF Drivers
  <2>3. d.out \in Seq(Seq(0..MaxMade)) /\ d.kept \in Nat
    BY DEF Drivers
  <2>4. Zeroes(size) \in Seq(0..MaxMade) /\ Append(d.out, Zeroes(size)) \in Seq(Seq(0..MaxMade))
    BY <2>3, ZeroesOrder
  <2>5. e \in Drivers
    BY <1>1, <2>2, <2>3, <2>4 DEF Drivers
  <2>6. d.paused \in BOOLEAN
    BY DEF Drivers
  <2>7. Stream(w, Append(d.out, Zeroes(size)), low, high, p)
    <3> DEFINE s == Zeroes(size)
    <3>1. /\ s \in Seq(0..MaxMade) /\ s # <<>> /\ InOrder(s) /\ s[1] = 0
          /\ EndsWith(s, high, p) /\ Between(s, high, high)
      BY ZeroesOrder
    <3> HIDE DEF s
    <3>2. Stream(w, Append(d.out, s), low, high, p)
      BY <2>3, <2>6, <3>1, StreamGrows, high <= high
    <3> QED  BY <3>2 DEF s
  <2> QED  BY <2>2, <2>5, <2>7
<1> QED  BY <1>2, <1>3 DEF Drivers

(* The smaller of two numbers                                               *)
LEMMA MinOfTwo ==
  ASSUME NEW a \in Int, NEW b \in Int
  PROVE  Min({a, b}) = IF a <= b THEN a ELSE b
BY DEF Min

(* Samples that were made one after the other                               *)
LEMMA NumbersOrder ==
  ASSUME NEW s \in Seq(0..MaxMade), NEW high \in Nat, NEW n \in Nat \ {0}, Len(s) = n,
         \A i \in 1..n : s[i] = high + i
  PROVE  /\ s # <<>> /\ InOrder(s) /\ s[1] = high + 1
         /\ Between(s, high, high + n) /\ EndsWith(s, high + n, FALSE)
<1>1. s # <<>> /\ s[1] = high + 1
  OBVIOUS
<1>2. InOrder(s)
  BY DEF InOrder
<1>3. Between(s, high, high + n)
  BY DEF Between
<1>4. EndsWith(s, high + n, FALSE)
  BY DEF EndsWith
<1> QED  BY <1>1, <1>2, <1>3, <1>4

(* A stream for a driver that pauses is one for a driver that does not.     *)
LEMMA LessPaused ==
  ASSUME NEW w, NEW out, NEW low, NEW high, NEW p \in BOOLEAN, Stream(w, out, low, high, p)
  PROVE  Stream(w, out, low, high, FALSE)
BY DEF Stream, EndsWith

(* From pos on, n samples are numbered from low + 1.                        *)
Numbered(ring, pos, n, low) == \A k \in 0..n - 1 : ring[(pos + k) % ShmSize] = low + k + 1

(* Sound: the piece up to the end of the ring, and the one from its start   *)
LEMMA PiecesGrow ==
  ASSUME NEW pos \in 0..ShmSize - 1, NEW size \in 1..ShmSize,
         NEW w \in Seq(0..MaxMade), NEW out \in Seq(Seq(0..MaxMade)), NEW low \in Nat,
         NEW high \in Nat, Stream(w, out, low, high, FALSE), high + size <= MaxMade,
         NEW ring, Numbered(ring, pos, size, high)
  PROVE  /\ out \o Pieces(ring, pos, size) \in Seq(Seq(0..MaxMade))
         /\ Stream(w, out \o Pieces(ring, pos, size), low, high + size, FALSE)
<1> DEFINE first == Min({size, ShmSize - pos})
           p1 == FromRing(ring, ShmSize, pos, first)
           p2 == FromRing(ring, ShmSize, 0, size - first)
           o2 == Append(out, p1)
           o3 == IF p2 = <<>> THEN o2 ELSE Append(o2, p2)
<1> HIDE DEF first, p1, p2, o2, o3
<1>1. ShmSize \in Nat \ {0} /\ size \in Nat \ {0} /\ MaxMade \in Nat /\ pos \in Nat
  BY Sizes
<1>2. first \in 1..size /\ pos + first <= ShmSize /\ (first < size => pos + first = ShmSize)
  <2>1. first = IF size <= ShmSize - pos THEN size ELSE ShmSize - pos
    <3>1. size \in Int /\ ShmSize - pos \in Int
      BY <1>1
    <3> QED  BY <3>1, MinOfTwo DEF first
  <2> QED  BY <1>1, <2>1
<1>3. /\ p1 \in Seq(0..MaxMade) /\ Len(p1) = first
      /\ \A i \in 1..first : p1[i] = high + i
  <2>1. ASSUME NEW i \in 1..first
        PROVE  ring[(pos + i - 1) % ShmSize] = high + i /\ high + i \in 0..MaxMade
    <3>1. i - 1 \in 0..size - 1 /\ pos + (i - 1) = pos + i - 1
      BY <1>1, <1>2
    <3>2. ring[(pos + (i - 1)) % ShmSize] = high + (i - 1) + 1
      BY <3>1 DEF Numbered
    <3>3. high + (i - 1) + 1 = high + i /\ high + i \in 0..MaxMade
      BY <1>1, <1>2
    <3> QED  BY <3>1, <3>2, <3>3
  <2>2. p1 = [i \in 1..first |-> high + i]
    BY <2>1 DEF FromRing, p1
  <2>3. first \in Nat /\ \A i \in 1..first : high + i \in 0..MaxMade
    BY <1>1, <1>2
  <2> QED  BY <2>2, <2>3
<1>4. /\ p2 \in Seq(0..MaxMade) /\ Len(p2) = size - first
      /\ \A i \in 1..size - first : p2[i] = high + first + i
  <2>1. ASSUME NEW i \in 1..size - first
        PROVE  ring[(0 + i - 1) % ShmSize] = high + first + i /\ high + first + i \in 0..MaxMade
    <3>1. /\ first + i - 1 \in 0..size - 1 /\ pos + (first + i - 1) = ShmSize + (i - 1)
          /\ i - 1 \in 0..ShmSize - 1 /\ 0 + i - 1 = i - 1
      BY <1>1, <1>2
    <3>2. (ShmSize + (i - 1)) % ShmSize = i - 1
      BY <1>1, <3>1, ModSame
    <3>3. (i - 1) % ShmSize = i - 1
      BY <1>1, <3>1, ModSame
    <3>4. ring[(pos + (first + i - 1)) % ShmSize] = high + (first + i - 1) + 1
      BY <3>1 DEF Numbered
    <3>5. high + (first + i - 1) + 1 = high + first + i /\ high + first + i \in 0..MaxMade
      BY <1>1, <1>2
    <3> QED  BY <3>1, <3>2, <3>3, <3>4, <3>5
  <2>2. size - first \in Nat
    BY <1>1, <1>2
  <2>3. p2 = [i \in 1..size - first |-> high + first + i]
    BY <2>1 DEF FromRing, p2
  <2>4. \A i \in 1..size - first : high + first + i \in 0..MaxMade
    BY <2>1
  <2> DEFINE m == size - first
             v(i) == high + first + i
  <2> HIDE DEF m, v
  <2>5. m \in Nat /\ p2 = [i \in 1..m |-> v(i)] /\ \A i \in 1..m : v(i) \in 0..MaxMade
    BY <2>2, <2>3, <2>4 DEF m, v
  <2>6. p2 \in Seq(0..MaxMade) /\ Len(p2) = m /\ \A i \in 1..m : p2[i] = v(i)
    BY <2>5
  <2> QED  BY <2>6 DEF m, v
<1>5. Stream(w, o2, low, high + first, FALSE) /\ o2 \in Seq(Seq(0..MaxMade))
  <2>0. first \in Nat \ {0}
    BY <1>1, <1>2
  <2>1. /\ p1 # <<>> /\ InOrder(p1) /\ p1[1] = high + 1
        /\ Between(p1, high, high + first) /\ EndsWith(p1, high + first, FALSE)
    BY <2>0, <1>3, NumbersOrder
  <2>2. high + first \in Nat /\ high <= high + first
    BY <2>0
  <2>3. Stream(w, Append(out, p1), low, high + first, FALSE)
    BY <1>3, <2>1, <2>2, StreamGrows
  <2>4. Append(out, p1) \in Seq(Seq(0..MaxMade))
    BY <1>3
  <2> QED  BY <2>3, <2>4 DEF o2
<1>6. Stream(w, o3, low, high + size, FALSE) /\ o3 \in Seq(Seq(0..MaxMade))
  <2>1. CASE p2 = <<>>
    <3>1. size = first
      BY <1>1, <1>2, <1>4, <2>1
    <3> QED  BY <1>5, <2>1, <3>1 DEF o3
  <2>2. CASE p2 # <<>>
    <3>1. size - first \in Nat \ {0}
      BY <1>1, <1>2, <1>4, <2>2
    <3>2. /\ InOrder(p2) /\ p2[1] = high + first + 1 /\ high + first \in Nat
          /\ Between(p2, high + first, high + size) /\ EndsWith(p2, high + size, FALSE)
      <4>1. high + first + (size - first) = high + size /\ high + first \in Nat
        BY <1>1, <1>2
      <4> QED  BY <1>4, <3>1, <4>1, NumbersOrder
    <3>3. high + size \in Nat /\ high + first <= high + size
      BY <1>1, <1>2
    <3>4. Stream(w, Append(o2, p2), low, high + size, FALSE)
      BY <1>4, <1>5, <2>2, <3>2, <3>3, StreamGrows
    <3>5. Append(o2, p2) \in Seq(Seq(0..MaxMade))
      BY <1>4, <1>5
    <3> QED  BY <2>2, <3>4, <3>5 DEF o3
  <2> QED  BY <2>1, <2>2
<1>7. out \o Pieces(ring, pos, size) = o3
  <2>1. Pieces(ring, pos, size) = <<p1>> \o (IF p2 = <<>> THEN <<>> ELSE <<p2>>)
    BY DEF Pieces, p1, p2, first
  <2>2. out \o (<<p1>> \o (IF p2 = <<>> THEN <<>> ELSE <<p2>>))
        = IF p2 = <<>> THEN Append(out, p1) ELSE Append(Append(out, p1), p2)
    <3>1. CASE p2 = <<>>
      BY <1>3, <3>1
    <3>2. CASE p2 # <<>>
      <4>1. out \o (<<p1>> \o <<p2>>) = Append(Append(out, p1), p2)
        BY <1>3, <1>4
      <4> QED  BY <3>2, <4>1
    <3> QED  BY <3>1, <3>2
  <2> QED  BY <2>1, <2>2 DEF o2, o3
<1> QED  BY <1>6, <1>7

(* What the driver sends for a stretch of sound                             *)
LEMMA RealSent ==
  ASSUME NEW d \in Drivers, NEW size \in 1..ShmSize, NEW w \in Seq(0..MaxMade), NEW low \in Nat,
         NEW high \in Nat, Stream(w, d.out, low, high, d.paused), high + size <= MaxMade,
         NEW ring, Numbered(ring, d.pos, size, high), NEW e, e = PlayReal(d, ring, size)
  PROVE  /\ e \in Drivers /\ e.pos = (d.pos + size) % ShmSize
         /\ Stream(w, e.out, low, high + size, e.paused)
<1> DEFINE kept == d.kept
           z == Zeroes(kept)
           out == d.out
           o1 == out \o (IF kept > 0 THEN <<z>> ELSE <<>>)
           o2 == o1 \o Pieces(ring, d.pos, size)
<1> HIDE DEF kept, z, out, o1, o2
<1>1. /\ d.pos \in 0..ShmSize - 1 /\ out \in Seq(Seq(0..MaxMade)) /\ kept \in Nat
      /\ Stream(w, out, low, high, FALSE)
  <2>1. Stream(w, out, low, high, d.paused) /\ d.paused \in BOOLEAN
    BY DEF out, Drivers
  <2> QED  BY <2>1, LessPaused DEF Drivers, out, kept
<1>2. Stream(w, o1, low, high, FALSE) /\ o1 \in Seq(Seq(0..MaxMade))
  <2>1. CASE kept > 0
    <3>1. /\ z \in Seq(0..MaxMade) /\ z # <<>> /\ InOrder(z) /\ z[1] = 0
          /\ EndsWith(z, high, FALSE) /\ Between(z, high, high)
      <4>1. kept \in Nat \ {0}
        BY <1>1, <2>1
      <4> QED  BY <4>1, ZeroesOrder DEF z
    <3>2. o1 = Append(out, z) /\ o1 \in Seq(Seq(0..MaxMade))
      BY <1>1, <2>1, <3>1 DEF o1
    <3> QED  BY <1>1, <3>1, <3>2, StreamGrows, high <= high
  <2>2. CASE ~(kept > 0)
    <3>1. o1 = out
      BY <1>1, <2>2 DEF o1
    <3> QED  BY <1>1, <3>1
  <2> QED  BY <2>1, <2>2
<1>3. o2 \in Seq(Seq(0..MaxMade)) /\ Stream(w, o2, low, high + size, FALSE)
  BY <1>1, <1>2, PiecesGrow DEF o2
<1>4. e = [d EXCEPT !.pos = (d.pos + size) % ShmSize, !.seen = 0, !.kept = 0, !.paused = FALSE,
                    !.out = o2]
  BY DEF PlayReal, Drivers, o2, o1, z, out, kept
<1>5. (d.pos + size) % ShmSize \in 0..ShmSize - 1
  BY <1>1, Sizes
<1>6. /\ e.pos = (d.pos + size) % ShmSize /\ e.seen = 0 /\ e.kept = 0 /\ e.paused = FALSE
      /\ e.out = o2
      /\ e = [pos |-> e.pos, seen |-> e.seen, kept |-> e.kept, paused |-> e.paused, out |-> e.out]
  BY <1>4 DEF Drivers
<1>7. e \in Drivers
  <2>1. e.pos \in 0..ShmSize - 1 /\ e.seen \in Nat /\ e.kept \in Nat /\ e.paused \in BOOLEAN
        /\ e.out \in Seq(Seq(0..MaxMade))
    <3>1. e.pos \in 0..ShmSize - 1
      BY <1>5, <1>6
    <3>2. e.seen \in Nat /\ e.kept \in Nat
      BY <1>6
    <3>3. e.paused \in BOOLEAN
      BY <1>6
    <3>4. e.out \in Seq(Seq(0..MaxMade))
      BY <1>3, <1>6
    <3> QED  BY <3>1, <3>2, <3>3, <3>4
  <2> QED  BY <1>6, <2>1 DEF Drivers
<1> QED  BY <1>3, <1>6, <1>7

(* What is unread in the driver's ring is a sequence.                        *)
LEMMA UnreadIs ==
  ASSUME NEW wr \in 0..RebufSize - 1, NEW rd \in 0..RebufSize - 1,
         NEW ring \in [0..RebufSize - 1 -> 0..MaxMade]
  PROVE  /\ Away(wr, rd) \in 0..RebufSize - 1
         /\ Away(wr, rd) = IF wr >= rd THEN wr - rd ELSE wr + RebufSize - rd
         /\ Unread(ring, wr, rd) \in Seq(0..MaxMade) /\ Len(Unread(ring, wr, rd)) = Away(wr, rd)
         /\ \A k \in 1..Away(wr, rd) : Unread(ring, wr, rd)[k] = ring[(rd + k - 1) % RebufSize]
<1> DEFINE n == Away(wr, rd)
           v(k) == ring[(rd + k - 1) % RebufSize]
<1> HIDE DEF n, v
<1>1. RebufSize \in Nat \ {0}
  BY Sizes
<1>2. n = IF wr >= rd THEN wr - rd ELSE wr + RebufSize - rd
  <2> DEFINE x == IF wr >= rd THEN wr - rd ELSE wr + RebufSize - rd
  <2>1. x \in 0..RebufSize - 1 /\ wr + RebufSize - rd \in {x, RebufSize + x}
    BY <1>1
  <2> HIDE DEF x
  <2>2. (wr + RebufSize - rd) % RebufSize = x
    BY <1>1, <2>1, ModSame
  <2> QED  BY <2>2 DEF Away, n, x
<1>3. n \in 0..RebufSize - 1
  BY <1>1, <1>2
<1>4. ASSUME NEW k \in 1..n PROVE v(k) \in 0..MaxMade
  <2>1. rd + k - 1 \in Int
    BY <1>1, <1>3
  <2>2. (rd + k - 1) % RebufSize \in 0..RebufSize - 1
    BY <1>1, <2>1
  <2> QED  BY <2>2 DEF v
<1>5. Unread(ring, wr, rd) = [k \in 1..n |-> v(k)]
  BY DEF Unread, n, v
<1>6. /\ Unread(ring, wr, rd) \in Seq(0..MaxMade) /\ Len(Unread(ring, wr, rd)) = n
      /\ \A k \in 1..n : Unread(ring, wr, rd)[k] = v(k)
  BY <1>3, <1>4, <1>5
<1> QED  BY <1>2, <1>3, <1>6 DEF v, n

(* What waits, sample by sample                                             *)
LEMMA WaitingIs ==
  ASSUME RingTypeOK
  PROVE  /\ Dist \in 0..RebufSize - 1
         /\ Dist = IF macWr >= macRd THEN macWr - macRd ELSE macWr + RebufSize - macRd
         /\ Waiting \in Seq(0..MaxMade) /\ Len(Waiting) = Dist
         /\ \A k \in 1..Dist : Waiting[k] = rebuf[(macRd + k - 1) % RebufSize]
BY UnreadIs DEF RingTypeOK, Dist, Waiting

(* The same after a step                                                    *)
LEMMA WaitingNext ==
  ASSUME RingTypeOK'
  PROVE  /\ Dist' \in 0..RebufSize - 1
         /\ Dist' = IF macWr' >= macRd' THEN macWr' - macRd' ELSE macWr' + RebufSize - macRd'
         /\ Waiting' \in Seq(0..MaxMade) /\ Len(Waiting') = Dist'
         /\ \A k \in 1..Dist' : Waiting'[k] = rebuf'[(macRd' + k - 1) % RebufSize]
BY UnreadIs DEF RingTypeOK, Dist, Waiting

(* What the driver sends for either kind                                    *)
LEMMA SoundSent ==
  ASSUME NEW d \in Drivers, NEW real \in BOOLEAN, NEW enough \in Nat \ {0},
         NEW size \in 0..ShmSize, NEW w \in Seq(0..MaxMade), NEW low \in Nat, NEW high \in Nat,
         Stream(w, d.out, low, high, d.paused), NEW ring,
         real => high + size <= MaxMade /\ Numbered(ring, d.pos, size, high),
         NEW e, e = SendSound(d, ring, real, size, enough)
  PROVE  /\ e \in Drivers
         /\ size >= enough => e.pos = (d.pos + size) % ShmSize
         /\ size < enough => e = d
         /\ Stream(w, e.out, low, IF real /\ size >= enough THEN high + size ELSE high, e.paused)
<1>1. ShmSize \in Nat
  BY Sizes
<1>2. CASE size < enough
  <2>1. e = d /\ ~(size >= enough)
    BY <1>1, <1>2 DEF SendSound
  <2> QED  BY <1>2, <2>1
<1>3. CASE size >= enough /\ real
  <2>1. e = PlayReal(d, ring, size) /\ size \in 1..ShmSize /\ ~(size < enough)
    BY <1>1, <1>3 DEF SendSound
  <2>2. high + size <= MaxMade /\ Numbered(ring, d.pos, size, high)
    BY <1>3
  <2>3. /\ e \in Drivers /\ e.pos = (d.pos + size) % ShmSize
        /\ Stream(w, e.out, low, high + size, e.paused)
    BY <2>1, <2>2, RealSent
  <2> QED  BY <1>3, <2>1, <2>3
<1>4. CASE size >= enough /\ ~real
  <2>1. e = PlayZeroes(d, size) /\ size \in Nat \ {0} /\ ~(size < enough)
    BY <1>1, <1>4 DEF SendSound
  <2> QED  BY <1>4, <2>1, ZeroesSent
<1> QED  BY <1>1, <1>2, <1>3, <1>4

(* One step around a ring                                                   *)
LEMMA Around ==
  ASSUME NEW n \in Nat \ {0}, NEW p \in 0..n - 1, NEW k \in 0..n - 1
  PROVE  (p + k) % n = IF p + k < n THEN p + k ELSE p + k - n
OBVIOUS

-----------------------------------------------------------------------------
(* sound_play                                                               *)
LEMMA PlayKeeps ==
  ASSUME IInv, NEW real \in BOOLEAN, NEW n \in Plays, Play(real, n)
  PROVE  IInv'
<1> DEFINE N == ShmSize
           ring == [i \in 0..N - 1 |->
                      LET k == (i + N - shmPos) % N
                      IN  IF real /\ k < n THEN made + k + 1 ELSE shm[i]]
           other == IF real THEN nonsamps ELSE samps
           old   == IF real THEN samps ELSE nonsamps
           same  == n + old
           left  == IF same >= Quantum THEN 0 ELSE same
           d1    == SendSound(Driver, ring, ~real, other, 1)
           d2    == SendSound(d1, ring, real, same, Quantum)
           top   == IF real THEN made - samps ELSE made
           top2  == IF real /\ same >= Quantum THEN top + same ELSE top
<1> HIDE DEF N, ring, other, old, same, left, d1, d2, top, top2
<1>1. /\ sending = <<>> /\ made + n <= MaxMade
      /\ made' = IF real THEN made + n ELSE made
      /\ shm' = ring /\ shmPos' = (shmPos + n) % N
      /\ samps' = IF real THEN left ELSE 0
      /\ nonsamps' = IF real THEN 0 ELSE left
      /\ childPos' = d2.pos /\ zeroesSeen' = d2.seen /\ zeroesBuffered' = d2.kept
      /\ paused' = d2.paused /\ sending' = d2.out
      /\ UNCHANGED <<copied, macWr, rebuf, macRd, playing, avail, asked, last>>
  BY DEF Play, callVars, N, ring, other, old, same, left, d1, d2
<1>2. /\ N \in Nat \ {0} /\ Quantum \in Nat \ {0} /\ MaxMade \in Nat
      /\ n \in 1..N - Quantum /\ N = ShmSize
  BY Sizes, RingAssumption DEF N
<1>3. /\ made \in Nat /\ samps \in Nat /\ nonsamps \in Nat /\ samps <= made
      /\ samps + nonsamps < Quantum /\ (samps = 0 \/ nonsamps = 0)
      /\ childPos \in 0..N - 1 /\ shmPos \in 0..N - 1
      /\ shm \in [0..N - 1 -> 0..MaxMade] /\ last \in Nat
  <2>1. made \in 0..MaxMade /\ last \in 0..MaxMade
    BY DEF IInv, RingTypeOK
  <2>2. samps \in Nat /\ nonsamps \in Nat
    BY DEF IInv, RingTypeOK
  <2>3. childPos \in 0..N - 1 /\ shmPos \in 0..N - 1 /\ shm \in [0..N - 1 -> 0..MaxMade]
    BY DEF IInv, RingTypeOK, N
  <2>4. samps <= made /\ samps + nonsamps < Quantum /\ (samps = 0 \/ nonsamps = 0)
    BY DEF IInv, QueueOK
  <2> QED  BY <1>2, <2>1, <2>2, <2>3, <2>4
<1>4. /\ other \in 0..Quantum - 1 /\ old \in 0..Quantum - 1 /\ other + old < Quantum
      /\ same = n + old /\ same \in 1..N - 1 /\ (other = 0 \/ old = 0)
      /\ other + old = samps + nonsamps /\ left \in 0..Quantum - 1
      /\ left = IF same >= Quantum THEN 0 ELSE same
  BY <1>2, <1>3 DEF other, old, same, left
<1>5. shmPos = (childPos + (other + old)) % N
  <2>1. childPos + samps + nonsamps = childPos + (other + old)
    BY <1>3, <1>4
  <2> QED  BY <2>1 DEF IInv, QueueOK, N
<1>6. Driver \in Drivers /\ Driver.pos = childPos /\ Driver.out = <<>> /\ Driver.paused = paused
  <2>1. /\ childPos \in 0..ShmSize - 1 /\ zeroesSeen \in Nat /\ zeroesBuffered \in Nat
        /\ paused \in BOOLEAN /\ sending \in Seq(Seq(0..MaxMade))
    BY DEF IInv, RingTypeOK
  <2>2. Driver = [pos |-> childPos, seen |-> zeroesSeen, kept |-> zeroesBuffered,
                  paused |-> paused, out |-> sending]
    BY DEF Driver
  <2> QED  BY <1>1, <2>1, <2>2 DEF Drivers
<1>7. ring \in [0..N - 1 -> 0..MaxMade]
  <2>1. ASSUME NEW i \in 0..N - 1, NEW k \in Int, k < n, k >= 0, real
        PROVE  made + k + 1 \in 0..MaxMade
    BY <1>1, <1>2, <1>3, <2>1
  <2>2. ASSUME NEW i \in 0..N - 1 PROVE (i + N - shmPos) % N \in 0..N - 1
    <3>1. i + N - shmPos \in Int
      BY <1>2, <1>3
    <3> QED  BY <1>2, <3>1
  <2>3. ASSUME NEW i \in 0..N - 1
        PROVE  (LET k == (i + N - shmPos) % N
                IN  IF real /\ k < n THEN made + k + 1 ELSE shm[i]) \in 0..MaxMade
    <3> DEFINE k == (i + N - shmPos) % N
    <3>1. k \in 0..N - 1
      BY <2>2
    <3> HIDE DEF k
    <3>2. (IF real /\ k < n THEN made + k + 1 ELSE shm[i]) \in 0..MaxMade
      <4>1. k \in Int /\ k >= 0 /\ shm[i] \in 0..MaxMade
        BY <1>2, <1>3, <3>1
      <4>2. real /\ k < n => made + k + 1 \in 0..MaxMade
        BY <2>1, <4>1
      <4> QED  BY <4>1, <4>2, Zenon
    <3> QED  BY <3>2 DEF k
  <2> QED  BY <2>3 DEF ring
<1>8. ~real => ring = shm
  BY <1>3 DEF ring
<1>9. top \in Nat /\ (real => top = made - samps) /\ (~real => top = made - samps + other)
  BY <1>3, <1>4 DEF top, other
<1>10. Waiting \in Seq(0..MaxMade)
  BY WaitingIs DEF IInv
<1>11. Stream(Waiting, Driver.out, last, made - samps, Driver.paused)
  BY <1>1, <1>6 DEF IInv
(* What is queued of the other kind is sent.                                *)
<1>12. /\ d1 \in Drivers /\ d1.pos = (childPos + other) % N
       /\ Stream(Waiting, d1.out, last, top, d1.paused)
  <2>1. ~real => Numbered(ring, Driver.pos, other, made - samps)
    BY <1>6, <1>8 DEF IInv, QueueOK, Numbered, other
  <2>2. ~real => made - samps + other <= MaxMade
    BY <1>1, <1>2, <1>3, <1>9 DEF top
  <2>3. other \in 0..ShmSize /\ made - samps \in Nat /\ 1 \in Nat \ {0}
    BY <1>2, <1>3, <1>4
  <2>4. /\ d1 \in Drivers
        /\ other >= 1 => d1.pos = (childPos + other) % N
        /\ other < 1 => d1 = Driver
        /\ Stream(Waiting, d1.out, last, IF ~real /\ other >= 1 THEN made - samps + other
                                         ELSE made - samps, d1.paused)
    <3> DEFINE r == ~real
               high == made - samps
    <3>1. d1 = SendSound(Driver, ring, r, other, 1)
      BY DEF d1
    <3>2. r \in BOOLEAN /\ (r => high + other <= MaxMade /\ Numbered(ring, Driver.pos, other, high))
      BY <2>1, <2>2
    <3>3. high \in Nat /\ Stream(Waiting, Driver.out, last, high, Driver.paused)
      BY <1>11, <2>3
    <3>4. Driver \in Drivers /\ last \in Nat /\ Driver.pos = childPos
      BY <1>3, <1>6
    <3> HIDE DEF r, high
    <3>5. /\ d1 \in Drivers
          /\ other >= 1 => d1.pos = (Driver.pos + other) % ShmSize
          /\ other < 1 => d1 = Driver
          /\ Stream(Waiting, d1.out, last, IF r /\ other >= 1 THEN high + other ELSE high, d1.paused)
      BY <1>10, <2>3, <3>1, <3>2, <3>3, <3>4, SoundSent
    <3> QED  BY <1>2, <3>4, <3>5 DEF r, high
  <2>5. (IF ~real /\ other >= 1 THEN made - samps + other ELSE made - samps) = top
    BY <1>3, <1>4, <1>9
  <2>6. other < 1 => d1.pos = (childPos + other) % N
    <3>1. other < 1 => d1.pos = childPos /\ childPos + other = childPos
      BY <1>3, <1>4, <1>6, <2>4
    <3>2. childPos % N = childPos
      BY <1>2, <1>3, ModSame
    <3> QED  BY <3>1, <3>2
  <2> QED  BY <1>4, <2>4, <2>5, <2>6
<1>13. d1.pos \in 0..N - 1
  BY <1>2, <1>12 DEF Drivers
<1>14. shmPos = (d1.pos + old) % N
  <2>1. (((childPos + other) % N) + old) % N = ((childPos + other) + old) % N
    <3>1. childPos + other \in 0..2 * N - 1 /\ old \in 0..N
      BY <1>2, <1>3, <1>4
    <3> QED  BY <1>2, <3>1, ModAdd
  <2>2. (childPos + other) + old = childPos + (other + old)
    BY <1>3, <1>4
  <2> QED  BY <1>5, <1>12, <2>1, <2>2
(* In the ring are the samples that were queued, then the new ones.         *)
<1>15. real => Numbered(ring, d1.pos, same, top)
  <2> SUFFICES ASSUME real, NEW k \in 0..same - 1
               PROVE  ring[(d1.pos + k) % N] = top + k + 1
    BY <1>2 DEF Numbered
  <2> DEFINE q == (d1.pos + k) % N
             far == (q + N - shmPos) % N
  <2> HIDE DEF q, far
  <2>1. far = IF k >= old THEN k - old ELSE N + k - old
    <3>1. k \in 0..N - 1 /\ old \in 0..N - 1
      BY <1>2, <1>4
    <3> DEFINE p == d1.pos
    <3> HIDE DEF p
    <3>2. p \in 0..N - 1 /\ shmPos = (p + old) % N /\ q = (p + k) % N
      BY <1>13, <1>14 DEF p, q
    <3>3. N \in Nat \ {0}
      BY <1>2
    <3>4. /\ q = IF p + k < N THEN p + k ELSE p + k - N
          /\ shmPos = IF p + old < N THEN p + old ELSE p + old - N
      BY <3>1, <3>2, <3>3, Around
    <3> DEFINE x == IF k >= old THEN k - old ELSE N + k - old
    <3>5. x \in 0..N - 1 /\ (q + N - shmPos = x \/ q + N - shmPos = N + x)
      <4>1. k >= 0 /\ k < N /\ old >= 0 /\ old < N /\ p >= 0 /\ p < N /\ k \in Int /\ old \in Int
            /\ p \in Int /\ N \in Int
        BY <3>1, <3>2, <3>3
      <4> QED  BY <3>4, <4>1
    <3> HIDE DEF x
    <3>6. (q + N - shmPos) % N = x
      BY <3>3, <3>5, ModSame
    <3> QED  BY <3>6 DEF far, x
  <2>2. q \in 0..N - 1
    <3>1. d1.pos + k \in Int
      BY <1>13, <1>4
    <3> QED  BY <1>2, <3>1 DEF q
  <2>3. ring[q] = IF far < n THEN made + far + 1 ELSE shm[q]
    BY <2>2 DEF ring, far
  <2>4. old = samps /\ top = made - samps
    BY <1>9 DEF old
  <2>5. CASE k >= old
    <3>1. far < n /\ made + far + 1 = top + k + 1
      BY <1>2, <1>3, <1>4, <2>1, <2>4, <2>5
    <3> QED  BY <2>3, <3>1 DEF q
  <2>6. CASE k < old
    <3>1. ~(far < n)
      BY <1>2, <1>3, <1>4, <2>1, <2>6
    <3>2. other = 0 /\ d1.pos = childPos
      <4>1. other = 0 /\ childPos + other = childPos
        BY <1>3, <1>4, <2>6
      <4> QED  BY <1>2, <1>3, <1>12, <4>1, ModSame
    <3>3. shm[(childPos + k) % N] = made - samps + k + 1
      BY <1>2, <1>4, <2>4, <2>6 DEF IInv, QueueOK
    <3> QED  BY <2>3, <2>4, <3>1, <3>2, <3>3 DEF q
  <2> QED  BY <1>4, <2>5, <2>6
<1>16. /\ d2 \in Drivers
       /\ same >= Quantum => d2.pos = (d1.pos + same) % N
       /\ same < Quantum => d2 = d1
       /\ Stream(Waiting, d2.out, last, top2, d2.paused)
  <2>1. real => top + same <= MaxMade
    BY <1>1, <1>2, <1>3, <1>4, <1>9 DEF old
  <2>2. same \in 0..ShmSize
    BY <1>2, <1>4
  <2>3. d2 = SendSound(d1, ring, real, same, Quantum)
    BY DEF d2
  <2>4. d1 \in Drivers /\ Stream(Waiting, d1.out, last, top, d1.paused)
    BY <1>12
  <2>5. real => top + same <= MaxMade /\ Numbered(ring, d1.pos, same, top)
    BY <1>15, <2>1
  <2>6. Quantum \in Nat \ {0} /\ last \in Nat /\ top \in Nat
    BY <1>2, <1>3, <1>9
  <2>7. /\ d2 \in Drivers
        /\ same >= Quantum => d2.pos = (d1.pos + same) % ShmSize
        /\ same < Quantum => d2 = d1
        /\ Stream(Waiting, d2.out, last, IF real /\ same >= Quantum THEN top + same ELSE top, d2.paused)
    BY <1>10, <2>2, <2>3, <2>4, <2>5, <2>6, SoundSent
  <2> QED  BY <1>2, <2>7 DEF top2
<1>17. /\ samps' \in Nat /\ nonsamps' \in Nat /\ made' \in 0..MaxMade /\ made' - samps' = top2
       /\ samps' <= made' /\ samps' + nonsamps' = left /\ (samps' = 0 \/ nonsamps' = 0)
  BY <1>1, <1>2, <1>3, <1>4, <1>9 DEF old, top2
<1>18. shmPos' = (d2.pos + left) % N
  <2>1. shmPos' = (d1.pos + same) % N
    <3>1. (((d1.pos + old) % N) + n) % N = ((d1.pos + old) + n) % N
      <4>1. d1.pos + old \in 0..2 * N - 1 /\ n \in 0..N
        BY <1>2, <1>4, <1>13
      <4> QED  BY <1>2, <4>1, ModAdd
    <3>2. (d1.pos + old) + n = d1.pos + same
      BY <1>2, <1>4, <1>13
    <3> QED  BY <1>1, <1>14, <3>1, <3>2
  <2>2. CASE same >= Quantum
    <3>1. d2.pos = (d1.pos + same) % N /\ d2.pos \in 0..N - 1 /\ left = 0
      BY <1>2, <1>4, <1>16, <2>2 DEF Drivers
    <3>2. d2.pos % N = d2.pos /\ d2.pos + 0 = d2.pos
      BY <1>2, <3>1, ModSame
    <3> QED  BY <2>1, <3>1, <3>2
  <2>3. CASE same < Quantum
    <3>1. left = same /\ d2 = d1
      BY <1>2, <1>4, <1>16, <2>3
    <3> QED  BY <2>1, <3>1
  <2> QED  BY <1>2, <1>4, <2>2, <2>3
<1>19. \A k \in 0..samps' - 1 : shm'[(childPos' + k) % N] = made' - samps' + k + 1
  <2> SUFFICES ASSUME NEW k \in 0..samps' - 1
               PROVE  ring[(d2.pos + k) % N] = top2 + k + 1
    BY <1>1, <1>17
  <2>1. real /\ samps' = left /\ left # 0
    BY <1>1, <1>4
  <2>2. same < Quantum /\ left = same /\ d2 = d1 /\ top2 = top
    BY <1>2, <1>4, <1>16, <2>1 DEF top2
  <2> QED  BY <1>2, <1>15, <2>1, <2>2 DEF Numbered
<1>20. QueueOK'
  <2>1. childPos' + samps' + nonsamps' = d2.pos + left
    <3>1. d2.pos \in Nat
      BY <1>2, <1>16 DEF Drivers
    <3> QED  BY <1>1, <1>17, <3>1
  <2>2. samps' + nonsamps' < Quantum
    <3>1. left < Quantum
      BY <1>2, <1>4
    <3> QED  BY <1>17, <3>1
  <2>3. shmPos' = (childPos' + samps' + nonsamps') % ShmSize
    BY <1>2, <1>18, <2>1
  <2> QED  BY <1>2, <1>17, <1>19, <2>2, <2>3 DEF QueueOK
<1>21. RingTypeOK'
  <2>1. shmPos' \in 0..ShmSize - 1
    <3>1. shmPos + n \in Int
      BY <1>2, <1>3
    <3> QED  BY <1>1, <1>2, <3>1
  <2>2. /\ childPos' \in 0..ShmSize - 1 /\ zeroesSeen' \in Nat /\ zeroesBuffered' \in Nat
        /\ paused' \in BOOLEAN /\ sending' \in Seq(Seq(0..MaxMade))
    BY <1>1, <1>16 DEF Drivers
  <2>3. shm' \in [0..ShmSize - 1 -> 0..MaxMade]
    BY <1>1, <1>2, <1>7
  <2> QED  BY <1>1, <1>17, <2>1, <2>2, <2>3 DEF IInv, RingTypeOK
<1>22. RingOK'
  BY <1>1 DEF IInv, RingOK, Dist
<1>23. Stream(Waiting, sending, last, made - samps, paused)'
  <2>1. Waiting' = Waiting
    BY <1>1 DEF Waiting, Unread, Dist, Away
  <2>2. sending' = d2.out /\ last' = last /\ paused' = d2.paused
    BY <1>1
  <2>3. Stream(Waiting', sending', last', made' - samps', paused')
    BY <1>16, <1>17, <2>1, <2>2
  <2> QED  BY <2>3 DEF Stream
<1> QED  BY <1>20, <1>21, <1>22, <1>23 DEF IInv

-----------------------------------------------------------------------------
(* The driver's ring                                                        *)
LEMMA Far ==
  ASSUME NEW n \in Nat \ {0}, NEW p \in 0..n - 1, NEW s \in 0..n - 1, NEW k \in 0..n - 1,
         NEW a, a = IF p + k < n THEN p + k ELSE p + k - n,
         NEW b, b = IF p + s < n THEN p + s ELSE p + s - n
  PROVE  (a + n - b) % n = IF k >= s THEN k - s ELSE n + k - s
<1> DEFINE x == IF k >= s THEN k - s ELSE n + k - s
<1>1. x \in 0..n - 1 /\ (a + n - b = x \/ a + n - b = n + x)
  OBVIOUS
<1> HIDE DEF x
<1>2. (a + n - b) % n = x
  BY <1>1, ModSame
<1> QED  BY <1>2 DEF x

(* Where the writer is                                                      *)
LEMMA WriterIs ==
  ASSUME RingTypeOK
  PROVE  macWr = IF macRd + Dist < RebufSize THEN macRd + Dist ELSE macRd + Dist - RebufSize
<1>1. RebufSize \in Nat \ {0} /\ macWr \in 0..RebufSize - 1 /\ macRd \in 0..RebufSize - 1
  BY Sizes DEF RingTypeOK
<1>2. Dist = IF macWr >= macRd THEN macWr - macRd ELSE macWr + RebufSize - macRd
  BY WaitingIs
<1> QED  BY <1>1, <1>2

(* An entry of a sequence                                                   *)
LEMMA EntryOf ==
  ASSUME NEW T, NEW s \in Seq(T), NEW i \in 1..Len(s)
  PROVE  s[i] \in T
OBVIOUS

(* Where the samples of s go                                                *)
LEMMA FilledIs ==
  ASSUME RingTypeOK, NEW s \in Seq(0..MaxMade), NEW at \in 0..RebufSize - 1, Len(s) < RebufSize
  PROVE  /\ Filled(at, s) \in [0..RebufSize - 1 -> 0..MaxMade]
         /\ \A q \in 0..RebufSize - 1, k \in Int : k = (q + RebufSize - at) % RebufSize =>
              Filled(at, s)[q] = IF k < Len(s) THEN s[k + 1] ELSE rebuf[q]
<1>1. /\ RebufSize \in Nat \ {0}
      /\ rebuf \in [0..RebufSize - 1 -> 0..MaxMade]
      /\ Len(s) \in Nat
  <2>1. RebufSize \in Nat \ {0} /\ rebuf \in [0..RebufSize - 1 -> 0..MaxMade]
    BY Sizes, Zenon DEF RingTypeOK
  <2>2. Len(s) \in Nat
    OBVIOUS
  <2> QED  BY <2>1, <2>2
<1> DEFINE far(q) == (q + RebufSize - at) % RebufSize
           v(q) == IF far(q) < Len(s) THEN s[far(q) + 1] ELSE rebuf[q]
<1>2. Filled(at, s) = [q \in 0..RebufSize - 1 |-> v(q)]
  BY DEF Filled
<1>3. ASSUME NEW q \in 0..RebufSize - 1 PROVE far(q) \in 0..RebufSize - 1
  <2>1. q + RebufSize - at \in Int
    BY <1>1
  <2> QED  BY <1>1, <2>1
<1>4. ASSUME NEW q \in 0..RebufSize - 1 PROVE v(q) \in 0..MaxMade
  <2>1. far(q) \in 0..RebufSize - 1
    BY <1>3
  <2> HIDE DEF far
  <2>2. \A k \in 0..RebufSize - 1 : k < Len(s) => s[k + 1] \in 0..MaxMade
    <3> SUFFICES ASSUME NEW k \in 0..RebufSize - 1, k < Len(s) PROVE s[k + 1] \in 0..MaxMade
      OBVIOUS
    <3>1. k + 1 \in 1..Len(s)
      BY <1>1
    <3>2. \A j \in 1..Len(s) : s[j] \in 0..MaxMade
      BY EntryOf
    <3> QED  BY <3>1, <3>2
  <2>3. rebuf[q] \in 0..MaxMade
    BY <1>1
  <2> QED  BY <2>1, <2>2, <2>3
<1> HIDE DEF v
<1>5. Filled(at, s) \in [0..RebufSize - 1 -> 0..MaxMade]
  BY <1>2, <1>4
<1>6. ASSUME NEW q \in 0..RebufSize - 1, NEW k \in Int, k = far(q)
      PROVE  Filled(at, s)[q] = IF k < Len(s) THEN s[k + 1] ELSE rebuf[q]
  <2> HIDE DEF far
  <2> QED  BY <1>2, <1>6 DEF v
<1> QED  BY <1>5, <1>6

(* mac_send_audio copies a piece.                                           *)
LEMMA CopyKeeps ==
  ASSUME IInv, Copy
  PROVE  IInv'
<1> DEFINE s == Head(sending)
           R == RebufSize
<1> HIDE DEF s, R
<1>1. /\ sending # <<>> /\ ~copied /\ rebuf' = Filled(macWr, s) /\ copied'
      /\ UNCHANGED <<made, shm, shmPos, samps, nonsamps, childPos, zeroesSeen, zeroesBuffered,
                     paused, sending, macWr, macRd, playing, avail, asked, last>>
  BY DEF Copy, s, emuVars, driverVars, callVars
<1>2. Dist + Len(s) < R
  BY DEF Copy, Room, Dist, Away, s, R
<1>3. RingTypeOK /\ R \in Nat \ {0} /\ R = RebufSize /\ macWr \in 0..R - 1 /\ macRd \in 0..R - 1
  BY Sizes DEF IInv, RingTypeOK, R
<1>4. s \in Seq(0..MaxMade) /\ Len(s) \in Nat
  <2>1. sending \in Seq(Seq(0..MaxMade))
    BY <1>3 DEF RingTypeOK
  <2> QED  BY <1>1, <2>1 DEF s
<1>5. /\ Dist \in 0..R - 1 /\ Waiting \in Seq(0..MaxMade) /\ Len(Waiting) = Dist
      /\ \A k \in 1..Dist : Waiting[k] = rebuf[(macRd + k - 1) % R]
  BY <1>3, WaitingIs
<1>6. macWr = IF macRd + Dist < R THEN macRd + Dist ELSE macRd + Dist - R
  BY <1>3, WriterIs
<1>7. Len(s) < R
  BY <1>2, <1>3, <1>4, <1>5
<1>8. /\ rebuf' \in [0..R - 1 -> 0..MaxMade]
      /\ \A q \in 0..R - 1, k \in Int : k = (q + R - macWr) % R =>
           rebuf'[q] = IF k < Len(s) THEN s[k + 1] ELSE rebuf[q]
  BY <1>1, <1>3, <1>4, <1>7, FilledIs
<1>9. Dist' = Dist
  BY <1>1 DEF Dist
<1>10. ASSUME NEW k \in 1..Dist PROVE rebuf'[(macRd + k - 1) % R] = rebuf[(macRd + k - 1) % R]
  <2> DEFINE j == k - 1
             q == (macRd + j) % R
             far == (q + R - macWr) % R
  <2>1. j \in 0..R - 1 /\ macRd + k - 1 = macRd + j /\ j < Dist
    BY <1>3, <1>5
  <2> HIDE DEF j
  <2>2. q = (IF macRd + j < R THEN macRd + j ELSE macRd + j - R) /\ q \in 0..R - 1
    <3>1. q = IF macRd + j < R THEN macRd + j ELSE macRd + j - R
      BY <1>3, <2>1, Around
    <3> HIDE DEF q
    <3> QED  BY <1>3, <2>1, <3>1
  <2> HIDE DEF q
  <2>3. far = R + j - Dist
    <3>1. far = IF j >= Dist THEN j - Dist ELSE R + j - Dist
      <4>1. /\ R \in Nat \ {0} /\ macRd \in 0..R - 1 /\ Dist \in 0..R - 1 /\ j \in 0..R - 1
        BY <1>3, <1>5, <2>1
      <4>2. q = IF macRd + j < R THEN macRd + j ELSE macRd + j - R
        BY <2>2
      <4> QED  BY <1>6, <4>1, <4>2, Far
    <3> QED  BY <1>5, <2>1, <3>1
  <2> HIDE DEF far
  <2>4. far \in Int /\ ~(far < Len(s))
    BY <1>2, <1>3, <1>4, <1>5, <2>1, <2>3
  <2>5. far = (q + R - macWr) % R
    BY DEF far
  <2>6. rebuf'[q] = rebuf[q]
    BY <1>8, <2>2, <2>4, <2>5
  <2> QED  BY <2>1, <2>6 DEF q
<1>11. Waiting' = Waiting
  BY <1>1, <1>9, <1>10 DEF Waiting, Unread, Dist, R
<1>12. ASSUME NEW k \in 1..Len(s) PROVE rebuf'[(macWr + k - 1) % R] = s[k]
  <2> DEFINE j == k - 1
             q == (macWr + j) % R
             far == (q + R - macWr) % R
  <2>1. j \in 0..R - 1 /\ macWr + k - 1 = macWr + j /\ j + 1 = k /\ j \in Int /\ j < Len(s)
    BY <1>3, <1>4, <1>7
  <2> HIDE DEF j
  <2>2. q = (IF macWr + j < R THEN macWr + j ELSE macWr + j - R) /\ q \in 0..R - 1
    <3>1. q = IF macWr + j < R THEN macWr + j ELSE macWr + j - R
      BY <1>3, <2>1, Around
    <3> HIDE DEF q
    <3> QED  BY <1>3, <2>1, <3>1
  <2> HIDE DEF q
  <2>3. far = j
    <3>1. 0 \in 0..R - 1 /\ macWr = IF macWr + 0 < R THEN macWr + 0 ELSE macWr + 0 - R
      BY <1>3
    <3>2. far = IF j >= 0 THEN j - 0 ELSE R + j - 0
      <4>1. R \in Nat \ {0} /\ macWr \in 0..R - 1 /\ j \in 0..R - 1
        BY <1>3, <2>1
      <4>2. q = IF macWr + j < R THEN macWr + j ELSE macWr + j - R
        BY <2>2
      <4> HIDE DEF q
      <4> QED  BY <3>1, <4>1, <4>2, Far
    <3> QED  BY <2>1, <3>2
  <2>4. rebuf'[q] = s[j + 1]
    BY <1>8, <2>1, <2>2, <2>3
  <2> QED  BY <2>1, <2>4 DEF q
<1>13. RingOK'
  <2>1. Head(sending)' = s /\ sending' # <<>> /\ asked' = asked /\ avail' = avail /\ macWr' = macWr
    BY <1>1 DEF s
  <2>2. asked > 0 => avail <= Dist
    BY DEF IInv, RingOK
  <2> QED  BY <1>2, <1>3, <1>9, <1>12, <2>1, <2>2 DEF RingOK
<1>14. RingTypeOK'
  BY <1>1, <1>3, <1>8 DEF RingTypeOK
<1>15. QueueOK'
  BY <1>1 DEF IInv, QueueOK
<1>16. Stream(Waiting, sending, last, made - samps, paused)'
  <2>1. Stream(Waiting', sending', last', made' - samps', paused')
    BY <1>1, <1>11 DEF IInv
  <2> QED  BY <2>1 DEF Stream
<1> QED  BY <1>13, <1>14, <1>15, <1>16 DEF IInv

(* A piece that was sent becomes part of what waits.                        *)
LEMMA StreamMoves ==
  ASSUME NEW w \in Seq(0..MaxMade), NEW out \in Seq(Seq(0..MaxMade)), out # <<>>,
         NEW low \in Nat, NEW high \in Nat, NEW p \in BOOLEAN, Stream(w, out, low, high, p),
         NEW v \in Seq(0..MaxMade), Len(v) = Len(w) + Len(out[1]),
         \A i \in 1..Len(w) : v[i] = w[i],
         \A i \in 1..Len(out[1]) : v[Len(w) + i] = out[1][i]
  PROVE  Stream(v, Tail(out), low, high, p)
<1> DEFINE s == out[1]
           m == Len(w)
           n == Len(s)
           o == Tail(out)
<1> HIDE DEF s, m, n, o
<1>1. /\ s \in Seq(0..MaxMade) /\ m \in Nat /\ n \in Nat /\ Len(v) = m + n
      /\ \A i \in 1..m : v[i] = w[i]
      /\ \A i \in 1..n : v[m + i] = s[i]
      /\ Len(s) = n /\ Len(w) = m
  BY DEF s, m, n
<1>2. /\ o \in Seq(Seq(0..MaxMade)) /\ Len(o) = Len(out) - 1 /\ Len(out) \in Nat \ {0}
      /\ \A i \in 1..Len(out) - 1 : o[i] = out[i + 1]
  BY DEF o
<1>3. /\ low <= high /\ InOrder(w) /\ Between(w, low, high)
      /\ s # <<>> /\ InOrder(s) /\ Between(s, low, high) /\ Before(w, s) /\ Joins(w, s)
  <2>1. 1 \in 1..Len(out)
    BY <1>2
  <2> QED  BY <2>1 DEF Stream, s
<1>4. n # 0
  BY <1>1, <1>3
<1>5. \A i \in 1..m + n : i \in 1..m \/ (i - m \in 1..n /\ i = m + (i - m))
  BY <1>1
<1>6. ASSUME NEW i \in 1..m + n
      PROVE  \/ i \in 1..m /\ v[i] = w[i]
             \/ i - m \in 1..n /\ v[i] = s[i - m]
  <2>1. CASE i \in 1..m
    BY <1>1, <2>1
  <2>2. CASE i - m \in 1..n /\ i = m + (i - m)
    <3> DEFINE k == i - m
    <3> HIDE DEF k
    <3>1. k \in 1..n /\ i = m + k
      BY <2>2 DEF k
    <3>2. v[i] = s[k]
      BY <1>1, <3>1
    <3> QED  BY <3>1, <3>2 DEF k
  <2> QED  BY <1>5, <2>1, <2>2
<1>7. Between(v, low, high)
  <2> SUFFICES ASSUME NEW i \in 1..m + n, v[i] # 0 PROVE low < v[i] /\ v[i] <= high
    BY <1>1 DEF Between
  <2>1. CASE i \in 1..m /\ v[i] = w[i]
    BY <1>1, <1>3, <2>1 DEF Between
  <2>2. CASE i - m \in 1..n /\ v[i] = s[i - m]
    BY <1>1, <1>3, <2>2 DEF Between
  <2> QED  BY <1>6, <2>1, <2>2
<1>8. InOrder(v)
  <2> SUFFICES ASSUME NEW i \in 1..m + n, NEW j \in 1..m + n, i < j, v[i] # 0, v[j] # 0
               PROVE  v[i] < v[j] /\ (j = i + 1 => v[j] = v[i] + 1)
    BY <1>1 DEF InOrder
  <2>1. CASE i \in 1..m /\ v[i] = w[i] /\ j \in 1..m /\ v[j] = w[j]
    BY <1>1, <1>3, <2>1 DEF InOrder
  <2>2. CASE i - m \in 1..n /\ v[i] = s[i - m] /\ j - m \in 1..n /\ v[j] = s[j - m]
    <3>1. i - m < j - m /\ (j = i + 1 => j - m = (i - m) + 1)
      BY <1>1, <2>2
    <3> QED  BY <1>1, <1>3, <2>2, <3>1 DEF InOrder
  <2>3. CASE i \in 1..m /\ v[i] = w[i] /\ j - m \in 1..n /\ v[j] = s[j - m]
    <3>1. v[i] < v[j]
      BY <1>1, <1>3, <2>3 DEF Before
    <3>2. ASSUME j = i + 1 PROVE v[j] = v[i] + 1
      <4>1. i = m /\ j - m = 1 /\ w # <<>>
        BY <1>1, <2>3, <3>2
      <4> QED  BY <1>1, <1>3, <2>3, <4>1 DEF Joins
    <3> QED  BY <3>1, <3>2
  <2>4. ~(i - m \in 1..n /\ j \in 1..m)
    BY <1>1
  <2> QED  BY <1>6, <2>1, <2>2, <2>3, <2>4
<1>9. /\ v # <<>> /\ v[Len(v)] = s[n]
  <2>1. n \in 1..n /\ m + n # 0
    BY <1>1, <1>4
  <2> QED  BY <1>1, <2>1
<1>10. ASSUME NEW i \in 1..Len(o)
       PROVE  /\ o[i] # <<>> /\ InOrder(o[i]) /\ Between(o[i], low, high)
              /\ Before(v, o[i])
              /\ \A j \in 1..i - 1 : Before(o[j], o[i])
              /\ Joins(IF i = 1 THEN v ELSE o[i - 1], o[i])
  <2> DEFINE k == i + 1
  <2>0. i \in 1..Len(out) - 1 /\ Len(out) \in Nat /\ i \in Nat
    BY <1>2
  <2>1. k \in 1..Len(out) /\ o[i] = out[k] /\ k # 1
    <3>1. o[i] = out[i + 1]
      BY <1>2, <2>0
    <3> QED  BY <2>0, <3>1
  <2>2. \A j \in 1..i - 1 : o[j] = out[j + 1] /\ j + 1 \in 1..k - 1
    <3> SUFFICES ASSUME NEW j \in 1..i - 1 PROVE o[j] = out[j + 1] /\ j + 1 \in 1..k - 1
      OBVIOUS
    <3>1. j \in 1..Len(out) - 1
      BY <2>0
    <3>2. o[j] = out[j + 1]
      BY <1>2, <3>1
    <3> QED  BY <2>0, <3>2
  <2> HIDE DEF k
  <2>3. /\ out[k] # <<>> /\ InOrder(out[k]) /\ Between(out[k], low, high)
        /\ Before(w, out[k])
        /\ \A j \in 1..k - 1 : Before(out[j], out[k])
        /\ Joins(IF k = 1 THEN w ELSE out[k - 1], out[k])
    BY <2>1 DEF Stream
  <2>4. Before(v, out[k])
    <3>1. Before(s, out[k])
      <4>1. 1 \in 1..k - 1
        BY DEF k
      <4> QED  BY <2>3, <4>1 DEF s
    <3> SUFFICES ASSUME NEW x \in 1..m + n, NEW y \in 1..Len(out[k]), v[x] # 0, out[k][y] # 0
                 PROVE  v[x] < out[k][y]
      BY <1>1 DEF Before
    <3>2. CASE x \in 1..m /\ v[x] = w[x]
      BY <1>1, <2>3, <3>2 DEF Before
    <3>3. CASE x - m \in 1..n /\ v[x] = s[x - m]
      BY <1>1, <3>1, <3>3 DEF Before
    <3> QED  BY <1>6, <3>2, <3>3
  <2>5. Joins(IF i = 1 THEN v ELSE o[i - 1], o[i])
    <3>1. CASE i = 1
      <4>1. Joins(s, out[k]) /\ k = 2
        BY <2>1, <2>3, <3>1 DEF k, s
      <4> QED  BY <1>1, <1>3, <1>9, <2>1, <3>1, <4>1 DEF Joins
    <3>2. CASE i # 1
      <4>1. o[i - 1] = out[k - 1]
        <5>1. i - 1 \in 1..Len(out) - 1 /\ (i - 1) + 1 = i /\ k - 1 = i
          BY <2>0, <3>2 DEF k
        <5>2. o[i - 1] = out[(i - 1) + 1]
          BY <1>2, <5>1
        <5> QED  BY <5>1, <5>2
      <4> QED  BY <2>1, <2>3, <3>2, <4>1
    <3> QED  BY <3>1, <3>2
  <2> QED  BY <2>1, <2>2, <2>3, <2>4, <2>5
<1>11. EndsWith(IF o = <<>> THEN v ELSE o[Len(o)], high, p)
  <2>1. EndsWith(out[Len(out)], high, p)
    BY DEF Stream
  <2>2. CASE o = <<>>
    <3>1. Len(out) = 1
      BY <1>2, <2>2
    <3>2. EndsWith(s, high, p)
      BY <2>1, <3>1 DEF s
    <3> QED  BY <1>1, <1>3, <1>9, <2>2, <3>2 DEF EndsWith
  <2>3. CASE o # <<>>
    <3>1. o[Len(o)] = out[Len(out)]
      BY <1>2, <2>3
    <3> QED  BY <2>1, <2>3, <3>1
  <2> QED  BY <2>2, <2>3
<1>12. Stream(v, o, low, high, p)
  BY <1>3, <1>7, <1>8, <1>10, <1>11 DEF Stream
<1> QED  BY <1>12 DEF o

(* mac_send_audio moves its position.                                       *)
LEMMA PublishKeeps ==
  ASSUME IInv, Publish
  PROVE  IInv'
<1> DEFINE s == sending[1]
           R == RebufSize
<1> HIDE DEF s, R
<1>1. /\ copied /\ copied' = FALSE /\ sending' = Tail(sending)
      /\ UNCHANGED <<made, shm, shmPos, samps, nonsamps, childPos, zeroesSeen, zeroesBuffered,
                     paused, rebuf, macRd, playing, avail, asked, last>>
  BY DEF Publish, emuVars, driverVars, callVars
<1>2. RingTypeOK /\ R \in Nat \ {0} /\ R = RebufSize /\ macWr \in 0..R - 1 /\ macRd \in 0..R - 1
  BY Sizes DEF IInv, RingTypeOK, R
<1>3. sending # <<>> /\ Head(sending) = s
  BY <1>1 DEF IInv, RingOK, s
<1>4. /\ sending \in Seq(Seq(0..MaxMade)) /\ s \in Seq(0..MaxMade) /\ Len(s) \in Nat
  <2>1. sending \in Seq(Seq(0..MaxMade))
    BY <1>2 DEF RingTypeOK
  <2>2. 1 \in 1..Len(sending)
    BY <1>3, <2>1
  <2>3. s \in Seq(0..MaxMade)
    BY <2>1, <2>2, EntryOf DEF s
  <2> QED  BY <2>1, <2>3
<1>5. Dist + Len(s) < R /\ \A k \in 1..Len(s) : rebuf[(macWr + k - 1) % R] = s[k]
  BY <1>1, <1>3 DEF IInv, RingOK, R
<1>6. /\ Dist \in 0..R - 1 /\ Waiting \in Seq(0..MaxMade) /\ Len(Waiting) = Dist
      /\ \A k \in 1..Dist : Waiting[k] = rebuf[(macRd + k - 1) % R]
  BY <1>2, WaitingIs
<1>7. macWr = IF macRd + Dist < R THEN macRd + Dist ELSE macRd + Dist - R
  BY <1>2, WriterIs
<1>8. macWr' = IF macWr + Len(s) < R THEN macWr + Len(s) ELSE macWr + Len(s) - R
  <2>1. macWr' = (macWr + Len(s)) % R
    BY <1>3 DEF Publish, R
  <2>2. Len(s) \in 0..R - 1
    BY <1>2, <1>4, <1>5, <1>6
  <2>3. (macWr + Len(s)) % R = IF macWr + Len(s) < R THEN macWr + Len(s) ELSE macWr + Len(s) - R
    BY <1>2, <2>2, Around
  <2> QED  BY <2>1, <2>3
<1>9. macWr' \in 0..R - 1
  BY <1>2, <1>4, <1>5, <1>6, <1>8
<1>10. RingTypeOK'
  <2>1. sending' \in Seq(Seq(0..MaxMade))
    BY <1>1, <1>3, <1>4
  <2> QED  BY <1>1, <1>2, <1>9, <2>1 DEF RingTypeOK
<1>11. /\ Dist' \in 0..R - 1 /\ Waiting' \in Seq(0..MaxMade) /\ Len(Waiting') = Dist'
       /\ \A k \in 1..Dist' : Waiting'[k] = rebuf'[(macRd' + k - 1) % R]
       /\ Dist' = IF macWr' >= macRd' THEN macWr' - macRd' ELSE macWr' + R - macRd'
  BY <1>2, <1>10, WaitingNext
<1>12. Dist' = Dist + Len(s)
  <2> DEFINE d == Dist
             e == Dist'
             r == macRd
             a == macWr
             b == macWr'
             n == Len(s)
  <2>1. /\ R \in Nat /\ r \in 0..R - 1 /\ d \in 0..R - 1 /\ n \in Nat /\ d + n < R
        /\ a = IF r + d < R THEN r + d ELSE r + d - R
        /\ b = IF a + n < R THEN a + n ELSE a + n - R
        /\ e = IF b >= r THEN b - r ELSE b + R - r
    BY <1>1, <1>2, <1>4, <1>5, <1>6, <1>7, <1>8, <1>11
  <2> HIDE DEF d, e, r, a, b, n
  <2>2. e = d + n
    BY <2>1
  <2> QED  BY <2>2 DEF d, e, n
<1>13. ASSUME NEW k \in 1..Dist PROVE Waiting'[k] = Waiting[k]
  <2>1. k \in 1..Dist'
    BY <1>4, <1>6, <1>12
  <2> QED  BY <1>1, <1>6, <1>11, <2>1
<1>14. ASSUME NEW k \in 1..Len(s) PROVE Waiting'[Dist + k] = s[k]
  <2> DEFINE j == k - 1
  <2>1. Dist + k \in 1..Dist' /\ j \in 0..R - 1 /\ Dist + j \in 0..R - 1
    BY <1>2, <1>4, <1>5, <1>6, <1>12
  <2>2. macRd + (Dist + k) - 1 = macRd + (Dist + j) /\ macWr + k - 1 = macWr + j
    BY <1>2, <1>6
  <2> HIDE DEF j
  <2>3. (macRd + (Dist + j)) % R = IF macRd + (Dist + j) < R THEN macRd + (Dist + j)
                                   ELSE macRd + (Dist + j) - R
    BY <1>2, <2>1, Around
  <2>4. (macWr + j) % R = IF macWr + j < R THEN macWr + j ELSE macWr + j - R
    BY <1>2, <2>1, Around
  <2>5. (IF macRd + (Dist + j) < R THEN macRd + (Dist + j) ELSE macRd + (Dist + j) - R)
        = (IF macWr + j < R THEN macWr + j ELSE macWr + j - R)
    BY <1>2, <1>6, <1>7, <2>1
  <2>6. (macRd + (Dist + j)) % R = (macWr + j) % R
    BY <2>3, <2>4, <2>5
  <2>7. Waiting'[Dist + k] = rebuf[(macRd + (Dist + k) - 1) % R]
    BY <1>1, <1>11, <2>1
  <2> QED  BY <1>5, <2>2, <2>6, <2>7
<1>15. Stream(Waiting, sending, last, made - samps, paused)'
  <2>1. Stream(Waiting, sending, last, made - samps, paused)
    BY DEF IInv
  <2>2. last \in Nat /\ made - samps \in Nat /\ paused \in BOOLEAN
    <3>1. last \in 0..MaxMade /\ made \in 0..MaxMade /\ samps \in Nat /\ paused \in BOOLEAN
      BY <1>2 DEF RingTypeOK
    <3>2. samps <= made
      BY DEF IInv, QueueOK
    <3> QED  BY <3>1, <3>2, Sizes
  <2>3. Len(Waiting') = Dist + Len(s)
    BY <1>11, <1>12
  <2>4. Stream(Waiting', Tail(sending), last, made - samps, paused)
    BY <1>3, <1>4, <1>6, <1>11, <1>13, <1>14, <2>1, <2>2, <2>3, StreamMoves, ZenonT(40) DEF s
  <2>5. Stream(Waiting', sending', last', made' - samps', paused')
    BY <1>1, <2>4
  <2> QED  BY <2>5 DEF Stream
<1>16. RingOK'
  <2>1. asked > 0 => avail <= Dist
    BY DEF IInv, RingOK
  <2>2. asked' > 0 => avail' <= Dist'
    <3>1. avail \in Nat
      BY <1>2 DEF RingTypeOK
    <3> QED  BY <1>1, <1>4, <1>6, <1>12, <2>1, <3>1
  <2> QED  BY <1>1, <2>2 DEF RingOK
<1>17. QueueOK'
  BY <1>1 DEF IInv, QueueOK
<1> QED  BY <1>10, <1>15, <1>16, <1>17 DEF IInv

(* audio_callback looks at the position.                                    *)
LEMMA LookKeeps ==
  ASSUME IInv, Look
  PROVE  IInv'
<1>1. /\ asked' \in Frames /\ avail' = Dist
      /\ UNCHANGED <<made, shm, shmPos, samps, nonsamps, childPos, zeroesSeen, zeroesBuffered,
                     paused, sending, copied, macWr, rebuf, macRd, playing, last>>
  BY DEF Look, Dist, Away, emuVars, driverVars, sendVars
<1>2. Dist \in Nat
  BY WaitingIs, Sizes DEF IInv
<1>3. Dist' = Dist /\ Waiting' = Waiting
  BY <1>1 DEF Dist, Waiting
<1>4. RingTypeOK'
  BY <1>1, <1>2 DEF IInv, RingTypeOK
<1>5. RingOK'
  BY <1>1, <1>2, <1>3 DEF IInv, RingOK
<1>6. QueueOK'
  BY <1>1 DEF IInv, QueueOK
<1>7. Stream(Waiting', sending', last', made' - samps', paused')
  BY <1>1, <1>3 DEF IInv
<1>8. Stream(Waiting, sending, last, made - samps, paused)'
  BY <1>7 DEF Stream
<1> QED  BY <1>4, <1>5, <1>6, <1>8 DEF IInv

-----------------------------------------------------------------------------
(* audio_callback's answer                                                  *)

(* Max of a set of numbers that has a bound                                 *)
LEMMA MaxSpec ==
  ASSUME NEW n \in Nat, NEW S \in SUBSET (0..n), S # {}
  PROVE  Max(S) \in S /\ \A y \in S : y <= Max(S)
<1> DEFINE T == {n - x : x \in S}
<1>1. T \in SUBSET Nat /\ T # {}
  <2>1. \A x \in S : n - x \in Nat
    OBVIOUS
  <2>2. PICK x \in S : TRUE
    OBVIOUS
  <2>3. n - x \in T
    OBVIOUS
  <2>4. \A y \in T : y \in Nat
    BY <2>1
  <2> QED  BY <2>3, <2>4
<1> HIDE DEF T
<1>2. PICK t \in T : \A y \in T : ~ (<<y, t>> \in OpToRel(<, Nat))
  BY <1>1, NatLessThanWellFounded, WFMin, Zenon
<1>3. ASSUME NEW y \in T, y < t PROVE FALSE
  <2> DEFINE ss == <<y, t>>
  <2>1. ss \in Nat \X Nat /\ ss[1] = y /\ ss[2] = t
    BY <1>1
  <2>2. ss \in OpToRel(<, Nat)
    BY <2>1, <1>3 DEF OpToRel
  <2> QED  BY <2>2, <1>2
<1>4. PICK x \in S : t = n - x
  BY DEF T
<1>5. ASSUME NEW y \in S PROVE y <= x
  <2>1. n - y \in T /\ n - y \in Nat /\ t \in Nat
    BY <1>1 DEF T
  <2>2. ~ (n - y < t)
    BY <1>3, <2>1
  <2> QED  BY <1>4, <2>2
<1> QED  BY <1>5 DEF Max

(* What a call of CoreAudio takes from the ring, and what it plays          *)
LEMMA AnswerIs ==
  ASSUME IInv, asked > 0
  PROVE  /\ Heard \in Seq(0..MaxMade) /\ Len(Heard) = asked /\ asked \in Nat
         /\ \E n \in 0..Dist, skip \in Nat :
              /\ (IF PlaysOn THEN (From + asked) % RebufSize ELSE From) = (macRd + n) % RebufSize
              /\ PlaysOn => skip + asked = n /\ \A i \in 1..asked : Heard[i] = Waiting[skip + i]
              /\ ~PlaysOn => \A i \in 1..asked : Heard[i] = 0
<1> DEFINE R == RebufSize
           most == MaxSamples - (MaxSamples \div 2) + 1
           half == MaxSamples \div 2
<1> HIDE DEF R, half
<1>1. /\ R \in Nat \ {0} /\ R = RebufSize /\ macWr \in 0..R - 1 /\ macRd \in 0..R - 1
      /\ avail \in Nat /\ RingTypeOK /\ MinSamples \in Nat /\ MaxSamples \in Nat /\ MaxMade \in Nat
      /\ rebuf \in [0..R - 1 -> 0..MaxMade]
  BY Sizes DEF IInv, RingTypeOK, R
<1>2. /\ half \in Nat /\ half <= MaxSamples
  BY <1>1 DEF half
<1>3. asked \in Nat /\ asked <= MaxSamples - half + 1
  <2>1. asked \in Frames
    <3>1. asked \in Frames \cup {0} /\ asked # 0
      BY <1>1 DEF RingTypeOK
    <3> QED  BY <3>1
  <2>2. Frames \subseteq 1..MaxSamples - half + 1
    BY RingAssumption DEF half
  <2> QED  BY <1>1, <1>2, <2>1, <2>2
<1>4. /\ avail <= Dist /\ Dist \in 0..R - 1 /\ Len(Waiting) = Dist
      /\ \A k \in 1..Dist : Waiting[k] = rebuf[(macRd + k - 1) % R]
      /\ macWr = IF macRd + Dist < R THEN macRd + Dist ELSE macRd + Dist - R
  BY <1>1, WaitingIs, WriterIs DEF IInv, RingOK
<1>5. CASE PlaysOn
  <2> DEFINE skip == IF avail > MaxSamples THEN half ELSE 0
             n == skip + asked
  <2>1. ~Short /\ asked <= avail
    BY <1>1, <1>3, <1>5 DEF PlaysOn, Short
  <2>2. skip \in Nat /\ n \in 0..Dist /\ n <= Dist /\ skip \in 0..R - 1
    BY <1>1, <1>2, <1>3, <1>4, <2>1
  <2>3. From = (macRd + skip) % R
    BY <1>5, <2>1 DEF From, R, half
  <2> HIDE DEF skip
  <2>4. macRd + skip \in 0..2 * R - 1 /\ asked \in 0..R /\ n = skip + asked
    BY <1>1, <1>3, <1>4, <2>2
  <2> HIDE DEF n
  <2>5. (From + asked) % R = (macRd + n) % R
    <3>1. (((macRd + skip) % R) + asked) % R = ((macRd + skip) + asked) % R
      BY <1>1, <2>4, ModAdd
    <3>2. (macRd + skip) + asked = macRd + n
      BY <1>1, <1>3, <2>2, <2>4
    <3> QED  BY <2>3, <3>1, <3>2
  <2>6. ASSUME NEW i \in 1..asked
        PROVE  rebuf[(From + i - 1) % R] = Waiting[skip + i] /\ Waiting[skip + i] \in 0..MaxMade
    <3> DEFINE j == i - 1
    <3>1. j \in 0..R /\ skip + i \in 1..Dist /\ macRd + (skip + i) - 1 = (macRd + skip) + j
      BY <1>1, <1>3, <1>4, <2>2, <2>4
    <3>2. From + i - 1 = From + j
      <4>1. From \in Int
        BY <1>1, <2>3, <2>4
      <4> HIDE DEF From
      <4> QED  BY <1>3, <4>1
    <3> HIDE DEF j
    <3>3. (((macRd + skip) % R) + j) % R = ((macRd + skip) + j) % R
      BY <1>1, <2>4, <3>1, ModAdd
    <3>4. Waiting[skip + i] = rebuf[(macRd + (skip + i) - 1) % R]
      BY <1>4, <3>1
    <3>5. Waiting \in Seq(0..MaxMade)
      BY <1>1, WaitingIs
    <3>6. Waiting[skip + i] \in 0..MaxMade
      BY <1>4, <3>1, <3>5, EntryOf
    <3> QED  BY <2>3, <3>1, <3>2, <3>3, <3>4, <3>6
  <2>7. Heard = [i \in 1..asked |-> rebuf[(From + i - 1) % R]]
    BY <1>5 DEF Heard, FromRing, R
  <2>8. Heard \in Seq(0..MaxMade) /\ Len(Heard) = asked /\ \A i \in 1..asked : Heard[i] = Waiting[skip + i]
    <3>1. Heard = [i \in 1..asked |-> Waiting[skip + i]]
      BY <2>6, <2>7
    <3> QED  BY <1>3, <2>6, <3>1
  <2> QED  BY <1>1, <1>3, <1>5, <2>2, <2>4, <2>5, <2>8
<1>6. CASE ~PlaysOn
  <2>1. Heard = Zeroes(asked)
    BY <1>6 DEF Heard
  <2>2. Heard \in Seq(0..MaxMade) /\ Len(Heard) = asked /\ \A i \in 1..asked : Heard[i] = 0
    <3>1. 0 \in 0..MaxMade
      BY <1>1
    <3> QED  BY <1>3, <2>1, <3>1 DEF Zeroes
  <2>3. From = (IF Short THEN macWr ELSE macRd) % R
    <3>1. From = ((IF Short THEN macWr ELSE macRd) + 0) % R
      BY <1>6 DEF From, R
    <3> QED  BY <1>1, <3>1
  <2>4. CASE Short
    <3>1. From = macWr
      <4>1. macWr % R = macWr
        BY <1>1, ModSame
      <4> QED  BY <2>3, <2>4, <4>1
    <3>2. (macRd + Dist) % R = macWr
      <4>1. (macRd + Dist) % R = IF macRd + Dist < R THEN macRd + Dist ELSE macRd + Dist - R
        BY <1>1, <1>4, Around
      <4>2. macWr = IF macRd + Dist < R THEN macRd + Dist ELSE macRd + Dist - R
        BY <1>4
      <4> QED  BY <4>1, <4>2, Zenon
    <3>3. Dist \in 0..Dist /\ 0 \in Nat
      BY <1>1, <1>4
    <3> QED  BY <1>1, <1>3, <1>6, <2>2, <3>1, <3>2, <3>3
  <2>5. CASE ~Short
    <3>1. From = (macRd + 0) % R
      BY <1>1, <2>3, <2>5
    <3>2. 0 \in 0..Dist /\ 0 \in Nat
      BY <1>1, <1>4
    <3> QED  BY <1>1, <1>3, <1>6, <2>2, <3>1, <3>2
  <2> QED  BY <2>4, <2>5
<1> QED  BY <1>5, <1>6

(* Some of what waits is taken.                                             *)
LEMMA StreamDrops ==
  ASSUME NEW w \in Seq(0..MaxMade), NEW out \in Seq(Seq(0..MaxMade)),
         NEW low \in Nat, NEW high \in Nat, NEW p \in BOOLEAN, Stream(w, out, low, high, p),
         NEW n \in 0..Len(w), NEW v \in Seq(0..MaxMade), Len(v) = Len(w) - n,
         \A i \in 1..Len(v) : v[i] = w[n + i],
         NEW low2 \in Nat, low2 <= high,
         \A i \in 1..Len(v) : v[i] # 0 => low2 < v[i],
         \A k \in 1..Len(out) : \A i \in 1..Len(out[k]) : out[k][i] # 0 => low2 < out[k][i]
  PROVE  Stream(v, out, low2, high, p)
<1>1. /\ InOrder(w) /\ Between(w, low, high)
      /\ \A i \in 1..Len(out) :
           /\ out[i] # <<>> /\ InOrder(out[i]) /\ Between(out[i], low, high)
           /\ Before(w, out[i])
           /\ \A j \in 1..i - 1 : Before(out[j], out[i])
           /\ Joins(IF i = 1 THEN w ELSE out[i - 1], out[i])
      /\ EndsWith(IF out = <<>> THEN w ELSE out[Len(out)], high, p)
  BY DEF Stream
<1> DEFINE m == Len(v)
<1>2. m \in Nat /\ n \in Nat /\ Len(w) = n + m /\ Len(v) = m /\ \A i \in 1..m : v[i] = w[n + i]
  OBVIOUS
<1> HIDE DEF m
<1>3. InOrder(v)
  <2> SUFFICES ASSUME NEW i \in 1..m, NEW j \in 1..m, i < j, v[i] # 0, v[j] # 0
               PROVE  v[i] < v[j] /\ (j = i + 1 => v[j] = v[i] + 1)
    BY <1>2 DEF InOrder
  <2>1. n + i \in 1..Len(w) /\ n + j \in 1..Len(w) /\ n + i < n + j /\ (j = i + 1 => n + j = (n + i) + 1)
    BY <1>2
  <2> QED  BY <1>1, <1>2, <2>1 DEF InOrder
<1>4. Between(v, low2, high)
  <2> SUFFICES ASSUME NEW i \in 1..m, v[i] # 0 PROVE v[i] <= high
    BY <1>2 DEF Between
  <2>1. n + i \in 1..Len(w)
    BY <1>2
  <2> QED  BY <1>1, <1>2, <2>1 DEF Between
<1>5. v # <<>> => w # <<>> /\ v[Len(v)] = w[Len(w)]
  <2>1. v # <<>> => m # 0 /\ m \in 1..m
    BY <1>2
  <2> QED  BY <1>2, <2>1
<1>6. ASSUME NEW k \in 1..Len(out)
      PROVE  /\ out[k] # <<>> /\ InOrder(out[k]) /\ Between(out[k], low2, high)
             /\ Before(v, out[k])
             /\ \A j \in 1..k - 1 : Before(out[j], out[k])
             /\ Joins(IF k = 1 THEN v ELSE out[k - 1], out[k])
  <2>1. Between(out[k], low2, high)
    BY <1>1 DEF Between
  <2>2. Before(v, out[k])
    <3> SUFFICES ASSUME NEW i \in 1..m, NEW j \in 1..Len(out[k]), v[i] # 0, out[k][j] # 0
                 PROVE  v[i] < out[k][j]
      BY <1>2 DEF Before
    <3>1. n + i \in 1..Len(w)
      <4>1. n \in Nat /\ m \in Nat /\ Len(w) = n + m
        BY <1>2
      <4> QED  BY <4>1, SMTT(60)
    <3> QED  BY <1>1, <1>2, <3>1 DEF Before
  <2>3. Joins(IF k = 1 THEN v ELSE out[k - 1], out[k])
    BY <1>1, <1>5 DEF Joins
  <2> QED  BY <1>1, <2>1, <2>2, <2>3
<1>7. EndsWith(IF out = <<>> THEN v ELSE out[Len(out)], high, p)
  BY <1>1, <1>5 DEF EndsWith
<1> QED  BY <1>3, <1>4, <1>6, <1>7 DEF Stream

(* audio_callback answers.                                                  *)
LEMMA AnswerKeeps ==
  ASSUME IInv, Answer
  PROVE  IInv'
<1> DEFINE R == RebufSize
           low2 == last'
           high == made - samps
<1> HIDE DEF R
<1>1. /\ asked > 0 /\ asked' = 0 /\ avail' = 0 /\ playing' = PlaysOn
      /\ last' = Max({last} \cup ToSet(Heard))
      /\ macRd' = IF PlaysOn THEN (From + asked) % R ELSE From
      /\ UNCHANGED <<made, shm, shmPos, samps, nonsamps, childPos, zeroesSeen, zeroesBuffered,
                     paused, sending, copied, macWr, rebuf>>
  BY DEF Answer, emuVars, driverVars, sendVars, R
<1>2. /\ R \in Nat \ {0} /\ R = RebufSize /\ macWr \in 0..R - 1 /\ macRd \in 0..R - 1
      /\ RingTypeOK /\ MaxMade \in Nat /\ last \in 0..MaxMade /\ made \in 0..MaxMade
      /\ samps \in Nat /\ samps <= made /\ paused \in BOOLEAN /\ sending \in Seq(Seq(0..MaxMade))
      /\ Stream(Waiting, sending, last, high, paused)
  BY Sizes DEF IInv, RingTypeOK, QueueOK, R
<1>3. /\ Dist \in 0..R - 1 /\ Waiting \in Seq(0..MaxMade) /\ Len(Waiting) = Dist
      /\ \A k \in 1..Dist : Waiting[k] = rebuf[(macRd + k - 1) % R]
      /\ macWr = IF macRd + Dist < R THEN macRd + Dist ELSE macRd + Dist - R
  BY <1>2, WaitingIs, WriterIs
<1>4. Heard \in Seq(0..MaxMade) /\ Len(Heard) = asked /\ asked \in Nat
  BY <1>1, AnswerIs
<1>5. PICK n \in 0..Dist, skip \in Nat :
        /\ macRd' = (macRd + n) % R
        /\ PlaysOn => skip + asked = n /\ \A i \in 1..asked : Heard[i] = Waiting[skip + i]
        /\ ~PlaysOn => \A i \in 1..asked : Heard[i] = 0
  <2>1. PICK n \in 0..Dist, skip \in Nat :
          /\ (IF PlaysOn THEN (From + asked) % R ELSE From) = (macRd + n) % R
          /\ PlaysOn => skip + asked = n /\ \A i \in 1..asked : Heard[i] = Waiting[skip + i]
          /\ ~PlaysOn => \A i \in 1..asked : Heard[i] = 0
    BY <1>1, AnswerIs DEF R
  <2>2. macRd' = (macRd + n) % R
    BY <1>1, <2>1, Zenon
  <2> QED  BY <2>1, <2>2
<1>6. n \in Nat /\ n <= Dist /\ n \in 0..R - 1
  BY <1>2, <1>3
<1>7. macRd' = IF macRd + n < R THEN macRd + n ELSE macRd + n - R
  <2>1. (macRd + n) % R = IF macRd + n < R THEN macRd + n ELSE macRd + n - R
    BY <1>2, <1>6, Around
  <2>2. macRd' = (macRd + n) % R
    BY <1>5
  <2> QED  BY <2>1, <2>2, Zenon
<1>8. macRd' \in 0..R - 1
  BY <1>2, <1>6, <1>7
<1>9. /\ low2 \in Nat /\ last <= low2 /\ low2 \in 0..MaxMade
      /\ low2 = last \/ \E i \in 1..asked : low2 = Heard[i]
      /\ \A i \in 1..asked : Heard[i] <= low2
  <2> DEFINE S == {last} \cup ToSet(Heard)
  <2>1. ToSet(Heard) = {Heard[i] : i \in 1..asked}
    BY <1>4 DEF ToSet
  <2>2. S \in SUBSET (0..MaxMade) /\ S # {} /\ last \in S
    <3>1. \A i \in 1..asked : Heard[i] \in 0..MaxMade
      BY <1>4, EntryOf
    <3> QED  BY <1>2, <2>1, <3>1
  <2>3. low2 = Max(S)
    BY <1>1
  <2> HIDE DEF S
  <2>4. low2 \in S /\ \A y \in S : y <= low2
    BY <1>2, <2>2, <2>3, MaxSpec
  <2>5. low2 \in 0..MaxMade
    BY <2>2, <2>4
  <2>6. \A i \in 1..asked : Heard[i] \in S
    BY <2>1 DEF S
  <2>7. low2 = last \/ \E i \in 1..asked : low2 = Heard[i]
    BY <2>1, <2>4 DEF S
  <2>8. last <= low2 /\ \A i \in 1..asked : Heard[i] <= low2
    BY <2>2, <2>4, <2>6
  <2>9. low2 \in Nat
    BY <1>2, <2>5
  <2> QED  BY <2>5, <2>7, <2>8, <2>9
<1>10. high \in Nat
  BY <1>2
<1>11. /\ InOrder(Waiting) /\ Between(Waiting, last, high) /\ last <= high
       /\ \A k \in 1..Len(sending) : Before(Waiting, sending[k]) /\ Between(sending[k], last, high)
  BY <1>2 DEF Stream
<1> HIDE DEF high, low2
<1>12. \/ low2 = last
       \/ \E m \in 1..n : low2 = Waiting[m] /\ Waiting[m] # 0
  <2>1. CASE \E i \in 1..asked : low2 = Heard[i]
    <3>1. PICK i \in 1..asked : low2 = Heard[i]
      BY <2>1
    <3>2. CASE Heard[i] = 0
      BY <1>2, <1>9, <3>1, <3>2
    <3>3. CASE Heard[i] # 0
      <4>1. PlaysOn /\ Heard[i] = Waiting[skip + i] /\ skip + asked = n
        BY <1>5, <3>3
      <4>2. skip + i \in 1..n
        BY <1>4, <1>6, <4>1
      <4> QED  BY <3>1, <3>3, <4>1, <4>2
    <3> QED  BY <3>2, <3>3
  <2> QED  BY <1>9, <2>1
<1>13. low2 <= high
  <2>1. CASE \E m \in 1..n : low2 = Waiting[m] /\ Waiting[m] # 0
    <3>1. PICK m \in 1..n : low2 = Waiting[m] /\ Waiting[m] # 0
      BY <2>1
    <3>2. m \in 1..Len(Waiting)
      BY <1>2, <1>3, <1>6
    <3> QED  BY <1>11, <3>1, <3>2 DEF Between
  <2> QED  BY <1>11, <1>12, <2>1
<1>14. ASSUME NEW k \in 1..Dist - n, Waiting[n + k] # 0 PROVE low2 < Waiting[n + k]
  <2>1. n + k \in 1..Len(Waiting)
    BY <1>2, <1>3, <1>6
  <2>2. CASE low2 = last
    BY <1>11, <1>14, <2>1, <2>2 DEF Between
  <2>3. CASE \E m \in 1..n : low2 = Waiting[m] /\ Waiting[m] # 0
    <3>1. PICK m \in 1..n : low2 = Waiting[m] /\ Waiting[m] # 0
      BY <2>3
    <3>2. m \in 1..Len(Waiting) /\ m < n + k
      BY <1>2, <1>3, <1>6
    <3> QED  BY <1>11, <1>14, <2>1, <3>1, <3>2 DEF InOrder
  <2> QED  BY <1>12, <2>2, <2>3
<1>15. ASSUME NEW k \in 1..Len(sending), NEW i \in 1..Len(sending[k]), sending[k][i] # 0
       PROVE  low2 < sending[k][i]
  <2>1. CASE low2 = last
    BY <1>11, <1>15, <2>1 DEF Between
  <2>2. CASE \E m \in 1..n : low2 = Waiting[m] /\ Waiting[m] # 0
    <3>1. PICK m \in 1..n : low2 = Waiting[m] /\ Waiting[m] # 0
      BY <2>2
    <3>2. m \in 1..Len(Waiting)
      BY <1>2, <1>3, <1>6
    <3> QED  BY <1>11, <1>15, <3>1, <3>2 DEF Before
  <2> QED  BY <1>12, <2>1, <2>2
<1>16. RingTypeOK'
  <2>1. last' \in 0..MaxMade /\ macRd' \in 0..RebufSize - 1 /\ asked' \in Frames \cup {0}
        /\ avail' \in Nat /\ playing' \in BOOLEAN
    <3>1. PlaysOn \in BOOLEAN
      BY DEF PlaysOn
    <3> QED  BY <1>1, <1>2, <1>8, <1>9, <3>1 DEF low2
  <2> QED  BY <1>1, <1>2, <2>1 DEF RingTypeOK
<1>17. /\ Dist' \in 0..R - 1 /\ Waiting' \in Seq(0..MaxMade) /\ Len(Waiting') = Dist'
       /\ \A k \in 1..Dist' : Waiting'[k] = rebuf'[(macRd' + k - 1) % R]
       /\ Dist' = IF macWr' >= macRd' THEN macWr' - macRd' ELSE macWr' + R - macRd'
  BY <1>2, <1>16, WaitingNext
<1>18. Dist' = Dist - n
  <2> DEFINE d == Dist
             e == Dist'
             r == macRd
             q == macRd'
             a == macWr
  <2>1. /\ R \in Nat /\ r \in 0..R - 1 /\ d \in 0..R - 1 /\ n \in Nat /\ n <= d
        /\ a = IF r + d < R THEN r + d ELSE r + d - R
        /\ q = IF r + n < R THEN r + n ELSE r + n - R
        /\ e = IF a >= q THEN a - q ELSE a + R - q
    BY <1>1, <1>2, <1>3, <1>6, <1>7, <1>17
  <2> HIDE DEF d, e, r, q, a
  <2>2. e = d - n
    BY <2>1
  <2> QED  BY <2>2 DEF d, e
<1>19. ASSUME NEW k \in 1..Dist' PROVE Waiting'[k] = Waiting[n + k]
  <2> DEFINE j == k - 1
  <2>1. j \in 0..R /\ n + k \in 1..Dist /\ macRd + (n + k) - 1 = (macRd + n) + j
        /\ macRd' + k - 1 = macRd' + j /\ macRd + n \in 0..2 * R - 1
    BY <1>2, <1>3, <1>6, <1>8, <1>18
  <2> HIDE DEF j
  <2>2. (((macRd + n) % R) + j) % R = ((macRd + n) + j) % R
    BY <1>2, <2>1, ModAdd
  <2>3. macRd' = (macRd + n) % R
    BY <1>5
  <2>4. Waiting'[k] = rebuf[(macRd' + j) % R]
    BY <1>1, <1>17, <2>1
  <2>5. Waiting[n + k] = rebuf[((macRd + n) + j) % R]
    BY <1>3, <2>1
  <2> QED  BY <2>2, <2>3, <2>4, <2>5, Zenon
<1>20. Stream(Waiting', sending, low2, high, paused)
  <2>1. n \in 0..Len(Waiting) /\ Len(Waiting') = Len(Waiting) - n
    BY <1>3, <1>6, <1>17, <1>18
  <2>2. \A i \in 1..Len(Waiting') : Waiting'[i] = Waiting[n + i]
    BY <1>17, <1>19
  <2>3. \A i \in 1..Len(Waiting') : Waiting'[i] # 0 => low2 < Waiting'[i]
    BY <1>14, <1>17, <1>18, <2>2
  <2>4. last \in Nat /\ low2 \in Nat
    BY <1>2, <1>9
  <2> DEFINE v == Waiting'
  <2>5. /\ v \in Seq(0..MaxMade) /\ Len(v) = Len(Waiting) - n
        /\ \A i \in 1..Len(v) : v[i] = Waiting[n + i]
        /\ \A i \in 1..Len(v) : v[i] # 0 => low2 < v[i]
    BY <1>17, <2>1, <2>2, <2>3
  <2> HIDE DEF v
  <2>6. \A k \in 1..Len(sending) : \A i \in 1..Len(sending[k]) :
          sending[k][i] # 0 => low2 < sending[k][i]
    BY <1>15
  <2>7. /\ Waiting \in Seq(0..MaxMade) /\ sending \in Seq(Seq(0..MaxMade)) /\ paused \in BOOLEAN
        /\ Stream(Waiting, sending, last, high, paused)
    BY <1>2, <1>3
  <2>8. Stream(v, sending, low2, high, paused)
    BY <1>10, <1>13, <2>1, <2>4, <2>5, <2>6, <2>7, StreamDrops
  <2> QED  BY <2>8 DEF v
<1>21. Stream(Waiting, sending, last, made - samps, paused)'
  <2>1. Stream(Waiting', sending', last', made' - samps', paused')
    BY <1>1, <1>20 DEF low2, high
  <2> QED  BY <2>1 DEF Stream
<1>22. RingOK'
  <2>1. copied => /\ sending # <<>> /\ Dist + Len(Head(sending)) < R
                  /\ \A k \in 1..Len(Head(sending)) :
                       rebuf[(macWr + k - 1) % R] = Head(sending)[k]
    BY DEF IInv, RingOK, R
  <2>2. sending # <<>> => Len(Head(sending)) \in Nat
    <3>1. sending # <<>> => 1 \in 1..Len(sending) /\ Head(sending) = sending[1]
      BY <1>2
    <3>2. sending # <<>> => sending[1] \in Seq(0..MaxMade)
      BY <1>2, <3>1, EntryOf
    <3> QED  BY <3>1, <3>2
  <2>3. copied => Dist' + Len(Head(sending)) < R
    BY <1>2, <1>3, <1>6, <1>18, <2>1, <2>2
  <2>4. ~(asked' > 0)
    BY <1>1
  <2> QED  BY <1>1, <1>2, <2>1, <2>3, <2>4 DEF RingOK
<1>23. QueueOK'
  BY <1>1 DEF IInv, QueueOK
<1> QED  BY <1>16, <1>21, <1>22, <1>23 DEF IInv

-----------------------------------------------------------------------------
(* At the start nothing waits, and nothing is to be sent.                   *)
LEMMA RingInitInv == RingInit => IInv
<1> SUFFICES ASSUME RingInit PROVE IInv
  OBVIOUS
<1>1. /\ made = 0 /\ shm = [i \in 0..ShmSize - 1 |-> 0] /\ shmPos = 0 /\ samps = 0 /\ nonsamps = 0
      /\ childPos = 0 /\ zeroesSeen = 0 /\ zeroesBuffered = 0 /\ paused = FALSE
      /\ sending = <<>> /\ copied = FALSE
      /\ rebuf = [i \in 0..RebufSize - 1 |-> 0] /\ macWr = 0 /\ macRd = 0
      /\ playing = FALSE /\ avail = 0 /\ asked = 0 /\ last = 0
  BY DEF RingInit
<1>2. RingTypeOK
  <2>1. sending \in Seq(Seq(0..MaxMade))
    BY <1>1
  <2>2. shm \in [0..ShmSize - 1 -> 0..MaxMade] /\ rebuf \in [0..RebufSize - 1 -> 0..MaxMade]
    BY <1>1, Sizes
  <2>3. 0 \in 0..ShmSize - 1 /\ 0 \in 0..RebufSize - 1
    BY Sizes
  <2> QED  BY <1>1, <2>1, <2>2, <2>3, Sizes DEF RingTypeOK
<1>3. RingOK
  BY <1>1 DEF RingOK
<1>4. QueueOK
  <2>1. shmPos = (childPos + samps + nonsamps) % ShmSize
    <3>1. 0 % ShmSize = 0 /\ 0 + 0 + 0 = 0
      BY Sizes, ModSame
    <3> QED  BY <1>1, <3>1
  <2> QED  BY <1>1, <2>1, Sizes DEF QueueOK
<1>5. Stream(Waiting, sending, last, made - samps, paused)
  <2>1. Dist = 0 /\ Waiting \in Seq(0..MaxMade) /\ Len(Waiting) = 0
    BY <1>1, <1>2, WaitingIs
  <2>2. Waiting = <<>> /\ made - samps = 0
    BY <1>1, <2>1
  <2> QED  BY <1>1, <2>2 DEF Stream, InOrder, Between, EndsWith
<1> QED  BY <1>2, <1>3, <1>4, <1>5 DEF IInv

(* A step that changes nothing                                              *)
LEMMA RingStutter == IInv /\ UNCHANGED ringVars => IInv'
<1> SUFFICES ASSUME IInv, UNCHANGED ringVars PROVE IInv'
  OBVIOUS
<1>1. UNCHANGED <<made, shm, shmPos, samps, nonsamps, childPos, zeroesSeen, zeroesBuffered, paused,
                  sending, copied, macWr, rebuf, macRd, playing, avail, asked, last>>
  BY DEF ringVars, emuVars, driverVars, sendVars, callVars
<1>2. Dist' = Dist /\ Waiting' = Waiting
  BY <1>1 DEF Dist, Waiting
<1>3. RingTypeOK' /\ RingOK' /\ QueueOK'
  BY <1>1, <1>2 DEF IInv, RingTypeOK, RingOK, QueueOK
<1>4. Stream(Waiting', sending', last', made' - samps', paused')
  BY <1>1, <1>2 DEF IInv
<1> QED  BY <1>3, <1>4 DEF IInv, Stream

(* The invariant holds for ever.                                            *)
LEMMA RingAlways == RingSpec => []IInv
<1>1. IInv /\ [RingNext]_ringVars => IInv'
  BY PlayKeeps, CopyKeeps, PublishKeeps, LookKeeps, AnswerKeeps, RingStutter DEF RingNext
<1> QED  BY RingInitInv, <1>1, PTL DEF RingSpec

(* What is heard is part of what waits, and comes after what was heard.     *)
LEMMA WaitingHeard == IInv => HeardInOrder
<1> SUFFICES ASSUME IInv PROVE HeardInOrder
  OBVIOUS
<1>1. RingTypeOK /\ Stream(Waiting, sending, last, made - samps, paused)
  BY DEF IInv
<1>2. /\ InOrder(Waiting) /\ Between(Waiting, last, made - samps)
  BY <1>1 DEF Stream
<1>3. Waiting \in Seq(0..MaxMade) /\ Len(Waiting) = Dist /\ Dist \in Nat
  BY <1>1, WaitingIs, Sizes
<1>4. SUFFICES ASSUME NEW i \in 1..asked, Heard[i] # 0
      PROVE  /\ Heard[i] > last
             /\ \A j \in 1..i - 1 : Heard[j] < Heard[i]
             /\ i > 1 /\ Heard[i - 1] # 0 => Heard[i] = Heard[i - 1] + 1
  BY <1>1 DEF HeardInOrder
<1>5. asked > 0 /\ asked \in Nat
  <2>1. asked \in Nat
    <3>1. asked \in Frames \cup {0} /\ Frames \subseteq Nat
      BY <1>1, RingAssumption DEF RingTypeOK
    <3> QED  BY <3>1
  <2> QED  BY <2>1, <1>4
<1>6. PICK n \in 0..Dist, skip \in Nat :
        /\ PlaysOn => skip + asked = n /\ \A k \in 1..asked : Heard[k] = Waiting[skip + k]
        /\ ~PlaysOn => \A k \in 1..asked : Heard[k] = 0
  BY <1>5, AnswerIs
<1>7. skip + asked = n /\ \A k \in 1..asked : Heard[k] = Waiting[skip + k]
  BY <1>4, <1>6
<1>8. \A k \in 1..asked : skip + k \in 1..Len(Waiting) /\ Waiting[skip + k] \in Nat
  <2> SUFFICES ASSUME NEW k \in 1..asked PROVE skip + k \in 1..Len(Waiting) /\ Waiting[skip + k] \in Nat
    OBVIOUS
  <2>1. skip + k \in 1..Len(Waiting)
    BY <1>3, <1>5, <1>7
  <2>2. Waiting[skip + k] \in 0..MaxMade
    BY <1>3, <2>1, EntryOf
  <2> QED  BY <2>1, <2>2
<1>9. last \in Nat
  BY <1>1, Sizes DEF RingTypeOK
<1>10. Heard[i] = Waiting[skip + i] /\ skip + i \in 1..Len(Waiting) /\ Waiting[skip + i] \in Nat
  BY <1>7, <1>8
<1>11. Heard[i] > last
  BY <1>2, <1>4, <1>9, <1>10 DEF Between
<1>12. ASSUME NEW j \in 1..i - 1 PROVE Heard[j] < Heard[i]
  <2>1. j \in 1..asked /\ skip + j < skip + i
    BY <1>5
  <2>2. Heard[j] = Waiting[skip + j] /\ skip + j \in 1..Len(Waiting) /\ Waiting[skip + j] \in Nat
    BY <1>7, <1>8, <2>1
  <2>3. Waiting[skip + j] # 0 => Waiting[skip + j] < Waiting[skip + i]
    BY <1>2, <1>4, <1>10, <2>1, <2>2 DEF InOrder
  <2> QED  BY <1>4, <1>10, <2>2, <2>3
<1>13. ASSUME i > 1, Heard[i - 1] # 0 PROVE Heard[i] = Heard[i - 1] + 1
  <2> DEFINE j == i - 1
  <2>1. j \in 1..asked /\ skip + j < skip + i /\ skip + i = (skip + j) + 1
    BY <1>5, <1>13
  <2> HIDE DEF j
  <2>2. Heard[j] = Waiting[skip + j] /\ skip + j \in 1..Len(Waiting)
    BY <1>7, <1>8, <2>1
  <2>3. Heard[j] # 0
    BY <1>13 DEF j
  <2>4. Waiting[skip + i] = Waiting[skip + j] + 1
    BY <1>2, <1>4, <1>10, <2>1, <2>2, <2>3 DEF InOrder
  <2> QED  BY <1>10, <2>2, <2>4 DEF j
<1> QED  BY <1>11, <1>12, <1>13

(* Whatever the two threads and the pauses do, and for rings of any size,   *)
(* what is heard is what was made, in the order it was made.                *)
THEOREM SamplesAlwaysInOrder == RingSpec => []HeardInOrder
BY RingAlways, WaitingHeard, PTL

-----------------------------------------------------------------------------
(* PART 2: Mockingboard                                                     *)

(* A chip that was brought up to date                                       *)
Steady(c) ==
  /\ c.t1 = 0 => (c.ran1 <=> ~c.free) /\ (c.ran1 \/ "t1" \in c.ifr)
  /\ c.t2 = 0 => c.ran2

(* Nothing is overlooked when the chip is brought up to date after d.       *)
Minded(c, d) == c.free /\ c.ran1 => d < c.t1

(* An event comes before the chip, brought up to date `since` ago, interrupts. *)
DueFor(c, due, since) ==
  /\ "t1" \in c.ier \ c.ifr /\ ~c.ran1 => \E t \in due : t <= c.t1 - since
  /\ "t2" \in c.ier \ c.ifr /\ ~c.ran2 /\ ~c.pulses => \E t \in due : t <= c.t2 - since

IrqOK(b) == \A i \in Pairs : (i \in b.irq) <=> b.pair[i].ifr \cap b.pair[i].ier # {}

AtMostOne(s, range) == s = {} \/ \E t \in range : s = {t}
Times == (-MaxInstr)..(Word + 1)
Boards ==
  [ pair : [Pairs -> Chip], behind : 0..MaxAlone, adrift : SUBSET Skews, due : SUBSET Times,
    irq : SUBSET Pairs ]

(* What the board must be when it is brought up to date                     *)
Ready(b) ==
  /\ b \in Boards /\ AtMostOne(b.adrift, Skews) /\ AtMostOne(b.due, Times) /\ IrqOK(b)
  /\ \A i \in Pairs : Minded(b.pair[i], Since(b))

(* What it is between instructions; after a reset it has not been brought   *)
(* up to date yet.                                                          *)
BoardOK(b) ==
  /\ Ready(b)
  /\ \A i \in Pairs : Steady(b.pair[i])
  /\ b.adrift # {} => b.pair = [i \in Pairs |-> FreshChip] /\ b.due = {}
  /\ b.adrift = {} => \A i \in Pairs : DueFor(b.pair[i], b.due, b.behind)

MInv == BoardOK(mock)

-----------------------------------------------------------------------------
(* Bytes and words                                                          *)
LEMMA Bytes ==
  /\ Byte \in Nat \ {0, 1} /\ MaxInstr \in Nat /\ MaxAlone \in Nat
  /\ Word \in Nat \ {0, 1} /\ Byte <= Word
<1>1. Byte \in Nat \ {0, 1} /\ MaxInstr \in Nat /\ MaxAlone \in Nat
  BY MockAssumption
<1>2. Byte * Byte \in Nat /\ Byte * Byte >= 2 * Byte
  BY <1>1
<1> QED  BY <1>1, <1>2 DEF Word

(* A word of two bytes                                                      *)
LEMMA HighByte ==
  ASSUME NEW v \in 0..Byte - 1, NEW l \in 0..Byte - 1
  PROVE  v * Byte + l \in 0..Word - 1
<1>1. Byte \in Nat \ {0, 1}
  BY Bytes
<1>2. v * Byte <= (Byte - 1) * Byte /\ v * Byte \in Nat
  BY <1>1
<1>3. (Byte - 1) * Byte = Byte * Byte - Byte
  BY <1>1
<1> QED  BY <1>1, <1>2, <1>3 DEF Word

(* Division with a remainder                                                *)
LEMMA Divides ==
  ASSUME NEW n \in Nat \ {0}, NEW x \in Nat
  PROVE  \E q \in Nat, r \in 0..n - 1 : x = n * q + r
<1> DEFINE Good(y) == \E q \in Nat, r \in 0..n - 1 : y = n * q + r
           T == {y \in Nat : ~Good(y)}
<1> SUFFICES ASSUME x \in T PROVE FALSE
  OBVIOUS
<1>1. T \in SUBSET Nat /\ T # {}
  OBVIOUS
<1> HIDE DEF T
<1>2. PICK y \in T : \A z \in T : ~ (<<z, y>> \in OpToRel(<, Nat))
  BY <1>1, NatLessThanWellFounded, WFMin, Zenon
<1>3. ASSUME NEW z \in T, z < y PROVE FALSE
  <2> DEFINE ss == <<z, y>>
  <2>1. ss \in Nat \X Nat /\ ss[1] = z /\ ss[2] = y
    BY <1>1
  <2>2. ss \in OpToRel(<, Nat)
    BY <2>1, <1>3 DEF OpToRel
  <2> QED  BY <2>2, <1>2
<1>4. y \in Nat /\ ~Good(y)
  BY DEF T
<1>5. y >= n
  <2>1. CASE y < n
    <3>1. 0 \in Nat /\ y \in 0..n - 1 /\ y = n * 0 + y
      BY <1>4, <2>1
    <3> QED  BY <1>4, <3>1
  <2> QED  BY <1>4, <2>1
<1>6. Good(y - n)
  <2>1. y - n \in Nat /\ y - n < y
    BY <1>4, <1>5
  <2> QED  BY <1>3, <2>1 DEF T
<1>7. PICK q \in Nat, r \in 0..n - 1 : y - n = n * q + r
  BY <1>6
<1>8. q + 1 \in Nat /\ y = n * (q + 1) + r
  <2>1. n * (q + 1) = n * q + n
    OBVIOUS
  <2> QED  BY <1>4, <1>7, <2>1
<1> QED  BY <1>4, <1>8

(* What is left over is the remainder.                                      *)
LEMMA ModIs ==
  ASSUME NEW n \in Nat \ {0}, NEW q \in Nat, NEW r \in 0..n - 1
  PROVE  (n * q + r) % n = r
OBVIOUS

(* How often it goes in is the quotient.                                    *)
LEMMA DivIs ==
  ASSUME NEW n \in Nat \ {0}, NEW q \in Nat, NEW r \in 0..n - 1
  PROVE  (n * q + r) \div n = q
OBVIOUS

(* What is counted one further                                              *)
LEMMA ModNext ==
  ASSUME NEW n \in Nat \ {0}, NEW x \in Nat
  PROVE  /\ x % n \in 0..n - 1
         /\ (x + 1) % n = IF x % n = n - 1 THEN 0 ELSE (x % n) + 1
<1>1. PICK q \in Nat, r \in 0..n - 1 : x = n * q + r
  BY Divides
<1>2. x % n = r
  BY <1>1, ModIs
<1>3. CASE r = n - 1
  <2>1. x + 1 = n * (q + 1) + 0 /\ q + 1 \in Nat /\ 0 \in 0..n - 1
    <3>1. n * (q + 1) = n * q + n
      OBVIOUS
    <3> QED  BY <1>1, <1>3, <3>1
  <2>2. (x + 1) % n = 0
    BY <2>1, ModIs
  <2> QED  BY <1>2, <1>3, <2>2
<1>4. CASE r # n - 1
  <2>1. x + 1 = n * q + (r + 1) /\ r + 1 \in 0..n - 1
    BY <1>1, <1>4
  <2>2. (x + 1) % n = r + 1
    BY <2>1, ModIs
  <2> QED  BY <1>2, <1>4, <2>2
<1> QED  BY <1>3, <1>4

(* The two bytes of a word                                                  *)
LEMMA WordBytes ==
  ASSUME NEW w \in 0..Word - 1
  PROVE  w % Byte \in 0..Byte - 1 /\ w \div Byte \in 0..Byte - 1
<1>1. Byte \in Nat \ {0} /\ w \in Nat /\ w < Byte * Byte
  BY Bytes DEF Word
<1>2. PICK q \in Nat, r \in 0..Byte - 1 : w = Byte * q + r
  BY <1>1, Divides
<1>3. w % Byte = r /\ w \div Byte = q
  BY <1>1, <1>2, ModIs, DivIs
<1>4. q < Byte
  <2>1. CASE q >= Byte
    <3>1. Byte * q >= Byte * Byte
      BY <1>1, <2>1
    <3> QED  BY <1>1, <1>2, <3>1
  <2> QED  BY <1>1, <2>1
<1> QED  BY <1>1, <1>3, <1>4

-----------------------------------------------------------------------------
(* A chip is brought up to date: each timer for itself, and the flags.      *)
After1(c, d) ==
  IF d < c.t1 THEN c.t1 - d
  ELSE LET rest == (d - c.t1) % (c.latch1 + 2)
       IN  IF rest = 0 THEN 0 ELSE c.latch1 + 2 - rest
Time2(c, d) == IF c.pulses THEN 0 ELSE d
After2(c, d) == IF Time2(c, d) < c.t2 THEN c.t2 - Time2(c, d) ELSE (c.t2 - Time2(c, d)) % Word
Flagged1(c, d) == ~(d < c.t1) /\ ~c.ran1
Flagged2(c, d) == ~(Time2(c, d) < c.t2) /\ ~c.ran2

(* The registers of a chip                                                  *)
LEMMA ChipIs ==
  ASSUME NEW c \in Chip
  PROVE  /\ c.t1 \in 0..Word + 1 /\ c.ran1 \in BOOLEAN /\ c.latch1 \in 0..Word - 1
         /\ c.t2 \in 0..Word + 1 /\ c.ran2 \in BOOLEAN /\ c.low2 \in 0..Byte - 1
         /\ c.ifr \in SUBSET Timers /\ c.ier \in SUBSET Timers
         /\ c.free \in BOOLEAN /\ c.pulses \in BOOLEAN
         /\ c.t1 \in Nat /\ c.t2 \in Nat /\ c.latch1 \in Nat /\ Word \in Nat \ {0, 1}
         /\ c.latch1 + 2 \in Nat \ {0}
<1>1. Word \in Nat \ {0, 1}
  BY Bytes
<1>2. /\ c.t1 \in 0..Word + 1 /\ c.ran1 \in BOOLEAN /\ c.latch1 \in 0..Word - 1
      /\ c.t2 \in 0..Word + 1 /\ c.ran2 \in BOOLEAN /\ c.low2 \in 0..Byte - 1
      /\ c.ifr \in SUBSET Timers /\ c.ier \in SUBSET Timers
      /\ c.free \in BOOLEAN /\ c.pulses \in BOOLEAN
  BY DEF Chip
<1> HIDE DEF Word
<1> QED  BY <1>1, <1>2

(* Flags that are raised                                                    *)
LEMMA FlagsOf ==
  ASSUME NEW s \in SUBSET Timers
  PROVE  s \cup {"t1"} \in SUBSET Timers /\ s \cup {"t2"} \in SUBSET Timers
BY DEF Timers

(* RunsOut without its abbreviations                                        *)
LEMMA RunsOutDef ==
  ASSUME NEW c, NEW d
  PROVE  RunsOut(c, d) = [c EXCEPT !.t1 = IF (d - c.t1) % (c.latch1 + 2) = 0 THEN 0
                                           ELSE (c.latch1 + 2) - ((d - c.t1) % (c.latch1 + 2)),
                                   !.ran1 = ~c.free,
                                   !.ifr = IF c.ran1 THEN c.ifr ELSE c.ifr \cup {"t1"}]
BY Zenon DEF RunsOut

(* RunsOut, with the remainder named                                        *)
LEMMA RunsOutIs ==
  ASSUME NEW c \in Chip, NEW d \in Nat, NEW r, r = (d - c.t1) % (c.latch1 + 2)
  PROVE  /\ After1(c, d) = IF d < c.t1 THEN c.t1 - d ELSE IF r = 0 THEN 0 ELSE (c.latch1 + 2) - r
         /\ RunsOut(c, d) = [c EXCEPT !.t1 = IF r = 0 THEN 0 ELSE (c.latch1 + 2) - r,
                                      !.ran1 = ~c.free,
                                      !.ifr = IF c.ran1 THEN c.ifr ELSE c.ifr \cup {"t1"}]
<1>1. d \in Nat /\ c.t1 \in Nat /\ c.latch1 \in Nat
  BY ChipIs
<1>2. After1(c, d) = IF d < c.t1 THEN c.t1 - d ELSE IF r = 0 THEN 0 ELSE (c.latch1 + 2) - r
  BY <1>1 DEF After1
<1>3. RunsOut(c, d) = [c EXCEPT !.t1 = IF r = 0 THEN 0 ELSE (c.latch1 + 2) - r,
                               !.ran1 = ~c.free,
                               !.ifr = IF c.ran1 THEN c.ifr ELSE c.ifr \cup {"t1"}]
  BY RunsOutDef, Zenon
<1> QED  BY <1>2, <1>3, Zenon

(* Timer 1 stays in its range.                                              *)
LEMMA After1In ==
  ASSUME NEW c \in Chip, NEW d \in Nat
  PROVE  After1(c, d) \in 0..Word + 1
<1> DEFINE p == c.latch1 + 2
           o == d - c.t1
<1>1. p \in Nat \ {0} /\ p <= Word + 1 /\ c.t1 \in 0..Word + 1 /\ Word \in Nat
  BY ChipIs
<1>2. CASE d < c.t1
  BY <1>1, <1>2 DEF After1
<1>3. CASE ~(d < c.t1)
  <2>1. o \in Nat
    BY <1>1, <1>3
  <2> DEFINE left == o % p
  <2>2. left \in 0..p - 1
    <3> HIDE DEF p, o
    <3> QED  BY <1>1, <2>1, ModNext
  <2>3. After1(c, d) = IF left = 0 THEN 0 ELSE p - left
    <3>1. left = (d - c.t1) % (c.latch1 + 2) /\ p = c.latch1 + 2
      OBVIOUS
    <3> HIDE DEF left, p
    <3>2. After1(c, d) = IF d < c.t1 THEN c.t1 - d ELSE IF left = 0 THEN 0 ELSE (c.latch1 + 2) - left
      BY <3>1, RunsOutIs
    <3>3. After1(c, d) = IF left = 0 THEN 0 ELSE (c.latch1 + 2) - left
      BY <1>3, <3>2
    <3> QED  BY <3>1, <3>3
  <2> HIDE DEF left, p
  <2> QED  BY <1>1, <2>2, <2>3
<1> QED  BY <1>2, <1>3

(* Timer 2 stays in its range.                                              *)
LEMMA After2In ==
  ASSUME NEW c \in Chip, NEW d \in Nat
  PROVE  Time2(c, d) \in Nat /\ After2(c, d) \in 0..Word + 1
<1>1. c.t2 \in 0..Word + 1 /\ Word \in Nat \ {0} /\ c.pulses \in BOOLEAN
  BY ChipIs
<1>2. Time2(c, d) \in Nat
  BY DEF Time2
<1> DEFINE n == Time2(c, d)
<1>3. CASE n < c.t2
  BY <1>1, <1>2, <1>3 DEF After2
<1>4. CASE ~(n < c.t2)
  <2> DEFINE x == c.t2 - n
             w == Word
  <2>1. x \in Int /\ w \in Nat \ {0}
    BY <1>1, <1>2
  <2>2. After2(c, d) = x % w
    BY <1>4 DEF After2
  <2> HIDE DEF x, w
  <2>3. x % w \in 0..w - 1
    BY <2>1
  <2>4. x % w \in 0..w + 1
    BY <2>1, <2>3
  <2> QED  BY <1>2, <2>2, <2>4 DEF w
<1> QED  BY <1>2, <1>3, <1>4

(* e is chip c brought up to date after d microseconds, register by register *)
LaterBy(c, d, e) ==
  /\ e \in Chip
  /\ e.t1 = After1(c, d) /\ e.t2 = After2(c, d)
  /\ (e.ran1 <=> IF d < c.t1 THEN c.ran1 ELSE ~c.free)
  /\ (e.ran2 <=> IF Time2(c, d) < c.t2 THEN c.ran2 ELSE TRUE)
  /\ e.ifr = c.ifr \cup (IF Flagged1(c, d) THEN {"t1"} ELSE {})
                   \cup (IF Flagged2(c, d) THEN {"t2"} ELSE {})
  /\ e.latch1 = c.latch1 /\ e.low2 = c.low2 /\ e.ier = c.ier
  /\ (e.free <=> c.free) /\ (e.pulses <=> c.pulses)

(* Bringing a chip up to date does what the registers say.                  *)
LEMMA ElapsedIs ==
  ASSUME NEW c \in Chip, NEW d \in Nat, NEW e, e = Elapsed(c, d)
  PROVE  LaterBy(c, d, e)
<1> DEFINE a == After1(c, d)
           b == After2(c, d)
           u == Elapsed1(c, d)
           f1 == c.ifr \cup (IF Flagged1(c, d) THEN {"t1"} ELSE {})
           f2 == f1 \cup (IF Flagged2(c, d) THEN {"t2"} ELSE {})
<1>1. /\ c.ran1 \in BOOLEAN /\ c.ran2 \in BOOLEAN /\ c.free \in BOOLEAN /\ c.pulses \in BOOLEAN
      /\ c.ifr \in SUBSET Timers
  BY ChipIs
<1>2. PICK x \in BOOLEAN : x <=> IF d < c.t1 THEN c.ran1 ELSE ~c.free
  BY <1>1
<1>3. PICK y \in BOOLEAN : y <=> IF Time2(c, d) < c.t2 THEN c.ran2 ELSE TRUE
  BY <1>1
<1>4. a \in 0..Word + 1 /\ b \in 0..Word + 1
  BY After1In, After2In
<1>5. f1 \in SUBSET Timers /\ f2 \in SUBSET Timers
  <2>1. f1 \in SUBSET Timers
    BY <1>1, FlagsOf
  <2> HIDE DEF f1
  <2> QED  BY <2>1, FlagsOf
<1>6. u = [c EXCEPT !.t1 = a, !.ran1 = x, !.ifr = f1]
  <2>1. CASE d < c.t1
    <3>1. u = [c EXCEPT !.t1 = c.t1 - d]
      BY <2>1 DEF Elapsed1
    <3>2. a = c.t1 - d /\ x = c.ran1 /\ f1 = c.ifr
      BY <1>1, <1>2, <2>1 DEF After1, Flagged1
    <3> QED  BY <3>1, <3>2 DEF Chip
  <2>2. CASE ~(d < c.t1)
    <3> DEFINE left == (d - c.t1) % (c.latch1 + 2)
    <3>1. u = [c EXCEPT !.t1 = IF left = 0 THEN 0 ELSE (c.latch1 + 2) - left, !.ran1 = ~c.free,
                        !.ifr = IF c.ran1 THEN c.ifr ELSE c.ifr \cup {"t1"}]
      <4>1. u = RunsOut(c, d)
        BY <2>2 DEF Elapsed1
      <4>2. RunsOut(c, d) = [c EXCEPT !.t1 = IF left = 0 THEN 0 ELSE (c.latch1 + 2) - left,
                               !.ran1 = ~c.free,
                               !.ifr = IF c.ran1 THEN c.ifr ELSE c.ifr \cup {"t1"}]
        BY RunsOutIs, Zenon
      <4> QED  BY <4>1, <4>2, Zenon
    <3>2. a = IF left = 0 THEN 0 ELSE (c.latch1 + 2) - left
      <4>1. After1(c, d) = IF d < c.t1 THEN c.t1 - d ELSE IF left = 0 THEN 0 ELSE (c.latch1 + 2) - left
        BY RunsOutIs, Zenon
      <4> HIDE DEF left
      <4> QED  BY <2>2, <4>1
    <3>3. x = ~c.free
      BY <1>1, <1>2, <2>2
    <3>4. f1 = IF c.ran1 THEN c.ifr ELSE c.ifr \cup {"t1"}
      BY <2>2 DEF Flagged1
    <3> HIDE DEF left, a, f1, u
    <3> QED  BY <3>1, <3>2, <3>3, <3>4
  <2> QED  BY <2>1, <2>2
<1>7. /\ u.t1 = a /\ u.ran1 = x /\ u.ifr = f1 /\ u.t2 = c.t2 /\ u.ran2 = c.ran2 /\ u.pulses = c.pulses
      /\ u = [u EXCEPT !.t1 = a]
  BY <1>6 DEF Chip
<1>8. e = [u EXCEPT !.t2 = b, !.ran2 = y, !.ifr = f2]
  <2> DEFINE n == Time2(c, d)
  <2>0. e = Elapsed2(u, d) /\ n = IF u.pulses THEN 0 ELSE d
    BY <1>7 DEF Elapsed, Time2
  <2>1. CASE n < c.t2
    <3>1. e = [u EXCEPT !.t2 = c.t2 - n]
      BY <1>7, <2>0, <2>1 DEF Elapsed2
    <3>2. b = c.t2 - n /\ y = c.ran2 /\ f2 = f1
      BY <1>1, <1>3, <2>1 DEF After2, Flagged2
    <3> HIDE DEF u, a, b, f1, f2, n
    <3> QED  BY <1>6, <1>7, <3>1, <3>2, ZenonT(40) DEF Chip
  <2>2. CASE ~(n < c.t2)
    <3>1. e = [u EXCEPT !.t2 = (c.t2 - n) % Word, !.ran2 = TRUE,
                        !.ifr = IF c.ran2 THEN f1 ELSE f1 \cup {"t2"}]
      BY <1>7, <2>0, <2>2 DEF Elapsed2
    <3>2. b = (c.t2 - n) % Word
      BY <2>2 DEF After2
    <3>3. y = TRUE
      BY <1>3, <2>2
    <3>4. f2 = IF c.ran2 THEN f1 ELSE f1 \cup {"t2"}
      BY <2>2 DEF Flagged2
    <3> HIDE DEF u, b, f1, f2, n
    <3> QED  BY <3>1, <3>2, <3>3, <3>4
  <2> QED  BY <2>1, <2>2
<1>9. e = [c EXCEPT !.t1 = a, !.ran1 = x, !.t2 = b, !.ran2 = y, !.ifr = f2]
  <2> HIDE DEF u, a, b, f1, f2
  <2> QED  BY <1>6, <1>8 DEF Chip
<1>10. /\ e.t1 = a /\ e.t2 = b /\ e.ran1 = x /\ e.ran2 = y /\ e.ifr = f2
       /\ e.latch1 = c.latch1 /\ e.low2 = c.low2 /\ e.ier = c.ier
       /\ e.free = c.free /\ e.pulses = c.pulses
       /\ e \in Chip
  <2> HIDE DEF u, a, b, f1, f2
  <2> QED  BY <1>4, <1>5, <1>9 DEF Chip
<1>11. e.ifr = c.ifr \cup (IF Flagged1(c, d) THEN {"t1"} ELSE {})
                     \cup (IF Flagged2(c, d) THEN {"t2"} ELSE {})
  BY <1>10
<1> HIDE DEF f1, f2, u
<1> QED  BY <1>2, <1>3, <1>10, <1>11 DEF LaterBy

-----------------------------------------------------------------------------
(* Least and greatest                                                       *)
LEMMA MaxOfOne ==
  ASSUME NEW t \in Int
  PROVE  Max({t}) = t
BY DEF Max

(* The least of some times                                                  *)
LEMMA MinIs ==
  ASSUME NEW S \in SUBSET Times, S # {}
  PROVE  Min(S) \in S /\ \A y \in S : Min(S) <= y
<1> DEFINE T == {x + MaxInstr : x \in S}
<1>0. MaxInstr \in Nat /\ \A x \in S : x \in Int /\ x + MaxInstr \in Nat
  BY Bytes DEF Times
<1>1. T \in SUBSET Nat /\ T # {}
  <2>1. \A y \in T : y \in Nat
    BY <1>0
  <2>2. PICK x \in S : TRUE
    OBVIOUS
  <2>3. x + MaxInstr \in T
    OBVIOUS
  <2> QED  BY <2>1, <2>3
<1> HIDE DEF T
<1>2. PICK t \in T : \A y \in T : ~ (<<y, t>> \in OpToRel(<, Nat))
  BY <1>1, NatLessThanWellFounded, WFMin, Zenon
<1>3. ASSUME NEW y \in T, y < t PROVE FALSE
  <2> DEFINE ss == <<y, t>>
  <2>1. ss \in Nat \X Nat /\ ss[1] = y /\ ss[2] = t
    BY <1>1
  <2>2. ss \in OpToRel(<, Nat)
    BY <2>1, <1>3 DEF OpToRel
  <2> QED  BY <2>2, <1>2
<1>4. PICK x \in S : t = x + MaxInstr
  BY DEF T
<1>5. ASSUME NEW y \in S PROVE x <= y
  <2>1. y + MaxInstr \in T /\ t \in Nat
    BY <1>1 DEF T
  <2>2. ~ (y + MaxInstr < t)
    BY <1>3, <2>1
  <2> QED  BY <1>0, <1>4, <2>2
<1> QED  BY <1>5 DEF Min

(* The parts of a board                                                     *)
LEMMA BoardIs ==
  ASSUME NEW b \in Boards
  PROVE  /\ b.pair \in [Pairs -> Chip] /\ b.behind \in 0..MaxAlone /\ b.behind \in Nat
         /\ b.adrift \in SUBSET Skews /\ b.due \in SUBSET Times /\ b.irq \in SUBSET Pairs
         /\ b.pair[0] \in Chip /\ b.pair[1] \in Chip
         /\ \A i \in Pairs : b.pair[i] \in Chip
BY Bytes DEF Boards, Pairs

(* The time that has passed, with what a reset leaves of it                 *)
LEMMA SinceIs ==
  ASSUME NEW b \in Boards, AtMostOne(b.adrift, Skews)
  PROVE  /\ Since(b) \in Nat
         /\ b.adrift = {} => Since(b) = b.behind
         /\ \A t \in Skews : b.adrift = {t} => Since(b) = b.behind + t
<1>1. b.behind \in Nat
  BY BoardIs
<1>2. CASE b.adrift = {}
  BY <1>1, <1>2 DEF Since
<1>3. ASSUME NEW t \in Skews, b.adrift = {t}
      PROVE  Since(b) = b.behind + t /\ t \in Nat
  <2>1. t \in Nat
    BY Bytes DEF Skews, Word
  <2>2. Max(b.adrift) = t
    BY <1>3, <2>1, MaxOfOne
  <2> QED  BY <1>3, <2>1, <2>2 DEF Since
<1> QED  BY <1>1, <1>2, <1>3 DEF AtMostOne

-----------------------------------------------------------------------------
(* When the next event has to come                                          *)
LEMMA ForeseenIs ==
  ASSUME NEW c \in Chip, NEW d \in Nat
  PROVE  /\ Foreseen(c, d) \in SUBSET Times
         /\ d < c.t1 /\ "t1" \in c.ier \ c.ifr => After1(c, d) \in Foreseen(c, d)
         /\ Time2(c, d) < c.t2 /\ "t2" \in c.ier \ c.ifr => After2(c, d) \in Foreseen(c, d)
<1> DEFINE e == Elapsed(c, d)
<1>1. e.t1 = After1(c, d) /\ e.t2 = After2(c, d)
  BY ElapsedIs DEF LaterBy
<1>2. e.t1 \in Times /\ e.t2 \in Times
  <2>1. After1(c, d) \in 0..Word + 1 /\ After2(c, d) \in 0..Word + 1
    BY After1In, After2In
  <2>2. Word \in Nat /\ MaxInstr \in Nat
    BY Bytes
  <2>3. \A x \in 0..Word + 1 : x \in Times
    BY <2>2 DEF Times
  <2> QED  BY <1>1, <2>1, <2>3
<1>3. Foreseen(c, d) = (IF d < c.t1 /\ "t1" \in c.ier \ c.ifr THEN {e.t1} ELSE {})
        \cup (IF Time2(c, d) < c.t2 /\ "t2" \in c.ier \ c.ifr THEN {e.t2} ELSE {})
  BY DEF Foreseen, Time2
<1> HIDE DEF e
<1> QED  BY <1>1, <1>2, <1>3

(* The event comes no later than anything that is foreseen.                 *)
LEMMA NextDueIs ==
  ASSUME NEW b \in Boards, AtMostOne(b.adrift, Skews), AtMostOne(b.due, Times)
  PROVE  /\ AtMostOne(NextDue(b), Times)
         /\ \A i \in Pairs : \A x \in Foreseen(b.pair[i], Since(b)) : \E t \in NextDue(b) : t <= x
<1> DEFINE F(i) == Foreseen(b.pair[i], Since(b))
           times == UNION {F(i) : i \in Pairs}
<1>1. \A i \in Pairs : F(i) \in SUBSET Times
  BY BoardIs, SinceIs, ForeseenIs
<1>2. times \in SUBSET Times /\ \A i \in Pairs : F(i) \subseteq times
  BY <1>1
<1>3. NextDue(b) = IF times = {} THEN b.due ELSE {Min(times \cup b.due)}
  BY DEF NextDue
<1>4. b.due \in SUBSET Times
  BY BoardIs
<1> HIDE DEF times, F
<1>5. CASE times = {}
  BY <1>2, <1>3, <1>5 DEF F
<1>6. CASE times # {}
  <2> DEFINE S == times \cup b.due
  <2>1. S \in SUBSET Times /\ S # {}
    BY <1>2, <1>4, <1>6
  <2>2. Min(S) \in S /\ \A y \in S : Min(S) <= y
    BY <2>1, MinIs
  <2>3. NextDue(b) = {Min(S)} /\ Min(S) \in Times
    BY <1>3, <1>6, <2>1, <2>2
  <2>4. \A i \in Pairs : F(i) \subseteq S
    BY <1>2
  <2> HIDE DEF S
  <2> QED  BY <2>2, <2>3, <2>4 DEF AtMostOne, F
<1> QED  BY <1>5, <1>6

-----------------------------------------------------------------------------
(* The board is brought up to date, chip by chip.                           *)
LEMMA NewIfrIs ==
  ASSUME NEW b \in Boards, NEW i \in Pairs, NEW flags \in SUBSET Timers, NEW r, r = NewIfr(b, i, flags)
  PROVE  /\ r \in Boards /\ r.pair[i] = [b.pair[i] EXCEPT !.ifr = flags]
         /\ \A j \in Pairs : j # i => r.pair[j] = b.pair[j] /\ ((j \in r.irq) <=> j \in b.irq)
         /\ ((i \in r.irq) <=> flags \cap b.pair[i].ier # {})
         /\ r.behind = b.behind /\ r.adrift = b.adrift /\ r.due = b.due
<1> DEFINE k == [b.pair[i] EXCEPT !.ifr = flags]
           q == IF flags \cap b.pair[i].ier = {} THEN b.irq \ {i} ELSE b.irq \cup {i}
<1>1. k \in Chip /\ b.pair \in [Pairs -> Chip] /\ b.irq \in SUBSET Pairs
  <2>1. b.pair[i] \in Chip
    BY BoardIs
  <2> QED  BY <2>1, BoardIs DEF Chip
<1>2. r = [b EXCEPT !.pair = [b.pair EXCEPT ![i] = k], !.irq = q]
  BY <1>1 DEF NewIfr, Boards
<1>3. q \in SUBSET Pairs /\ ((i \in q) <=> flags \cap b.pair[i].ier # {})
      /\ \A j \in Pairs : j # i => ((j \in q) <=> j \in b.irq)
  BY <1>1
<1> HIDE DEF k, q
<1>4. [b.pair EXCEPT ![i] = k] \in [Pairs -> Chip]
  BY <1>1
<1>5. r \in Boards /\ r.pair = [b.pair EXCEPT ![i] = k] /\ r.irq = q
      /\ r.behind = b.behind /\ r.adrift = b.adrift /\ r.due = b.due
  BY <1>2, <1>3, <1>4 DEF Boards
<1> QED  BY <1>1, <1>3, <1>5 DEF k

(* One chip is brought up to date, and its line follows its flags.          *)
LEMMA UpdateOneIs ==
  ASSUME NEW b \in Boards, AtMostOne(b.adrift, Skews), NEW i \in Pairs, NEW r, r = UpdateOne(b, i)
  PROVE  /\ r \in Boards /\ r.pair[i] = Elapsed(b.pair[i], Since(b))
         /\ \A j \in Pairs : j # i => r.pair[j] = b.pair[j] /\ ((j \in r.irq) <=> j \in b.irq)
         /\ ((i \in b.irq) <=> b.pair[i].ifr \cap b.pair[i].ier # {})
              => ((i \in r.irq) <=> r.pair[i].ifr \cap r.pair[i].ier # {})
         /\ r.behind = b.behind /\ r.adrift = b.adrift /\ r.due = b.due
<1> DEFINE c == b.pair[i]
           d == Since(b)
           e == Elapsed(c, d)
           n == [b EXCEPT !.pair[i] = e]
<1>1. c \in Chip /\ d \in Nat /\ b.pair \in [Pairs -> Chip]
  BY BoardIs, SinceIs
<1> HIDE DEF d
<1>2. e \in Chip /\ e.ier = c.ier /\ e.ifr \in SUBSET Timers
  <2>1. e \in Chip /\ e.ier = c.ier
    BY <1>1, ElapsedIs DEF LaterBy
  <2> HIDE DEF e
  <2> QED  BY <2>1, ChipIs
<1>3. r = IF e.ifr = c.ifr THEN n ELSE NewIfr(n, i, e.ifr)
  BY DEF UpdateOne, d
<1> HIDE DEF e
<1>4. n \in Boards /\ n.pair = [b.pair EXCEPT ![i] = e] /\ n.irq = b.irq
      /\ n.behind = b.behind /\ n.adrift = b.adrift /\ n.due = b.due
  BY <1>1, <1>2 DEF Boards
<1>5. n.pair[i] = e /\ \A j \in Pairs : j # i => n.pair[j] = b.pair[j]
  BY <1>1, <1>4
<1> HIDE DEF n
<1>6. CASE e.ifr = c.ifr
  <2>1. r = n
    BY <1>3, <1>6
  <2> QED  BY <1>2, <1>4, <1>5, <1>6, <2>1 DEF e, d
<1>7. CASE e.ifr # c.ifr
  <2>1. r = NewIfr(n, i, e.ifr)
    BY <1>3, <1>7
  <2>2. /\ r \in Boards /\ r.pair[i] = [n.pair[i] EXCEPT !.ifr = e.ifr]
        /\ \A j \in Pairs : j # i => r.pair[j] = n.pair[j] /\ ((j \in r.irq) <=> j \in n.irq)
        /\ ((i \in r.irq) <=> e.ifr \cap n.pair[i].ier # {})
        /\ r.behind = n.behind /\ r.adrift = n.adrift /\ r.due = n.due
    <3>1. n \in Boards /\ e.ifr \in SUBSET Timers
      BY <1>2, <1>4
    <3> QED  BY <2>1, <3>1, NewIfrIs
  <2>3. r.pair[i] = e
    BY <1>2, <1>5, <2>2 DEF Chip
  <2> QED  BY <1>4, <1>5, <2>2, <2>3 DEF e, d
<1> QED  BY <1>6, <1>7

(* Bringing a chip up to date leaves nothing overlooked.                    *)
LEMMA ElapsedOK ==
  ASSUME NEW c \in Chip, NEW d \in Nat, Minded(c, d), NEW e, e = Elapsed(c, d)
  PROVE  Steady(e) /\ Minded(e, 0)
<1>1. /\ e.t1 = After1(c, d) /\ e.t2 = After2(c, d)
      /\ (e.ran1 <=> IF d < c.t1 THEN c.ran1 ELSE ~c.free)
      /\ (e.ran2 <=> IF Time2(c, d) < c.t2 THEN c.ran2 ELSE TRUE)
      /\ e.ifr = c.ifr \cup (IF Flagged1(c, d) THEN {"t1"} ELSE {})
                       \cup (IF Flagged2(c, d) THEN {"t2"} ELSE {})
      /\ (e.free <=> c.free) /\ e \in Chip
  BY ElapsedIs DEF LaterBy
<1>2. c.t1 \in Nat /\ c.t2 \in Nat /\ e.t1 \in Nat /\ Time2(c, d) \in Nat
  BY <1>1, ChipIs, After2In
<1>3. d < c.t1 => e.t1 > 0
  BY <1>1, <1>2 DEF After1
<1>4. Time2(c, d) < c.t2 => e.t2 > 0
  BY <1>1, <1>2 DEF After2
<1>5. Minded(e, 0)
  BY <1>1, <1>3 DEF Minded
<1>6. e.t2 = 0 => e.ran2
  BY <1>1, <1>4
<1>7. ASSUME e.t1 = 0 PROVE (e.ran1 <=> ~e.free) /\ (e.ran1 \/ "t1" \in e.ifr)
  <2>1. ~(d < c.t1)
    BY <1>3, <1>7
  <2>2. e.ran1 <=> ~c.free
    BY <1>1, <2>1
  <2>3. c.free => ~c.ran1
    BY <2>1 DEF Minded
  <2>4. ~c.ran1 => "t1" \in e.ifr
    BY <1>1, <2>1 DEF Flagged1
  <2> QED  BY <1>1, <2>2, <2>3, <2>4
<1> QED  BY <1>5, <1>6, <1>7 DEF Steady

(* What is foreseen is all that can interrupt.                              *)
LEMMA DueAfter ==
  ASSUME NEW c \in Chip, NEW d \in Nat, Minded(c, d), NEW e, e = Elapsed(c, d),
         NEW due \in SUBSET Times, \A x \in Foreseen(c, d) : \E t \in due : t <= x
  PROVE  DueFor(e, due, 0)
<1>1. /\ e.t1 = After1(c, d) /\ e.t2 = After2(c, d)
      /\ (e.ran1 <=> IF d < c.t1 THEN c.ran1 ELSE ~c.free)
      /\ (e.ran2 <=> IF Time2(c, d) < c.t2 THEN c.ran2 ELSE TRUE)
      /\ e.ifr = c.ifr \cup (IF Flagged1(c, d) THEN {"t1"} ELSE {})
                       \cup (IF Flagged2(c, d) THEN {"t2"} ELSE {})
      /\ e.ier = c.ier
  BY ElapsedIs DEF LaterBy
<1>2. e.t1 - 0 = e.t1 /\ e.t2 - 0 = e.t2
  <2>1. e.t1 \in Int /\ e.t2 \in Int
    <3>1. e \in Chip
      BY ElapsedIs DEF LaterBy
    <3>2. e.t1 \in Nat /\ e.t2 \in Nat
      BY <3>1, ChipIs
    <3> QED  BY <3>2
  <2> QED  BY <2>1
<1>3. ASSUME "t1" \in e.ier \ e.ifr, ~e.ran1 PROVE \E t \in due : t <= e.t1
  <2>1. "t1" \in c.ier \ c.ifr
    BY <1>1, <1>3
  <2>2. CASE d < c.t1
    BY <1>1, <2>1, <2>2, ForeseenIs
  <2>3. CASE ~(d < c.t1)
    <3>1. c.free /\ ~c.ran1
      BY <1>1, <1>3, <2>3 DEF Minded
    <3> QED  BY <1>1, <1>3, <2>3, <3>1 DEF Flagged1
  <2> QED  BY <2>2, <2>3
<1>4. ASSUME "t2" \in e.ier \ e.ifr, ~e.ran2 PROVE \E t \in due : t <= e.t2
  <2>1. "t2" \in c.ier \ c.ifr /\ Time2(c, d) < c.t2
    BY <1>1, <1>4
  <2> QED  BY <1>1, <2>1, ForeseenIs
<1> QED  BY <1>2, <1>3, <1>4 DEF DueFor

(* Bringing the board up to date puts it in order, whatever was written.    *)
LEMMA UpdateIs ==
  ASSUME NEW b, Ready(b), NEW u, u = Update(b)
  PROVE  /\ BoardOK(u) /\ u.behind = 0 /\ u.adrift = {} /\ Since(u) = 0
         /\ \A i \in Pairs : u.pair[i] = Elapsed(b.pair[i], Since(b))
<1> DEFINE r == UpdateOne(b, 0)
           s == UpdateOne(r, 1)
<1>1. b \in Boards /\ AtMostOne(b.adrift, Skews) /\ AtMostOne(b.due, Times) /\ IrqOK(b)
      /\ \A i \in Pairs : Minded(b.pair[i], Since(b))
  BY DEF Ready
<1>2. Pairs = {0, 1} /\ 0 # 1 /\ Since(b) \in Nat
  BY <1>1, SinceIs DEF Pairs
<1>3. /\ r \in Boards /\ r.pair[0] = Elapsed(b.pair[0], Since(b)) /\ r.pair[1] = b.pair[1]
      /\ ((1 \in r.irq) <=> 1 \in b.irq)
      /\ ((0 \in r.irq) <=> r.pair[0].ifr \cap r.pair[0].ier # {})
      /\ r.behind = b.behind /\ r.adrift = b.adrift /\ r.due = b.due
  <2>1. (0 \in b.irq) <=> b.pair[0].ifr \cap b.pair[0].ier # {}
    BY <1>1, <1>2 DEF IrqOK
  <2> HIDE DEF r
  <2>2. r = UpdateOne(b, 0) /\ 0 \in Pairs /\ 1 \in Pairs
    BY <1>2 DEF r
  <2> QED  BY <1>1, <1>2, <2>1, <2>2, UpdateOneIs
<1> HIDE DEF r
<1>4. Since(r) = Since(b)
  BY <1>3 DEF Since
<1>5. /\ s \in Boards /\ s.pair[1] = Elapsed(b.pair[1], Since(b)) /\ s.pair[0] = r.pair[0]
      /\ ((0 \in s.irq) <=> 0 \in r.irq)
      /\ ((1 \in s.irq) <=> s.pair[1].ifr \cap s.pair[1].ier # {})
      /\ s.behind = b.behind /\ s.adrift = b.adrift /\ s.due = b.due
  <2>1. (1 \in r.irq) <=> r.pair[1].ifr \cap r.pair[1].ier # {}
    BY <1>1, <1>2, <1>3 DEF IrqOK
  <2>2. AtMostOne(r.adrift, Skews)
    BY <1>1, <1>3
  <2> HIDE DEF s
  <2>3. s = UpdateOne(r, 1) /\ 0 \in Pairs /\ 1 \in Pairs
    BY <1>2 DEF s
  <2> QED  BY <1>2, <1>3, <1>4, <2>1, <2>2, <2>3, UpdateOneIs
<1>6. u = [s EXCEPT !.due = NextDue(b), !.behind = 0, !.adrift = {}]
  BY DEF Update, r, s
<1> HIDE DEF s
<1>7. AtMostOne(NextDue(b), Times)
      /\ \A i \in Pairs : \A x \in Foreseen(b.pair[i], Since(b)) : \E t \in NextDue(b) : t <= x
  BY <1>1, NextDueIs
<1>8. NextDue(b) \in SUBSET Times
  BY <1>7 DEF AtMostOne
<1>9. /\ u \in Boards /\ u.pair = s.pair /\ u.irq = s.irq /\ u.behind = 0 /\ u.adrift = {}
      /\ u.due = NextDue(b)
  <2>1. 0 \in 0..MaxAlone
    BY Bytes
  <2> QED  BY <1>5, <1>6, <1>8, <2>1 DEF Boards
<1>10. \A i \in Pairs : u.pair[i] = Elapsed(b.pair[i], Since(b))
  BY <1>2, <1>3, <1>5, <1>9
<1>11. Since(u) = 0
  BY <1>9 DEF Since
<1>12. \A i \in Pairs : b.pair[i] \in Chip
  BY <1>1, BoardIs
<1>13. \A i \in Pairs : Steady(u.pair[i]) /\ Minded(u.pair[i], 0)
  BY <1>1, <1>2, <1>10, <1>12, ElapsedOK
<1>14. \A i \in Pairs : DueFor(u.pair[i], u.due, 0)
  BY <1>1, <1>2, <1>7, <1>8, <1>9, <1>10, <1>12, DueAfter
<1>15. IrqOK(u)
  BY <1>2, <1>3, <1>5, <1>9 DEF IrqOK
<1>16. AtMostOne(u.adrift, Skews) /\ AtMostOne(u.due, Times)
  BY <1>7, <1>9 DEF AtMostOne
<1> QED  BY <1>9, <1>10, <1>11, <1>13, <1>14, <1>15, <1>16 DEF BoardOK, Ready

-----------------------------------------------------------------------------
(* The program's steps                                                      *)
LEMMA PassedOK ==
  ASSUME MockQuirks = {}, MInv, NEW n \in 0..MaxInstr, MockRuns(n), NEW b, b = MockPassed(n)
  PROVE  /\ BoardOK(b) /\ b.pair = mock.pair /\ b.adrift = mock.adrift
         /\ Since(b) = Since(mock) + n /\ b.behind = mock.behind + n
<1>1. /\ mock \in Boards /\ AtMostOne(mock.adrift, Skews) /\ AtMostOne(mock.due, Times)
      /\ IrqOK(mock) /\ \A i \in Pairs : Steady(mock.pair[i])
      /\ mock.adrift # {} => mock.pair = [i \in Pairs |-> FreshChip] /\ mock.due = {}
      /\ mock.adrift = {} => \A i \in Pairs : DueFor(mock.pair[i], mock.due, mock.behind)
  BY DEF MInv, BoardOK, Ready
<1>2. /\ \A t \in mock.due : t > 0
      /\ mock.behind + n <= MaxAlone
      /\ \A i \in Pairs : ~Forgotten(mock.pair[i], Since(mock) + n)
  BY DEF MockRuns
<1>3. n \in Nat /\ n <= MaxInstr /\ MaxInstr \in Nat /\ MaxAlone \in Nat /\ Word \in Nat
  BY Bytes
<1> DEFINE due == {t - n : t \in mock.due}
<1>4. AtMostOne(due, Times) /\ due \in SUBSET Times
  <2>1. CASE mock.due = {}
    BY <2>1 DEF AtMostOne
  <2>2. ASSUME NEW t \in Times, mock.due = {t} PROVE due = {t - n} /\ t - n \in Times
    <3>1. t > 0 /\ t \in Int /\ t <= Word + 1
      BY <1>2, <1>3, <2>2 DEF Times
    <3>2. t - n \in Times
      BY <1>3, <3>1 DEF Times
    <3> QED  BY <2>2, <3>2
  <2> QED  BY <1>1, <2>1, <2>2 DEF AtMostOne
<1>5. b = [mock EXCEPT !.behind = mock.behind + n, !.due = due]
  BY DEF MockPassed
<1>6. mock.behind + n \in 0..MaxAlone /\ mock.behind \in Nat
  BY <1>1, <1>2, <1>3, BoardIs
<1> HIDE DEF due
<1>7. /\ b \in Boards /\ b.pair = mock.pair /\ b.irq = mock.irq /\ b.adrift = mock.adrift
      /\ b.behind = mock.behind + n /\ b.due = due
  BY <1>1, <1>4, <1>5, <1>6 DEF Boards
<1>8. Since(b) = Since(mock) + n /\ Since(mock) \in Nat
  <2>1. CASE mock.adrift = {}
    BY <1>1, <1>6, <1>7, <2>1, SinceIs
  <2>2. ASSUME NEW t \in Skews, mock.adrift = {t} PROVE Since(b) = Since(mock) + n /\ Since(mock) \in Nat
    <3>1. Since(mock) = mock.behind + t /\ Since(b) = b.behind + t
      BY <1>1, <1>7, <2>2, SinceIs
    <3>2. t \in Nat
      BY Bytes DEF Skews, Word
    <3> QED  BY <1>3, <1>6, <1>7, <3>1, <3>2
  <2> QED  BY <1>1, <2>1, <2>2 DEF AtMostOne
<1>9. \A i \in Pairs : Minded(b.pair[i], Since(b))
  <2> SUFFICES ASSUME NEW i \in Pairs PROVE Minded(b.pair[i], Since(b))
    OBVIOUS
  <2>1. ~Forgotten(b.pair[i], Since(b))
    BY <1>2, <1>7, <1>8
  <2>2. Since(b) \in Nat /\ b.pair[i].t1 \in Nat
    BY <1>3, <1>7, <1>8, BoardIs, ChipIs
  <2> QED  BY <2>1, <2>2 DEF Forgotten, Minded
<1>10. b.adrift = {} => \A i \in Pairs : DueFor(b.pair[i], b.due, b.behind)
  <2> SUFFICES ASSUME mock.adrift = {}, NEW i \in Pairs
               PROVE  DueFor(b.pair[i], due, mock.behind + n)
    BY <1>7
  <2> DEFINE c == mock.pair[i]
  <2>1. DueFor(c, mock.due, mock.behind) /\ c.t1 \in Nat /\ c.t2 \in Nat
    BY <1>1, BoardIs, ChipIs
  <2>2. ASSUME NEW x \in Nat, NEW t \in mock.due, t <= x - mock.behind
        PROVE  \E s \in due : s <= x - (mock.behind + n)
    <3>1. t - n \in due /\ t \in Int
      BY <1>1, BoardIs DEF due, Times
    <3>2. t - n <= x - (mock.behind + n)
      BY <1>3, <1>6, <2>2, <3>1
    <3> QED  BY <3>1, <3>2
  <2> HIDE DEF c
  <2>3. DueFor(c, due, mock.behind + n)
    BY <2>1, <2>2 DEF DueFor
  <2> QED  BY <1>7, <2>3 DEF c
<1>11. b.adrift # {} => b.pair = [i \in Pairs |-> FreshChip] /\ b.due = {}
  BY <1>1, <1>7 DEF due
<1>12. IrqOK(b)
  BY <1>1, <1>7 DEF IrqOK
<1> QED  BY <1>1, <1>4, <1>7, <1>8, <1>9, <1>10, <1>11, <1>12 DEF BoardOK, Ready

(* What the accesses write into a chip                                      *)
Loaded1(c, w) == [c EXCEPT !.latch1 = w, !.t1 = w + 2, !.ran1 = FALSE, !.ifr = c.ifr \ {"t1"}]
Loaded2(c, v) == [c EXCEPT !.t2 = v * Byte + c.low2 + 2, !.ran2 = FALSE, !.ifr = c.ifr \ {"t2"}]
Latched1(c, w) == [c EXCEPT !.latch1 = w, !.ifr = c.ifr \ {"t1"}]
Moded(c, f, p) == [c EXCEPT !.free = f, !.pulses = p]

(* A chip is given new contents.                                            *)
With(b, i, k) == [b EXCEPT !.pair[i] = k]

(* Only that chip changes.                                                  *)
LEMMA WithIs ==
  ASSUME NEW b \in Boards, NEW i \in Pairs, NEW k \in Chip, NEW w, w = With(b, i, k)
  PROVE  /\ w \in Boards /\ w.pair[i] = k /\ \A j \in Pairs : j # i => w.pair[j] = b.pair[j]
         /\ w.irq = b.irq /\ w.behind = b.behind /\ w.adrift = b.adrift /\ w.due = b.due
         /\ Since(w) = Since(b)
<1>1. b.pair \in [Pairs -> Chip]
  BY BoardIs
<1>2. /\ w \in Boards /\ w.pair = [b.pair EXCEPT ![i] = k]
      /\ w.irq = b.irq /\ w.behind = b.behind /\ w.adrift = b.adrift /\ w.due = b.due
  BY <1>1 DEF With, Boards
<1>3. Since(w) = Since(b)
  BY <1>2 DEF Since
<1> QED  BY <1>1, <1>2, <1>3

(* A chip that is up to date is changed, its flags too, and the board is    *)
(* brought up to date again.                                                *)
LEMMA ChangedIs ==
  ASSUME NEW u, BoardOK(u), u.adrift = {}, NEW i \in Pairs, NEW k \in Chip,
         Minded(k, Since(u)), NEW flags \in SUBSET Timers,
         NEW r, r = NewIfr(With(u, i, k), i, flags)
  PROVE  /\ Ready(r) /\ r.pair[i] = [k EXCEPT !.ifr = flags] /\ Since(r) = Since(u) /\ r.adrift = {}
         /\ \A j \in Pairs : j # i => r.pair[j] = u.pair[j]
<1> DEFINE w == With(u, i, k)
<1>1. /\ u \in Boards /\ AtMostOne(u.adrift, Skews) /\ AtMostOne(u.due, Times)
      /\ IrqOK(u) /\ \A j \in Pairs : Minded(u.pair[j], Since(u))
  BY DEF BoardOK, Ready
<1>2. /\ w \in Boards /\ w.pair[i] = k /\ \A j \in Pairs : j # i => w.pair[j] = u.pair[j]
      /\ w.irq = u.irq /\ w.behind = u.behind /\ w.adrift = u.adrift /\ w.due = u.due
      /\ Since(w) = Since(u)
  BY <1>1, WithIs
<1>3. r = NewIfr(w, i, flags)
  OBVIOUS
<1> HIDE DEF w
<1>4. /\ r \in Boards /\ r.pair[i] = [k EXCEPT !.ifr = flags]
      /\ \A j \in Pairs : j # i => r.pair[j] = u.pair[j] /\ ((j \in r.irq) <=> j \in u.irq)
      /\ ((i \in r.irq) <=> flags \cap k.ier # {})
      /\ r.behind = u.behind /\ r.adrift = u.adrift /\ r.due = u.due
  BY <1>2, <1>3, NewIfrIs
<1>5. r.pair[i].ifr = flags /\ r.pair[i].ier = k.ier /\ r.pair[i].t1 = k.t1
      /\ (r.pair[i].ran1 <=> k.ran1) /\ (r.pair[i].free <=> k.free)
  BY <1>4 DEF Chip
<1>6. Since(r) = Since(u)
  BY <1>4 DEF Since
<1>7. IrqOK(r)
  BY <1>1, <1>4, <1>5, ZenonT(40) DEF IrqOK
<1>8. \A j \in Pairs : Minded(r.pair[j], Since(r))
  <2>1. Minded(r.pair[i], Since(r))
    BY <1>5, <1>6 DEF Minded
  <2> QED  BY <1>1, <1>4, <1>6, <2>1
<1> QED  BY <1>1, <1>4, <1>6, <1>7, <1>8 DEF Ready

(* Bringing an up-to-date chip up to date changes nothing.                  *)
LEMMA StillIs ==
  ASSUME NEW c \in Chip, Steady(c)
  PROVE  Elapsed(c, 0) = c
<1> DEFINE e == Elapsed(c, 0)
<1>1. /\ e \in Chip /\ e.t1 = After1(c, 0) /\ e.t2 = After2(c, 0)
      /\ (e.ran1 <=> IF 0 < c.t1 THEN c.ran1 ELSE ~c.free)
      /\ (e.ran2 <=> IF Time2(c, 0) < c.t2 THEN c.ran2 ELSE TRUE)
      /\ e.ifr = c.ifr \cup (IF Flagged1(c, 0) THEN {"t1"} ELSE {})
                       \cup (IF Flagged2(c, 0) THEN {"t2"} ELSE {})
      /\ e.latch1 = c.latch1 /\ e.low2 = c.low2 /\ e.ier = c.ier
      /\ (e.free <=> c.free) /\ (e.pulses <=> c.pulses)
  BY ElapsedIs DEF LaterBy
<1>2. c.t1 \in Nat /\ c.t2 \in Nat /\ c.latch1 + 2 \in Nat \ {0} /\ Word \in Nat \ {0, 1} /\ c.latch1 \in Nat
  BY ChipIs
<1>3. Time2(c, 0) = 0
  BY DEF Time2
<1>4. e.t1 = c.t1
  <2>1. CASE 0 < c.t1
    BY <1>1, <1>2, <2>1 DEF After1
  <2>2. CASE c.t1 = 0
    <3> DEFINE p == c.latch1 + 2
               r == (0 - c.t1) % p
    <3>0. r = (0 - c.t1) % (c.latch1 + 2)
      OBVIOUS
    <3>1. r = 0
      <4>1. 0 - c.t1 = 0 /\ p \in Nat \ {0}
        BY <1>2, <2>2
      <4> HIDE DEF p
      <4>2. 0 % p = 0
        BY <4>1
      <4> QED  BY <4>1, <4>2
    <3>2. After1(c, 0) = IF 0 < c.t1 THEN c.t1 - 0 ELSE IF r = 0 THEN 0 ELSE (c.latch1 + 2) - r
      <4> HIDE DEF r, p
      <4> QED  BY <3>0, RunsOutIs
    <3> HIDE DEF r
    <3>3. ~(0 < c.t1)
      BY <1>2, <2>2
    <3> QED  BY <1>1, <2>2, <3>1, <3>2, <3>3
  <2> QED  BY <1>2, <2>1, <2>2
<1>5. e.t2 = c.t2
  <2>1. CASE 0 < c.t2
    BY <1>1, <1>2, <1>3, <2>1 DEF After2
  <2>2. CASE c.t2 = 0
    <3>1. After2(c, 0) = (c.t2 - 0) % Word
      BY <1>2, <1>3, <2>2 DEF After2
    <3>2. c.t2 - 0 = 0 /\ 0 % Word = 0
      BY <1>2, <2>2
    <3> QED  BY <1>1, <2>2, <3>1, <3>2
  <2> QED  BY <1>2, <2>1, <2>2
<1>6. (e.ran1 <=> c.ran1) /\ (e.ran2 <=> c.ran2)
  BY <1>1, <1>2, <1>3 DEF Steady
<1>7. e.ifr = c.ifr
  <2>1. Flagged1(c, 0) => "t1" \in c.ifr
    BY <1>2 DEF Flagged1, Steady
  <2>2. ~Flagged2(c, 0)
    BY <1>2, <1>3 DEF Flagged2, Steady
  <2> QED  BY <1>1, <2>1, <2>2
<1> HIDE DEF e
<1>8. e = c
  BY <1>1, <1>4, <1>5, <1>6, <1>7 DEF Chip
<1> QED  BY <1>8 DEF e

(* An update, new contents with new flags, and another update               *)
LEMMA SetsIs ==
  ASSUME NEW b, Ready(b), NEW i \in Pairs, NEW u, u = Update(b), NEW k \in Chip, Minded(k, 0),
         NEW flags \in SUBSET Timers, NEW r, r = Update(NewIfr(With(u, i, k), i, flags))
  PROVE  /\ BoardOK(r) /\ r.adrift = {} /\ r.behind = 0 /\ Since(r) = 0
         /\ r.pair[i] = Elapsed([k EXCEPT !.ifr = flags], 0)
         /\ \A j \in Pairs : j # i => r.pair[j] = Elapsed(b.pair[j], Since(b))
<1>1. /\ BoardOK(u) /\ u.behind = 0 /\ u.adrift = {} /\ Since(u) = 0
      /\ \A j \in Pairs : u.pair[j] = Elapsed(b.pair[j], Since(b))
  BY UpdateIs
<1> DEFINE w == NewIfr(With(u, i, k), i, flags)
<1>2. /\ Ready(w) /\ w.pair[i] = [k EXCEPT !.ifr = flags] /\ Since(w) = 0
      /\ \A j \in Pairs : j # i => w.pair[j] = u.pair[j]
  BY <1>1, ChangedIs
<1>3. r = Update(w)
  OBVIOUS
<1> HIDE DEF w
<1>4. /\ BoardOK(r) /\ r.behind = 0 /\ r.adrift = {} /\ Since(r) = 0
      /\ \A j \in Pairs : r.pair[j] = Elapsed(w.pair[j], 0)
  BY <1>2, <1>3, UpdateIs
<1>5. \A j \in Pairs : u.pair[j] \in Chip /\ Steady(u.pair[j])
  BY <1>1, BoardIs DEF BoardOK, Ready
<1>6. \A j \in Pairs : j # i => r.pair[j] = u.pair[j]
  BY <1>2, <1>4, <1>5, StillIs
<1> QED  BY <1>1, <1>2, <1>4, <1>6

-----------------------------------------------------------------------------
(* Each access, on a board b that is Ready and up to date only at u         *)
LEMMA ClearFlagIs ==
  ASSUME NEW b, Ready(b), NEW i \in Pairs, NEW ts, NEW r, r = ClearFlag(b, i, ts),
         NEW c, c = Elapsed(b.pair[i], Since(b))
  PROVE  /\ BoardOK(r) /\ r.adrift = {} /\ r.behind = 0 /\ Since(r) = 0 /\ c \in Chip
         /\ r.pair[i] = Elapsed([c EXCEPT !.ifr = c.ifr \ ts], 0)
         /\ \A j \in Pairs : j # i => r.pair[j] = Elapsed(b.pair[j], Since(b))
<1> DEFINE u == Update(b)
<1>1. /\ BoardOK(u) /\ Since(u) = 0 /\ u.pair[i] = c
  BY UpdateIs
<1>2. u \in Boards /\ u.pair \in [Pairs -> Chip] /\ c \in Chip /\ Minded(c, 0)
  BY <1>1, BoardIs DEF BoardOK, Ready
<1>3. r = Update(NewIfr(u, i, c.ifr \ ts))
  BY <1>1 DEF ClearFlag
<1> HIDE DEF u
<1>4. With(u, i, c) = u
  BY <1>1, <1>2 DEF With, Boards
<1>5. c.ifr \ ts \in SUBSET Timers
  BY <1>2, ChipIs
<1>6. u = Update(b)
  BY DEF u
<1> DEFINE flags == c.ifr \ ts
<1>7. r = Update(NewIfr(With(u, i, c), i, flags)) /\ flags \in SUBSET Timers
  BY <1>3, <1>4, <1>5
<1> HIDE DEF flags
<1>8. /\ BoardOK(r) /\ r.adrift = {} /\ r.behind = 0 /\ Since(r) = 0
      /\ r.pair[i] = Elapsed([c EXCEPT !.ifr = flags], 0)
      /\ \A j \in Pairs : j # i => r.pair[j] = Elapsed(b.pair[j], Since(b))
  BY <1>2, <1>6, <1>7, SetsIs
<1> QED  BY <1>2, <1>8 DEF flags

(* Interrupts are enabled or disabled.                                      *)
LEMMA WriteIerIs ==
  ASSUME NEW b, Ready(b), NEW i \in Pairs, NEW s \in SUBSET Timers, NEW r, r = WriteIer(b, i, s),
         NEW c, c = Elapsed(b.pair[i], Since(b))
  PROVE  /\ BoardOK(r) /\ r.adrift = {} /\ r.behind = 0 /\ Since(r) = 0 /\ c \in Chip
         /\ r.pair[i] = Elapsed([c EXCEPT !.ier = s], 0)
         /\ \A j \in Pairs : j # i => r.pair[j] = Elapsed(b.pair[j], Since(b))
<1> DEFINE u == Update(b)
           k == [c EXCEPT !.ier = s]
<1>1. /\ BoardOK(u) /\ Since(u) = 0 /\ u.pair[i] = c
  BY UpdateIs
<1>2. u \in Boards /\ u.pair \in [Pairs -> Chip] /\ c \in Chip /\ Minded(c, 0)
  BY <1>1, BoardIs DEF BoardOK, Ready
<1>3. k \in Chip /\ k.ifr = c.ifr /\ Minded(k, 0) /\ [k EXCEPT !.ifr = c.ifr] = k
  BY <1>2 DEF Chip, Minded
<1>4. r = LET v == [u EXCEPT !.pair[i].ier = s] IN Update(NewIfr(v, i, v.pair[i].ifr))
  BY DEF WriteIer
<1> HIDE DEF u
<1>5. [u EXCEPT !.pair[i].ier = s] = With(u, i, k)
  BY <1>1, <1>2 DEF With
<1>6. r = Update(NewIfr(With(u, i, k), i, c.ifr))
  <2>1. With(u, i, k).pair[i] = k
    BY <1>2, <1>3, WithIs
  <2> QED  BY <1>3, <1>4, <1>5, <2>1
<1>7. c.ifr \in SUBSET Timers
  BY <1>2, ChipIs
<1> HIDE DEF k
<1>8. /\ BoardOK(r) /\ r.adrift = {} /\ r.behind = 0 /\ Since(r) = 0
      /\ r.pair[i] = Elapsed([k EXCEPT !.ifr = c.ifr], 0)
      /\ \A j \in Pairs : j # i => r.pair[j] = Elapsed(b.pair[j], Since(b))
  BY <1>3, <1>6, <1>7, SetsIs DEF u
<1> QED  BY <1>2, <1>3, <1>8 DEF k

(* Words                                                                    *)
LEMMA LoadIs ==
  ASSUME NEW c \in Chip, NEW v \in 0..Byte - 1
  PROVE  /\ v * Byte + (c.latch1 % Byte) \in 0..Word - 1
         /\ (c.latch1 \div Byte) * Byte + v \in 0..Word - 1
         /\ v * Byte + c.low2 \in 0..Word - 1
<1>1. c.latch1 % Byte \in 0..Byte - 1 /\ c.latch1 \div Byte \in 0..Byte - 1 /\ c.low2 \in 0..Byte - 1
  BY ChipIs, WordBytes
<1> QED  BY <1>1, HighByte

(* Timer 1 is loaded.                                                       *)
LEMMA WriteT1HighIs ==
  ASSUME NEW b, Ready(b), NEW i \in Pairs, NEW v \in 0..Byte - 1, NEW r, r = WriteT1High(b, i, v),
         NEW c, c = Elapsed(b.pair[i], Since(b)), NEW w, w = v * Byte + (c.latch1 % Byte)
  PROVE  /\ BoardOK(r) /\ Since(r) = 0 /\ c \in Chip
         /\ r.pair[i] = Loaded1(c, w)
         /\ \A j \in Pairs : j # i => r.pair[j] = Elapsed(b.pair[j], Since(b))
<1> DEFINE u == Update(b)
           k == [c EXCEPT !.latch1 = w, !.t1 = w + 2, !.ran1 = FALSE]
           flags == c.ifr \ {"t1"}
           e == [k EXCEPT !.ifr = flags]
<1>1. /\ BoardOK(u) /\ Since(u) = 0 /\ u.pair[i] = c
  BY UpdateIs
<1>2. u \in Boards /\ u.pair \in [Pairs -> Chip] /\ c \in Chip /\ Minded(c, 0) /\ Steady(c)
  BY <1>1, BoardIs DEF BoardOK, Ready
<1>3. w \in 0..Word - 1 /\ w + 2 \in 0..Word + 1 /\ w + 2 \in Nat \ {0} /\ flags \in SUBSET Timers
  <2>1. w \in 0..Word - 1
    BY <1>2, LoadIs
  <2>2. Word \in Nat
    BY Bytes
  <2> QED  BY <1>2, <2>1, <2>2, ChipIs
<1>4. k \in Chip /\ k.ifr = c.ifr /\ Minded(k, 0)
  BY <1>2, <1>3 DEF Chip, Minded
<1>5. r = LET x == [u EXCEPT !.pair[i] = [u.pair[i] EXCEPT !.latch1 = v * Byte + (u.pair[i].latch1 % Byte),
                                          !.t1 = v * Byte + (u.pair[i].latch1 % Byte) + 2, !.ran1 = FALSE]]
          IN  Update(NewIfr(x, i, x.pair[i].ifr \ {"t1"}))
  BY Zenon DEF WriteT1High
<1>6. u = Update(b)
  OBVIOUS
<1> HIDE DEF u
<1>7. [u EXCEPT !.pair[i] = [u.pair[i] EXCEPT !.latch1 = v * Byte + (u.pair[i].latch1 % Byte),
                             !.t1 = v * Byte + (u.pair[i].latch1 % Byte) + 2, !.ran1 = FALSE]] = With(u, i, k)
  BY <1>1 DEF With
<1> HIDE DEF k
<1>8. r = Update(NewIfr(With(u, i, k), i, flags))
  <2>1. With(u, i, k).pair[i] = k
    BY <1>2, <1>4, WithIs
  <2> QED  BY <1>4, <1>5, <1>7, <2>1
<1> HIDE DEF flags
<1>9. /\ BoardOK(r) /\ r.adrift = {} /\ r.behind = 0 /\ Since(r) = 0
      /\ r.pair[i] = Elapsed([k EXCEPT !.ifr = flags], 0)
      /\ \A j \in Pairs : j # i => r.pair[j] = Elapsed(b.pair[j], Since(b))
  BY <1>3, <1>4, <1>6, <1>8, SetsIs
<1>10. e \in Chip /\ Steady(e)
       /\ e = [c EXCEPT !.latch1 = w, !.t1 = w + 2, !.ran1 = FALSE, !.ifr = flags]
  BY <1>2, <1>3 DEF Chip, Steady, k
<1>11. Elapsed(e, 0) = e
  BY <1>10, StillIs
<1> QED  BY <1>2, <1>9, <1>10, <1>11 DEF flags, Loaded1

(* Timer 2 is loaded.                                                       *)
LEMMA WriteT2HighIs ==
  ASSUME NEW b, Ready(b), NEW i \in Pairs, NEW v \in 0..Byte - 1, NEW r, r = WriteT2High(b, i, v),
         NEW c, c = Elapsed(b.pair[i], Since(b))
  PROVE  /\ BoardOK(r) /\ Since(r) = 0 /\ c \in Chip
         /\ r.pair[i] = Loaded2(c, v)
         /\ \A j \in Pairs : j # i => r.pair[j] = Elapsed(b.pair[j], Since(b))
<1> DEFINE u == Update(b)
           w == v * Byte + c.low2
           k == [c EXCEPT !.t2 = w + 2, !.ran2 = FALSE]
           flags == c.ifr \ {"t2"}
           e == [k EXCEPT !.ifr = flags]
<1>1. /\ BoardOK(u) /\ Since(u) = 0 /\ u.pair[i] = c
  BY UpdateIs
<1>2. u \in Boards /\ u.pair \in [Pairs -> Chip] /\ c \in Chip /\ Minded(c, 0) /\ Steady(c)
  BY <1>1, BoardIs DEF BoardOK, Ready
<1>3. w \in 0..Word - 1 /\ w + 2 \in 0..Word + 1 /\ w + 2 \in Nat \ {0} /\ flags \in SUBSET Timers
  <2>1. w \in 0..Word - 1
    BY <1>2, LoadIs
  <2>2. Word \in Nat
    BY Bytes
  <2> HIDE DEF w
  <2> QED  BY <1>2, <2>1, <2>2, ChipIs
<1>4. r = LET x == [u EXCEPT !.pair[i] = [u.pair[i] EXCEPT !.t2 = v * Byte + u.pair[i].low2 + 2,
                                          !.ran2 = FALSE]]
          IN  Update(NewIfr(x, i, x.pair[i].ifr \ {"t2"}))
  BY Zenon DEF WriteT2High
<1>5. u = Update(b)
  OBVIOUS
<1> HIDE DEF u
<1>6. [u EXCEPT !.pair[i] = [u.pair[i] EXCEPT !.t2 = v * Byte + u.pair[i].low2 + 2,
                             !.ran2 = FALSE]] = With(u, i, k)
  BY <1>1 DEF With
<1> HIDE DEF w
<1>7. k \in Chip /\ k.ifr = c.ifr /\ Minded(k, 0)
  BY <1>2, <1>3 DEF Chip, Minded
<1> HIDE DEF k
<1>8. r = Update(NewIfr(With(u, i, k), i, flags))
  <2>1. With(u, i, k).pair[i] = k
    BY <1>2, <1>7, WithIs
  <2> QED  BY <1>4, <1>6, <1>7, <2>1
<1> HIDE DEF flags
<1>9. /\ BoardOK(r) /\ r.adrift = {} /\ r.behind = 0 /\ Since(r) = 0
      /\ r.pair[i] = Elapsed([k EXCEPT !.ifr = flags], 0)
      /\ \A j \in Pairs : j # i => r.pair[j] = Elapsed(b.pair[j], Since(b))
  BY <1>3, <1>5, <1>7, <1>8, SetsIs
<1>10. e \in Chip /\ Steady(e) /\ e = [c EXCEPT !.t2 = w + 2, !.ran2 = FALSE, !.ifr = flags]
  <2>1. e.t1 = c.t1 /\ (e.ran1 <=> c.ran1) /\ (e.free <=> c.free) /\ ("t1" \in e.ifr <=> "t1" \in c.ifr)
        /\ e.t2 = w + 2
    BY <1>2, <1>3 DEF Chip, k, flags
  <2>2. e \in Chip /\ e = [c EXCEPT !.t2 = w + 2, !.ran2 = FALSE, !.ifr = flags]
    BY <1>2, <1>3 DEF Chip, k
  <2> QED  BY <1>2, <1>3, <2>1, <2>2 DEF Steady
<1>11. Elapsed(e, 0) = e
  BY <1>10, StillIs
<1>12. r.pair[i] = [c EXCEPT !.t2 = w + 2, !.ran2 = FALSE, !.ifr = flags]
  BY <1>9, <1>10, <1>11
<1> QED  BY <1>2, <1>9, <1>12 DEF flags, w, Loaded2

(* The high byte of timer 1's latch is written.                             *)
LEMMA WriteLatchHighIs ==
  ASSUME NEW b, Ready(b), NEW i \in Pairs, NEW v \in 0..Byte - 1, NEW r, r = WriteLatchHigh(b, i, v),
         NEW c, c = Elapsed(b.pair[i], Since(b)), NEW w, w = v * Byte + (c.latch1 % Byte)
  PROVE  /\ BoardOK(r) /\ Since(r) = 0 /\ c \in Chip
         /\ r.pair[i] = Elapsed(Latched1(c, w), 0)
         /\ \A j \in Pairs : j # i => r.pair[j] = Elapsed(b.pair[j], Since(b))
<1> DEFINE u == Update(b)
           k == [c EXCEPT !.latch1 = w]
           flags == c.ifr \ {"t1"}
<1>1. /\ BoardOK(u) /\ Since(u) = 0 /\ u.pair[i] = c
  BY UpdateIs
<1>2. u \in Boards /\ u.pair \in [Pairs -> Chip] /\ c \in Chip /\ Minded(c, 0) /\ Steady(c)
  BY <1>1, BoardIs DEF BoardOK, Ready
<1>3. w \in 0..Word - 1 /\ flags \in SUBSET Timers
  BY <1>2, LoadIs, ChipIs
<1>4. k \in Chip /\ k.ifr = c.ifr /\ Minded(k, 0)
      /\ [k EXCEPT !.ifr = flags] = [c EXCEPT !.latch1 = w, !.ifr = flags]
  BY <1>2, <1>3 DEF Chip, Minded
<1>5. r = LET x == [u EXCEPT !.pair[i].latch1 = v * Byte + (u.pair[i].latch1 % Byte)]
          IN  Update(NewIfr(x, i, x.pair[i].ifr \ {"t1"}))
  BY Zenon DEF WriteLatchHigh
<1>6. u = Update(b)
  OBVIOUS
<1> HIDE DEF u
<1>7. [u EXCEPT !.pair[i].latch1 = v * Byte + (u.pair[i].latch1 % Byte)] = With(u, i, k)
  BY <1>1, <1>2 DEF With
<1> HIDE DEF k
<1>8. r = Update(NewIfr(With(u, i, k), i, flags))
  <2>1. With(u, i, k).pair[i] = k
    BY <1>2, <1>4, WithIs
  <2> QED  BY <1>4, <1>5, <1>7, <2>1
<1> HIDE DEF flags
<1>9. /\ BoardOK(r) /\ r.adrift = {} /\ r.behind = 0 /\ Since(r) = 0
      /\ r.pair[i] = Elapsed([k EXCEPT !.ifr = flags], 0)
      /\ \A j \in Pairs : j # i => r.pair[j] = Elapsed(b.pair[j], Since(b))
  BY <1>3, <1>4, <1>6, <1>8, SetsIs
<1>10. r.pair[i] = Elapsed([c EXCEPT !.latch1 = w, !.ifr = flags], 0)
  BY <1>4, <1>9
<1> QED  BY <1>2, <1>9, <1>10 DEF flags, Latched1

(* The accesses that bring the board up to date at most once                *)
LEMMA LaterIs ==
  ASSUME NEW b, BoardOK(b), b.adrift = {}, NEW r, r = UpdateIfLater(b)
  PROVE  /\ BoardOK(r) /\ r.adrift = {} /\ r.behind = 0 /\ Since(r) = 0
         /\ \A j \in Pairs : r.pair[j] = Elapsed(b.pair[j], Since(b))
<1>1. Ready(b) /\ b \in Boards /\ AtMostOne(b.adrift, Skews) /\ \A j \in Pairs : Steady(b.pair[j])
  BY DEF BoardOK, Ready
<1>2. CASE b.behind = 0
  <2>1. r = b /\ Since(b) = 0
    BY <1>1, <1>2, SinceIs DEF UpdateIfLater
  <2>2. \A j \in Pairs : Elapsed(b.pair[j], 0) = b.pair[j]
    BY <1>1, BoardIs, StillIs
  <2> QED  BY <1>2, <2>1, <2>2
<1>3. CASE b.behind # 0
  <2>1. r = Update(b)
    BY <1>3 DEF UpdateIfLater
  <2> QED  BY <1>1, <2>1, UpdateIs
<1> QED  BY <1>2, <1>3

(* New contents that change nothing that counts                             *)
LEMMA PlainIs ==
  ASSUME NEW b, BoardOK(b), b.adrift = {}, NEW i \in Pairs, NEW c, c = b.pair[i],
         NEW k \in Chip, k.t1 = c.t1, k.ran1 = c.ran1, k.t2 = c.t2, k.ran2 = c.ran2,
         k.ifr = c.ifr, k.ier = c.ier, k.free = c.free, k.pulses = c.pulses,
         NEW r, r = With(b, i, k)
  PROVE  /\ BoardOK(r) /\ r.adrift = {} /\ r.behind = b.behind /\ Since(r) = Since(b)
         /\ r.pair[i] = k /\ \A j \in Pairs : j # i => r.pair[j] = b.pair[j]
<1>1. /\ b \in Boards /\ AtMostOne(b.adrift, Skews) /\ AtMostOne(b.due, Times) /\ IrqOK(b)
      /\ \A j \in Pairs : Minded(b.pair[j], Since(b)) /\ Steady(b.pair[j]) /\ DueFor(b.pair[j], b.due, b.behind)
  BY DEF BoardOK, Ready
<1>2. /\ r \in Boards /\ r.pair[i] = k /\ \A j \in Pairs : j # i => r.pair[j] = b.pair[j]
      /\ r.irq = b.irq /\ r.behind = b.behind /\ r.adrift = b.adrift /\ r.due = b.due
      /\ Since(r) = Since(b)
  BY <1>1, WithIs
<1>3. Minded(k, Since(r)) /\ Steady(k) /\ DueFor(k, r.due, r.behind)
  <2>1. Minded(c, Since(b)) /\ Steady(c) /\ DueFor(c, b.due, b.behind)
    BY <1>1
  <2>2. Minded(k, Since(r))
    BY <1>2, <2>1 DEF Minded
  <2>3. Steady(k)
    BY <2>1 DEF Steady
  <2>4. DueFor(k, r.due, r.behind)
    BY <1>2, <2>1 DEF DueFor
  <2> QED  BY <2>2, <2>3, <2>4
<1>4. IrqOK(r)
  BY <1>1, <1>2 DEF IrqOK
<1>5. \A j \in Pairs : Minded(r.pair[j], Since(r)) /\ Steady(r.pair[j]) /\ DueFor(r.pair[j], r.due, r.behind)
  BY <1>1, <1>2, <1>3
<1> QED  BY <1>1, <1>2, <1>4, <1>5 DEF BoardOK, Ready

(* The low byte of timer 1's latch is written.                              *)
LEMMA WriteLatchLowIs ==
  ASSUME NEW b, BoardOK(b), b.adrift = {}, NEW i \in Pairs, NEW v \in 0..Byte - 1,
         NEW r, r = WriteLatchLow(b, i, v), NEW c, c = Elapsed(b.pair[i], Since(b))
  PROVE  /\ BoardOK(r) /\ r.adrift = {} /\ r.behind = 0 /\ Since(r) = 0 /\ c \in Chip
         /\ r.pair[i] = [c EXCEPT !.latch1 = (c.latch1 \div Byte) * Byte + v]
         /\ \A j \in Pairs : j # i => r.pair[j] = Elapsed(b.pair[j], Since(b))
<1> DEFINE u == UpdateIfLater(b)
           w == (c.latch1 \div Byte) * Byte + v
           k == [c EXCEPT !.latch1 = w]
<1>1. /\ BoardOK(u) /\ u.adrift = {} /\ u.behind = 0 /\ Since(u) = 0
      /\ \A j \in Pairs : u.pair[j] = Elapsed(b.pair[j], Since(b))
  BY LaterIs
<1>2. u \in Boards /\ u.pair \in [Pairs -> Chip] /\ c \in Chip /\ u.pair[i] = c
  BY <1>1, BoardIs DEF BoardOK, Ready
<1>3. w \in 0..Word - 1
  BY <1>2, LoadIs
<1>4. r = [u EXCEPT !.pair[i].latch1 = (u.pair[i].latch1 \div Byte) * Byte + v]
  BY Zenon DEF WriteLatchLow
<1> HIDE DEF u
<1>5. r = With(u, i, k)
  BY <1>2, <1>4 DEF With
<1> HIDE DEF w
<1>6. /\ k \in Chip /\ k.t1 = c.t1 /\ k.ran1 = c.ran1 /\ k.t2 = c.t2 /\ k.ran2 = c.ran2
      /\ k.ifr = c.ifr /\ k.ier = c.ier /\ k.free = c.free /\ k.pulses = c.pulses
  BY <1>2, <1>3 DEF Chip
<1> HIDE DEF k
<1>7. /\ BoardOK(r) /\ r.adrift = {} /\ r.behind = u.behind /\ Since(r) = Since(u)
      /\ r.pair[i] = k /\ \A j \in Pairs : j # i => r.pair[j] = u.pair[j]
  BY <1>1, <1>2, <1>5, <1>6, PlainIs
<1> QED  BY <1>1, <1>2, <1>7 DEF k, w

(* Timer 2's latch is written.                                              *)
LEMMA WriteT2LowIs ==
  ASSUME NEW b, BoardOK(b), b.adrift = {}, NEW i \in Pairs, NEW v \in 0..Byte - 1,
         NEW r, r = WriteT2Low(b, i, v)
  PROVE  /\ BoardOK(r) /\ r.adrift = {} /\ r.behind = b.behind /\ Since(r) = Since(b)
         /\ r.pair[i] = [b.pair[i] EXCEPT !.low2 = v]
         /\ \A j \in Pairs : j # i => r.pair[j] = b.pair[j]
<1> DEFINE c == b.pair[i]
           k == [c EXCEPT !.low2 = v]
<1>1. b \in Boards /\ b.pair \in [Pairs -> Chip] /\ c \in Chip
  BY BoardIs DEF BoardOK, Ready
<1>2. r = With(b, i, k)
  BY <1>1 DEF WriteT2Low, With
<1> HIDE DEF c
<1>3. /\ k \in Chip /\ k.t1 = c.t1 /\ k.ran1 = c.ran1 /\ k.t2 = c.t2 /\ k.ran2 = c.ran2
      /\ k.ifr = c.ifr /\ k.ier = c.ier /\ k.free = c.free /\ k.pulses = c.pulses
  BY <1>1 DEF Chip
<1> HIDE DEF k
<1>4. c = b.pair[i]
  BY DEF c
<1>5. /\ BoardOK(r) /\ r.adrift = {} /\ r.behind = b.behind /\ Since(r) = Since(b)
      /\ r.pair[i] = k /\ \A j \in Pairs : j # i => r.pair[j] = b.pair[j]
  BY <1>2, <1>3, <1>4, PlainIs
<1> QED  BY <1>5 DEF k, c

(* The mode is set.                                                         *)
LEMMA WriteAcrIs ==
  ASSUME NEW b, BoardOK(b), b.adrift = {}, NEW i \in Pairs, NEW f \in BOOLEAN, NEW p \in BOOLEAN,
         NEW r, r = WriteAcr(b, i, f, p), NEW c, c = Elapsed(b.pair[i], Since(b)),
         ~Forgotten([c EXCEPT !.free = f], 0)
  PROVE  /\ BoardOK(r) /\ Since(r) = 0 /\ c \in Chip
         /\ r.pair[i] = Elapsed(Moded(c, f, p), 0)
         /\ \A j \in Pairs : j # i => r.pair[j] = Elapsed(b.pair[j], Since(b))
<1> DEFINE u == UpdateIfLater(b)
           k == [c EXCEPT !.free = f, !.pulses = p]
           w == With(u, i, k)
<1>1. /\ BoardOK(u) /\ u.adrift = {} /\ u.behind = 0 /\ Since(u) = 0
      /\ \A j \in Pairs : u.pair[j] = Elapsed(b.pair[j], Since(b))
  BY LaterIs
<1>2. u \in Boards /\ u.pair \in [Pairs -> Chip] /\ c \in Chip /\ u.pair[i] = c
      /\ AtMostOne(u.adrift, Skews) /\ AtMostOne(u.due, Times) /\ IrqOK(u)
      /\ \A j \in Pairs : Minded(u.pair[j], 0) /\ Steady(u.pair[j]) /\ u.pair[j] \in Chip
  BY <1>1, BoardIs DEF BoardOK, Ready
<1>3. r = Update([u EXCEPT !.pair[i] = [u.pair[i] EXCEPT !.free = f, !.pulses = p]])
  BY Zenon DEF WriteAcr
<1> HIDE DEF u
<1>4. r = Update(w)
  BY <1>2, <1>3 DEF With
<1>5. k \in Chip /\ k.t1 = c.t1 /\ k.ran1 = c.ran1 /\ k.free = f /\ k.ifr = c.ifr /\ k.ier = c.ier
  BY <1>2 DEF Chip
<1>6. Minded(k, 0)
  <2> DEFINE g == [c EXCEPT !.free = f]
  <2>1. g.free = f /\ g.ran1 = c.ran1 /\ g.t1 = c.t1
    BY <1>2 DEF Chip
  <2>2. c.t1 \in Nat /\ ~Forgotten(g, 0)
    BY <1>2, ChipIs
  <2> HIDE DEF k, g
  <2>3. ~(f /\ c.ran1 /\ 0 >= c.t1)
    BY <2>1, <2>2 DEF Forgotten
  <2>4. f /\ c.ran1 => 0 < c.t1
    BY <2>2, <2>3
  <2> QED  BY <1>5, <2>4 DEF Minded
<1>12. w = With(u, i, k) /\ u \in Boards
  BY <1>2
<1> HIDE DEF k, w
<1>7. /\ w \in Boards /\ w.pair[i] = k /\ \A j \in Pairs : j # i => w.pair[j] = u.pair[j]
      /\ w.irq = u.irq /\ w.behind = u.behind /\ w.adrift = u.adrift /\ w.due = u.due
      /\ Since(w) = 0
  BY <1>1, <1>5, <1>12, WithIs
<1>8. Ready(w)
  <2>1. IrqOK(w)
    BY <1>2, <1>5, <1>7 DEF IrqOK
  <2>2. \A j \in Pairs : Minded(w.pair[j], Since(w))
    BY <1>2, <1>6, <1>7
  <2> QED  BY <1>2, <1>7, <2>1, <2>2 DEF Ready
<1>9. /\ BoardOK(r) /\ r.behind = 0 /\ r.adrift = {} /\ Since(r) = 0
      /\ \A j \in Pairs : r.pair[j] = Elapsed(w.pair[j], 0)
  BY <1>4, <1>7, <1>8, UpdateIs
<1>10. \A j \in Pairs : j # i => r.pair[j] = u.pair[j]
  BY <1>2, <1>7, <1>9, StillIs
<1>11. r.pair[i] = Elapsed(k, 0)
  BY <1>7, <1>9
<1> QED  BY <1>1, <1>2, <1>9, <1>10, <1>11 DEF k, Moded

-----------------------------------------------------------------------------
(* The invariant                                                            *)
LEMMA FreshIs ==
  FreshChip \in Chip /\ Steady(FreshChip) /\ (\A d \in Nat : Minded(FreshChip, d))
  /\ FreshChip.ifr \cap FreshChip.ier = {}
  /\ (\A s, d : DueFor(FreshChip, s, d))
<1>1. Word - Byte \in 0..Word - 1 /\ Word - Byte # 0 /\ 0 \in 0..Byte - 1
  <2>1. Byte \in Nat /\ Byte >= 2 /\ Byte * Byte >= 2 * Byte
    BY Bytes
  <2> QED  BY <2>1 DEF Word
<1>2. {} \in SUBSET Timers /\ Word - Byte \in 0..Word + 1
  BY <1>1, Bytes
<1>3. FreshChip \in Chip
  BY <1>1, <1>2 DEF FreshChip, Chip
<1> QED  BY <1>1, <1>3 DEF FreshChip, Steady, Minded, DueFor

(* The board at the start and after a reset                                 *)
LEMMA FreshBoard ==
  ASSUME NEW b, NEW s, AtMostOne(s, Skews),
         b = [pair |-> [i \in Pairs |-> FreshChip], behind |-> 0, adrift |-> s, due |-> {}, irq |-> {}]
  PROVE  BoardOK(b) /\ b.pair = [i \in Pairs |-> FreshChip] /\ b.adrift = s
<1>1. s \in SUBSET Skews /\ 0 \in 0..MaxAlone
  BY Bytes DEF AtMostOne
<1>2. [i \in Pairs |-> FreshChip] \in [Pairs -> Chip]
  BY FreshIs
<1>3. /\ b \in Boards /\ b.pair = [i \in Pairs |-> FreshChip] /\ b.irq = {} /\ b.behind = 0
      /\ b.adrift = s /\ b.due = {}
  BY <1>1, <1>2 DEF Boards
<1>4. Since(b) \in Nat /\ \A i \in Pairs : b.pair[i] = FreshChip
  BY <1>3, SinceIs
<1>5. IrqOK(b) /\ \A i \in Pairs : Steady(b.pair[i]) /\ Minded(b.pair[i], Since(b))
                    /\ DueFor(b.pair[i], b.due, b.behind)
  BY <1>3, <1>4, FreshIs DEF IrqOK
<1>6. AtMostOne(b.due, Times)
  BY <1>3 DEF AtMostOne
<1> QED  BY <1>3, <1>5, <1>6 DEF BoardOK, Ready

(* The event is taken off the list.                                         *)
LEMMA EventOK ==
  ASSUME MInv, NEW b, b = [mock EXCEPT !.due = {}]
  PROVE  Ready(b) /\ b.pair = mock.pair /\ Since(b) = Since(mock)
<1>1. /\ mock \in Boards /\ AtMostOne(mock.adrift, Skews) /\ IrqOK(mock)
      /\ \A i \in Pairs : Minded(mock.pair[i], Since(mock))
  BY DEF MInv, BoardOK, Ready
<1>2. /\ b \in Boards /\ b.pair = mock.pair /\ b.irq = mock.irq /\ b.behind = mock.behind
      /\ b.adrift = mock.adrift /\ b.due = {}
  BY <1>1 DEF Boards
<1>3. Since(b) = Since(mock)
  BY <1>2 DEF Since
<1> QED  BY <1>1, <1>2, <1>3 DEF Ready, IrqOK, AtMostOne

(* Each step keeps the invariant.                                           *)
LEMMA MockKeeps ==
  ASSUME MockQuirks = {}, MInv, MockNext
  PROVE  MInv'
<1>1. SUFFICES BoardOK(mock')
  BY DEF MInv, BoardOK, Ready, IrqOK, Since
<1>2. ASSUME NEW n \in 0..MaxInstr, MockRuns(n)
      PROVE  BoardOK(MockPassed(n)) /\ Ready(MockPassed(n)) /\ MockPassed(n).pair = mock.pair
             /\ MockPassed(n).adrift = mock.adrift /\ Since(MockPassed(n)) = Since(mock) + n
  <2>1. BoardOK(MockPassed(n)) /\ MockPassed(n).pair = mock.pair
        /\ MockPassed(n).adrift = mock.adrift /\ Since(MockPassed(n)) = Since(mock) + n
    BY <1>2, PassedOK
  <2> QED  BY <2>1 DEF BoardOK
<1>3. First => mock.adrift = {}
  BY DEF First
<1>4. ASSUME NEW n \in 0..MaxInstr, MockIdle(n) PROVE BoardOK(mock')
  BY <1>2, <1>4 DEF MockIdle
<1>5. ASSUME NEW n \in 0..MaxInstr, NEW i \in Pairs, Latches(n, i, Timers) PROVE BoardOK(mock')
  <2>1. MockRuns(n) /\ mock.adrift = {}
    BY <1>3, <1>5 DEF Latches
  <2>2. PICK v \in 0..Byte - 1 :
          \/ mock' = WriteLatchLow(MockPassed(n), i, v)
          \/ mock' = WriteLatchHigh(MockPassed(n), i, v)
          \/ mock' = WriteT2Low(MockPassed(n), i, v)
    BY <1>5 DEF Latches
  <2> DEFINE b == MockPassed(n)
             c == Elapsed(b.pair[i], Since(b))
  <2>3. BoardOK(b) /\ Ready(b) /\ b.adrift = {}
    BY <1>2, <2>1
  <2> HIDE DEF b
  <2>4. CASE mock' = WriteLatchLow(b, i, v)
    BY <2>3, <2>4, WriteLatchLowIs
  <2>5. CASE mock' = WriteLatchHigh(b, i, v)
    <3>1. \A x, y : x = c /\ y = v * Byte + (x.latch1 % Byte) => BoardOK(mock')
      BY <2>3, <2>5, WriteLatchHighIs
    <3> QED  BY <3>1
  <2>6. CASE mock' = WriteT2Low(b, i, v)
    BY <2>3, <2>6, WriteT2LowIs
  <2> QED  BY <2>2, <2>4, <2>5, <2>6 DEF b
<1>6. ASSUME NEW n \in 0..MaxInstr, NEW i \in Pairs, Loads(n, i, Timers) PROVE BoardOK(mock')
  <2>1. MockRuns(n)
    BY <1>6 DEF Loads
  <2>2. PICK v \in 0..Byte - 1 :
          mock' = WriteT1High(MockPassed(n), i, v) \/ mock' = WriteT2High(MockPassed(n), i, v)
    BY <1>6 DEF Loads
  <2> DEFINE b == MockPassed(n)
             c == Elapsed(b.pair[i], Since(b))
  <2>3. Ready(b)
    BY <1>2, <2>1
  <2> HIDE DEF b
  <2>4. CASE mock' = WriteT1High(b, i, v)
    <3>1. \A x, y : x = c /\ y = v * Byte + (x.latch1 % Byte) => BoardOK(mock')
      BY <2>3, <2>4, WriteT1HighIs
    <3> QED  BY <3>1
  <2>5. CASE mock' = WriteT2High(b, i, v)
    BY <2>3, <2>5, WriteT2HighIs
  <2> QED  BY <2>2, <2>4, <2>5 DEF b
<1>7. ASSUME NEW n \in 0..MaxInstr, NEW i \in Pairs, Reads(n, i, Timers) PROVE BoardOK(mock')
  <2>1. MockRuns(n)
    BY <1>7 DEF Reads
  <2>2. CASE mock' = Update(MockPassed(n))
    BY <1>2, <2>1, <2>2, UpdateIs
  <2>3. ASSUME NEW t \in Timers, mock' = ClearFlag(MockPassed(n), i, {t}) PROVE BoardOK(mock')
    BY <1>2, <2>1, <2>3, ClearFlagIs
  <2> QED  BY <1>7, <2>2, <2>3 DEF Reads
<1>8. ASSUME NEW n \in 0..MaxInstr, NEW i \in Pairs, Enables(n, i, Timers) PROVE BoardOK(mock')
  <2>1. MockRuns(n)
    BY <1>8 DEF Enables
  <2>2. PICK s \in SUBSET Timers : mock' = WriteIer(MockPassed(n), i, s)
    BY <1>8 DEF Enables
  <2> QED  BY <1>2, <2>1, <2>2, WriteIerIs
<1>9. ASSUME NEW n \in 0..MaxInstr, NEW i \in Pairs, Modes(n, i, Timers) PROVE BoardOK(mock')
  <2>1. MockRuns(n) /\ mock.adrift = {}
    BY <1>3, <1>9 DEF Modes
  <2>2. PICK f \in BOOLEAN, p \in BOOLEAN :
          /\ mock' = WriteAcr(MockPassed(n), i, f, p)
          /\ ~Forgotten([Elapsed(mock.pair[i], Since(mock) + n) EXCEPT !.free = f], 0)
    BY <1>9 DEF Modes
  <2>3. ~Forgotten([Elapsed(MockPassed(n).pair[i], Since(MockPassed(n))) EXCEPT !.free = f], 0)
    BY <1>2, <2>1, <2>2
  <2> QED  BY <1>2, <2>1, <2>2, <2>3, WriteAcrIs
<1>10. ASSUME MockEvent PROVE BoardOK(mock')
  <2>1. mock' = Update([mock EXCEPT !.due = {}])
    BY <1>10 DEF MockEvent
  <2> QED  BY <2>1, EventOK, UpdateIs
<1>11. ASSUME MockReset PROVE BoardOK(mock')
  <2>1. PICK t \in Skews :
          mock' = [pair |-> [i \in Pairs |-> FreshChip], behind |-> 0, adrift |-> {t},
                   due |-> {}, irq |-> {}]
    BY <1>11 DEF MockReset
  <2>2. AtMostOne({t}, Skews)
    BY DEF AtMostOne
  <2> QED  BY <2>1, <2>2, FreshBoard
<1> QED  BY <1>4, <1>5, <1>6, <1>7, <1>8, <1>9, <1>10, <1>11 DEF MockNext, MockSteps

(* The invariant holds for ever.                                            *)
LEMMA MockInv == ASSUME MockQuirks = {} PROVE MockSpec => []MInv
<1>1. MockInit => MInv
  <2> SUFFICES ASSUME MockInit PROVE MInv
    OBVIOUS
  <2>1. AtMostOne({}, Skews)
    BY DEF AtMostOne
  <2> QED  BY <2>1, FreshBoard DEF MockInit, MInv
<1>2. MInv /\ [MockNext]_mock => MInv'
  <2>1. MInv /\ UNCHANGED mock => MInv'
    BY DEF MInv, BoardOK, Ready, IrqOK, Since
  <2> QED  BY <2>1, MockKeeps
<1> QED  BY <1>1, <1>2, PTL DEF MockSpec

(* At most one element                                                      *)
LEMMA CountsOne ==
  ASSUME NEW R, NEW s, AtMostOne(s, R)
  PROVE  Cardinality(s) <= 1 /\ s \in SUBSET R
<1>1. CASE s = {}
  <2>1. Cardinality(s) = 0
    BY <1>1, FS_EmptySet
  <2> QED  BY <1>1, <2>1
<1>2. ASSUME NEW t \in R, s = {t} PROVE Cardinality(s) <= 1 /\ s \in SUBSET R
  <2>1. Cardinality(s) = 1
    BY <1>2, FS_Singleton
  <2> QED  BY <1>2, <2>1
<1> QED  BY <1>1, <1>2 DEF AtMostOne

(* The invariant is enough.                                                 *)
LEMMA OnTime == MInv => InterruptsOnTime
<1> SUFFICES ASSUME MInv PROVE InterruptsOnTime
  OBVIOUS
<1>1. /\ mock \in Boards /\ AtMostOne(mock.adrift, Skews) /\ AtMostOne(mock.due, Times) /\ IrqOK(mock)
      /\ mock.adrift # {} => mock.pair = [i \in Pairs |-> FreshChip] /\ mock.due = {}
      /\ mock.adrift = {} => \A i \in Pairs : DueFor(mock.pair[i], mock.due, mock.behind)
  BY DEF MInv, BoardOK, Ready
<1>2. MockTypeOK
  <2>1. mock.adrift \subseteq Skews /\ Cardinality(mock.adrift) <= 1
        /\ mock.due \subseteq Times /\ Cardinality(mock.due) <= 1
    BY <1>1, CountsOne
  <2>2. mock.pair \in [Pairs -> Chip] /\ mock.behind \in 0..MaxAlone /\ mock.irq \subseteq Pairs
    BY <1>1, BoardIs
  <2> QED  BY <2>1, <2>2 DEF MockTypeOK, Times
<1>3. SUFFICES ASSUME NEW i \in Pairs
      PROVE  /\ i \in mock.irq => Now[i].ifr \cap Now[i].ier # {}
             /\ Now[i].ifr \cap Now[i].ier # {} => i \in mock.irq \/ \E t \in mock.due : t <= 0
  BY <1>2 DEF InterruptsOnTime
<1> DEFINE c == mock.pair[i]
           d == Since(mock)
           e == Now[i]
<1>4. c \in Chip /\ d \in Nat /\ e = Elapsed(c, d)
  BY <1>1, BoardIs, SinceIs DEF Now
<1>5. (i \in mock.irq) <=> c.ifr \cap c.ier # {}
  BY <1>1 DEF IrqOK
<1> HIDE DEF c, d, e
<1>6. /\ e.ifr = c.ifr \cup (IF Flagged1(c, d) THEN {"t1"} ELSE {})
                       \cup (IF Flagged2(c, d) THEN {"t2"} ELSE {})
      /\ e.ier = c.ier /\ c.t1 \in Nat /\ c.t2 \in Nat /\ c.ifr \in SUBSET Timers
  <2>1. c.t1 \in Nat /\ c.t2 \in Nat /\ c.ifr \in SUBSET Timers
    BY <1>4, ChipIs
  <2>2. /\ e.ifr = c.ifr \cup (IF Flagged1(c, d) THEN {"t1"} ELSE {})
                         \cup (IF Flagged2(c, d) THEN {"t2"} ELSE {})
        /\ e.ier = c.ier
    BY <1>4, ElapsedIs DEF LaterBy
  <2> QED  BY <2>1, <2>2
<1>7. i \in mock.irq => e.ifr \cap e.ier # {}
  BY <1>5, <1>6
<1>8. ASSUME e.ifr \cap e.ier # {}, i \notin mock.irq PROVE \E t \in mock.due : t <= 0
  <2>1. \/ Flagged1(c, d) /\ "t1" \in c.ier \ c.ifr
        \/ Flagged2(c, d) /\ "t2" \in c.ier \ c.ifr
    BY <1>5, <1>6, <1>8
  <2>2. CASE mock.adrift # {}
    <3>1. c = FreshChip
      BY <1>1, <2>2 DEF c
    <3> QED  BY <2>1, <3>1 DEF FreshChip
  <2>3. CASE mock.adrift = {}
    <3>1. DueFor(c, mock.due, mock.behind) /\ d = mock.behind
      BY <1>1, <2>3, SinceIs DEF c, d
    <3>2. \A t \in mock.due : t \in Int
      BY <1>1, BoardIs DEF Times
    <3>3. CASE Flagged1(c, d) /\ "t1" \in c.ier \ c.ifr
      <4>1. ~(d < c.t1) /\ ~c.ran1
        BY <3>3 DEF Flagged1
      <4>2. PICK t \in mock.due : t <= c.t1 - mock.behind
        BY <3>1, <3>3, <4>1 DEF DueFor
      <4>3. c.t1 - mock.behind <= 0 /\ c.t1 - mock.behind \in Int
        BY <1>4, <1>6, <3>1, <4>1
      <4> QED  BY <3>2, <4>2, <4>3
    <3>4. CASE Flagged2(c, d) /\ "t2" \in c.ier \ c.ifr
      <4>1. ~(Time2(c, d) < c.t2) /\ ~c.ran2
        BY <3>4 DEF Flagged2
      <4>2. ~c.pulses
        <5>1. CASE c.pulses
          <6>1. c.t2 = 0
            BY <1>6, <4>1, <5>1 DEF Time2
          <6>2. Steady(c)
            BY DEF c, MInv, BoardOK
          <6> QED  BY <4>1, <6>1, <6>2 DEF Steady
        <5> QED  BY <5>1
      <4>3. PICK t \in mock.due : t <= c.t2 - mock.behind
        BY <3>1, <3>4, <4>1, <4>2 DEF DueFor
      <4>4. c.t2 - mock.behind <= 0 /\ c.t2 - mock.behind \in Int
        BY <1>4, <1>6, <3>1, <4>1, <4>2 DEF Time2
      <4> QED  BY <3>2, <4>3, <4>4
    <3> QED  BY <2>1, <3>3, <3>4
  <2> QED  BY <2>2, <2>3
<1> QED  BY <1>7, <1>8 DEF e

(* Programs that run into the quirks aside, no timer interrupt is ever late *)
(* and none is for nothing, for counters of any width and instructions of   *)
(* any length.                                                              *)
THEOREM TimersAlwaysOnTime ==
  ASSUME MockQuirks = {}
  PROVE  MockSpec => []InterruptsOnTime
BY MockInv, OnTime, PTL

-----------------------------------------------------------------------------
(* The chips as somebody sees them who counts every microsecond             *)
(* Two chips with the same registers are the same.                          *)
LEMMA SameChip ==
  ASSUME NEW x \in Chip, NEW y \in Chip,
         x.t1 = y.t1, x.t2 = y.t2, x.ran1 <=> y.ran1, x.ran2 <=> y.ran2, x.ifr = y.ifr,
         x.latch1 = y.latch1, x.low2 = y.low2, x.ier = y.ier, x.free <=> y.free, x.pulses <=> y.pulses
  PROVE  x = y
BY DEF Chip

(* What a remainder is one microsecond later, counted down                  *)
LEMMA ModBefore ==
  ASSUME NEW n \in Nat \ {0}, NEW x \in Int, x <= 0
  PROVE  /\ x % n \in 0..n - 1
         /\ (x - 1) % n = IF x % n = 0 THEN n - 1 ELSE (x % n) - 1
<1>1. PICK q \in Nat, r \in 0..n - 1 : 0 - x = n * q + r
  <2>1. 0 - x \in Nat
    OBVIOUS
  <2> QED  BY <2>1, Divides
<1>2. \A p \in Int, s \in 0..n - 1 : (n * p + s) % n = s
  OBVIOUS
<1>3. 0 - q \in Int /\ (0 - q) - 1 \in Int
  OBVIOUS
<1>4. n * (0 - q) = 0 - (n * q) /\ n * ((0 - q) - 1) = (0 - (n * q)) - n /\ n * q \in Nat
  OBVIOUS
<1>5. CASE r = 0
  <2>1. x = n * (0 - q) + 0 /\ x - 1 = n * ((0 - q) - 1) + (n - 1)
    BY <1>1, <1>4, <1>5
  <2>2. x % n = 0 /\ (x - 1) % n = n - 1
    <3>1. 0 \in 0..n - 1 /\ n - 1 \in 0..n - 1
      OBVIOUS
    <3>2. (n * (0 - q) + 0) % n = 0
      BY <1>2, <1>3, <3>1
    <3>3. (n * ((0 - q) - 1) + (n - 1)) % n = n - 1
      BY <1>2, <1>3, <3>1
    <3> QED  BY <2>1, <3>2, <3>3
  <2> QED  BY <2>2
<1>6. CASE r # 0
  <2>1. x = n * ((0 - q) - 1) + (n - r) /\ n - r \in 1..n - 1
    BY <1>1, <1>4, <1>6
  <2>2. x % n = n - r
    <3>1. n - r \in 0..n - 1
      BY <2>1
    <3>2. (n * ((0 - q) - 1) + (n - r)) % n = n - r
      BY <1>2, <1>3, <3>1
    <3> QED  BY <2>1, <3>2
  <2>3. (x - 1) % n = (n - r) - 1
    <3>1. (n - r) - 1 \in 0..n - 1 /\ x - 1 = n * ((0 - q) - 1) + ((n - r) - 1)
      BY <2>1
    <3>2. (n * ((0 - q) - 1) + ((n - r) - 1)) % n = (n - r) - 1
      BY <1>2, <1>3, <3>1
    <3> QED  BY <3>1, <3>2
  <2> QED  BY <2>1, <2>2, <2>3
<1> QED  BY <1>5, <1>6

(* Timer 1 a microsecond later                                              *)
LEMMA NextAfter1 ==
  ASSUME NEW c \in Chip, NEW m \in Nat
  PROVE  After1(c, m + 1) = IF After1(c, m) = 0 THEN c.latch1 + 1 ELSE After1(c, m) - 1
<1>1. c.t1 \in Nat /\ c.latch1 \in Nat /\ c.latch1 + 2 \in Nat \ {0}
  BY ChipIs
<1>2. CASE m + 1 < c.t1
  <2>1. m < c.t1 /\ After1(c, m + 1) = c.t1 - (m + 1) /\ After1(c, m) = c.t1 - m
    BY <1>1, <1>2 DEF After1
  <2> QED  BY <1>1, <1>2, <2>1
<1>3. CASE ~(m + 1 < c.t1)
  <2> DEFINE p == c.latch1 + 2
             r == ((m + 1) - c.t1) % p
             s == (m - c.t1) % p
  <2>1. p \in Nat \ {0} /\ p = c.latch1 + 2
    BY <1>1
  <2>2. r = ((m + 1) - c.t1) % (c.latch1 + 2) /\ s = (m - c.t1) % (c.latch1 + 2)
    OBVIOUS
  <2>3. m < c.t1 => r = 0
    <3> SUFFICES ASSUME m < c.t1 PROVE r = 0
      OBVIOUS
    <3>1. (m + 1) - c.t1 = 0
      BY <1>1, <1>3
    <3> HIDE DEF p
    <3>2. 0 % p = 0
      BY <2>1
    <3> QED  BY <3>1, <3>2
  <2>4. ~(m < c.t1) => s \in 0..p - 1 /\ r = IF s = p - 1 THEN 0 ELSE s + 1
    <3> SUFFICES ASSUME ~(m < c.t1) PROVE s \in 0..p - 1 /\ r = IF s = p - 1 THEN 0 ELSE s + 1
      OBVIOUS
    <3> DEFINE x == m - c.t1
    <3>1. x \in Nat /\ (m + 1) - c.t1 = x + 1 /\ s = x % p
      BY <1>1
    <3> HIDE DEF p, x, s
    <3>2. x % p \in 0..p - 1 /\ (x + 1) % p = IF x % p = p - 1 THEN 0 ELSE (x % p) + 1
      BY <2>1, <3>1, ModNext
    <3> QED  BY <3>1, <3>2
  <2> HIDE DEF r, s, p
  <2>5. After1(c, m + 1) = IF r = 0 THEN 0 ELSE p - r
    <3>1. m + 1 \in Nat
      OBVIOUS
    <3>2. After1(c, m + 1) = IF m + 1 < c.t1 THEN c.t1 - (m + 1) ELSE IF r = 0 THEN 0 ELSE (c.latch1 + 2) - r
      BY <2>2, <3>1, RunsOutIs
    <3> QED  BY <1>3, <2>1, <3>2
  <2>6. After1(c, m) = IF m < c.t1 THEN c.t1 - m ELSE IF s = 0 THEN 0 ELSE p - s
    <3>1. After1(c, m) = IF m < c.t1 THEN c.t1 - m ELSE IF s = 0 THEN 0 ELSE (c.latch1 + 2) - s
      BY <2>2, RunsOutIs
    <3> QED  BY <2>1, <3>1
  <2>7. CASE m < c.t1
    BY <1>1, <1>3, <2>3, <2>5, <2>6, <2>7
  <2>8. CASE ~(m < c.t1)
    BY <1>1, <2>1, <2>4, <2>5, <2>6, <2>8
  <2> QED  BY <2>7, <2>8
<1> QED  BY <1>2, <1>3

(* Timer 2 a microsecond later                                              *)
LEMMA NextAfter2 ==
  ASSUME NEW c \in Chip, NEW m \in Nat, ~c.pulses
  PROVE  After2(c, m + 1) = IF After2(c, m) = 0 THEN Word - 1 ELSE After2(c, m) - 1
<1>1. c.t2 \in Nat /\ Word \in Nat \ {0, 1}
  BY ChipIs
<1>2. Time2(c, m) = m /\ Time2(c, m + 1) = m + 1
  BY DEF Time2
<1>3. CASE m + 1 < c.t2
  <2>1. m < c.t2 /\ After2(c, m + 1) = c.t2 - (m + 1) /\ After2(c, m) = c.t2 - m
    BY <1>1, <1>2, <1>3 DEF After2
  <2> QED  BY <1>1, <1>3, <2>1
<1> DEFINE w == Word
<1>4. w \in Nat \ {0, 1} /\ w = Word
  BY <1>1
<1> HIDE DEF w
<1>5. CASE m + 1 = c.t2
  <2>1. After2(c, m + 1) = (c.t2 - (m + 1)) % w /\ After2(c, m) = c.t2 - m
    BY <1>1, <1>2, <1>4, <1>5 DEF After2
  <2>2. c.t2 - (m + 1) = 0 /\ 0 % w = 0 /\ c.t2 - m = 1
    BY <1>1, <1>4, <1>5
  <2> QED  BY <2>1, <2>2
<1>6. CASE ~(m < c.t2)
  <2> DEFINE x == c.t2 - m
  <2>1. After2(c, m + 1) = (c.t2 - (m + 1)) % w /\ After2(c, m) = x % w
    BY <1>1, <1>2, <1>4, <1>6 DEF After2
  <2>2. x \in Int /\ x <= 0 /\ c.t2 - (m + 1) = x - 1
    BY <1>1, <1>6
  <2> HIDE DEF x
  <2>3. (x - 1) % w = IF x % w = 0 THEN w - 1 ELSE (x % w) - 1
    BY <1>4, <2>2, ModBefore
  <2> QED  BY <1>4, <2>1, <2>2, <2>3
<1> QED  BY <1>1, <1>3, <1>5, <1>6

(* What a microsecond does to a chip, register by register                  *)
Left1(c) == IF c.t1 = 0 THEN c.latch1 + 1 ELSE c.t1 - 1
Left2(c) == IF c.pulses THEN c.t2 ELSE IF c.t2 = 0 THEN Word - 1 ELSE c.t2 - 1
Runs1(c) == Left1(c) = 0
Runs2(c) == Left2(c) = 0 /\ ~c.pulses

(* A microsecond of timer 1                                                 *)
LEMMA TickOneIs ==
  ASSUME NEW c \in Chip, NEW e, e = Chips!Tick1(c)
  PROVE  /\ e \in Chip /\ e.t1 = Left1(c) /\ (e.ran1 <=> IF Runs1(c) THEN ~c.free ELSE c.ran1)
         /\ e.ifr = c.ifr \cup (IF Runs1(c) /\ ~c.ran1 THEN {"t1"} ELSE {})
         /\ e.t2 = c.t2 /\ (e.ran2 <=> c.ran2)
         /\ e.latch1 = c.latch1 /\ e.low2 = c.low2 /\ e.ier = c.ier
         /\ (e.free <=> c.free) /\ (e.pulses <=> c.pulses)
<1> DEFINE a == Left1(c)
           f == c.ifr \cup (IF Runs1(c) /\ ~c.ran1 THEN {"t1"} ELSE {})
<1>1. /\ c.ran1 \in BOOLEAN /\ c.free \in BOOLEAN /\ c.ifr \in SUBSET Timers
      /\ c.t1 \in 0..Word + 1 /\ c.latch1 \in 0..Word - 1 /\ Word \in Nat \ {0, 1}
  BY ChipIs
<1>2. PICK x \in BOOLEAN : x <=> IF Runs1(c) THEN ~c.free ELSE c.ran1
  BY <1>1
<1>3. a \in 0..Word + 1
  <2> DEFINE w == Word
  <2>1. c.t1 \in 0..w + 1 /\ c.latch1 \in 0..w - 1 /\ w \in Nat \ {0, 1}
    BY <1>1
  <2> HIDE DEF w
  <2>2. a \in 0..w + 1
    BY <2>1 DEF Left1
  <2> QED  BY <2>2 DEF w
<1>4. f \in SUBSET Timers
  BY <1>1, FlagsOf
<1>5. e = [c EXCEPT !.t1 = a, !.ran1 = x, !.ifr = f]
  <2>1. CASE a = 0
    <3>1. e = [c EXCEPT !.t1 = 0, !.ran1 = ~c.free, !.ifr = IF c.ran1 THEN c.ifr ELSE c.ifr \cup {"t1"}]
      BY <2>1 DEF Chips!Tick1, Left1
    <3>2. f = IF c.ran1 THEN c.ifr ELSE c.ifr \cup {"t1"}
      BY <2>1 DEF Runs1
    <3>3. x = ~c.free
      BY <1>1, <1>2, <2>1 DEF Runs1
    <3> HIDE DEF a, f
    <3> QED  BY <2>1, <3>1, <3>2, <3>3
  <2>2. CASE a # 0
    <3>1. e = [c EXCEPT !.t1 = a]
      BY <2>2 DEF Chips!Tick1, Left1
    <3>2. f = c.ifr
      BY <2>2 DEF Runs1
    <3>3. x = c.ran1
      BY <1>1, <1>2, <2>2 DEF Runs1
    <3> HIDE DEF a, f
    <3> QED  BY <3>1, <3>2, <3>3 DEF Chip
  <2> QED  BY <2>1, <2>2
<1>6. a = Left1(c) /\ f = c.ifr \cup (IF Runs1(c) /\ ~c.ran1 THEN {"t1"} ELSE {})
  OBVIOUS
<1> HIDE DEF a, f
<1>7. e.t1 = a /\ e.ran1 = x /\ e.ifr = f
  BY <1>5 DEF Chip
<1>8. e \in Chip
  BY <1>3, <1>4, <1>5 DEF Chip
<1>9. /\ e.t2 = c.t2 /\ e.ran2 = c.ran2 /\ e.latch1 = c.latch1 /\ e.low2 = c.low2 /\ e.ier = c.ier
      /\ e.free = c.free /\ e.pulses = c.pulses
  BY <1>5 DEF Chip
<1> QED  BY <1>2, <1>6, <1>7, <1>8, <1>9

(* A microsecond of timer 2                                                 *)
LEMMA TickTwoIs ==
  ASSUME NEW c \in Chip, NEW e, e = Chips!Tick2(c)
  PROVE  /\ e \in Chip /\ e.t2 = Left2(c) /\ (e.ran2 <=> IF Runs2(c) THEN TRUE ELSE c.ran2)
         /\ e.ifr = c.ifr \cup (IF Runs2(c) /\ ~c.ran2 THEN {"t2"} ELSE {})
         /\ e.t1 = c.t1 /\ (e.ran1 <=> c.ran1)
         /\ e.latch1 = c.latch1 /\ e.low2 = c.low2 /\ e.ier = c.ier
         /\ (e.free <=> c.free) /\ (e.pulses <=> c.pulses)
<1> DEFINE a == Left2(c)
           f == c.ifr \cup (IF Runs2(c) /\ ~c.ran2 THEN {"t2"} ELSE {})
<1>1. /\ c.ran2 \in BOOLEAN /\ c.pulses \in BOOLEAN /\ c.ifr \in SUBSET Timers
      /\ c.t2 \in 0..Word + 1 /\ Word \in Nat \ {0, 1}
  BY ChipIs
<1>2. PICK x \in BOOLEAN : x <=> IF Runs2(c) THEN TRUE ELSE c.ran2
  BY <1>1
<1>3. a \in 0..Word + 1
  <2> DEFINE w == Word
  <2>1. c.t2 \in 0..w + 1 /\ w \in Nat \ {0, 1} /\ a = IF c.pulses THEN c.t2 ELSE IF c.t2 = 0 THEN w - 1 ELSE c.t2 - 1
    BY <1>1 DEF Left2
  <2> HIDE DEF w, a
  <2>2. a \in 0..w + 1
    BY <2>1
  <2> QED  BY <2>2 DEF w
<1>4. f \in SUBSET Timers
  BY <1>1, FlagsOf
<1>0. Chips!Word = Word
  BY DEF Word, Chips!Word
<1>5. e = [c EXCEPT !.t2 = a, !.ran2 = x, !.ifr = f]
  <2>1. CASE a = 0 /\ ~c.pulses
    <3>1. e = [c EXCEPT !.t2 = 0, !.ran2 = TRUE, !.ifr = IF c.ran2 THEN c.ifr ELSE c.ifr \cup {"t2"}]
      BY <1>0, <2>1 DEF Chips!Tick2, Left2
    <3>2. f = IF c.ran2 THEN c.ifr ELSE c.ifr \cup {"t2"}
      BY <2>1 DEF Runs2
    <3>3. x = TRUE
      BY <1>1, <1>2, <2>1 DEF Runs2
    <3> HIDE DEF a, f
    <3> QED  BY <2>1, <3>1, <3>2, <3>3
  <2>2. CASE ~(a = 0 /\ ~c.pulses)
    <3>1. e = [c EXCEPT !.t2 = a]
      BY <1>0, <2>2 DEF Chips!Tick2, Left2, Chip
    <3>2. f = c.ifr
      BY <2>2 DEF Runs2
    <3>3. x = c.ran2
      BY <1>1, <1>2, <2>2 DEF Runs2
    <3> HIDE DEF a, f
    <3> QED  BY <3>1, <3>2, <3>3 DEF Chip
  <2> QED  BY <2>1, <2>2
<1>6. a = Left2(c) /\ f = c.ifr \cup (IF Runs2(c) /\ ~c.ran2 THEN {"t2"} ELSE {})
  OBVIOUS
<1> HIDE DEF a, f
<1>7. e.t2 = a /\ e.ran2 = x /\ e.ifr = f
  BY <1>5 DEF Chip
<1>8. e \in Chip
  BY <1>3, <1>4, <1>5 DEF Chip
<1>9. /\ e.t1 = c.t1 /\ e.ran1 = c.ran1 /\ e.latch1 = c.latch1 /\ e.low2 = c.low2 /\ e.ier = c.ier
      /\ e.free = c.free /\ e.pulses = c.pulses
  BY <1>5 DEF Chip
<1> QED  BY <1>2, <1>6, <1>7, <1>8, <1>9

(* Bringing a chip up to date a microsecond later is the same as letting    *)
(* that microsecond pass.                                                   *)
LEMMA TickIs ==
  ASSUME NEW c \in Chip, NEW m \in Nat, Minded(c, m + 1)
  PROVE  Chips!Tick2(Chips!Tick1(Elapsed(c, m))) = Elapsed(c, m + 1)
<1> DEFINE e == Elapsed(c, m)
           f == Elapsed(c, m + 1)
           g == Chips!Tick1(e)
           h == Chips!Tick2(g)
<1>1. /\ c.t1 \in Nat /\ c.t2 \in Nat /\ c.latch1 \in Nat /\ Word \in Nat \ {0, 1} /\ m + 1 \in Nat
      /\ c.ifr \in SUBSET Timers
  BY ChipIs
<1>2. /\ e \in Chip
      /\ e.t1 = After1(c, m) /\ e.t2 = After2(c, m)
      /\ (e.ran1 <=> IF m < c.t1 THEN c.ran1 ELSE ~c.free)
      /\ (e.ran2 <=> IF Time2(c, m) < c.t2 THEN c.ran2 ELSE TRUE)
      /\ e.ifr = c.ifr \cup (IF Flagged1(c, m) THEN {"t1"} ELSE {})
                       \cup (IF Flagged2(c, m) THEN {"t2"} ELSE {})
      /\ e.latch1 = c.latch1 /\ e.low2 = c.low2 /\ e.ier = c.ier
      /\ (e.free <=> c.free) /\ (e.pulses <=> c.pulses)
  BY ElapsedIs DEF LaterBy
<1>14. LaterBy(c, m + 1, f)
  <2>1. PICK n \in Nat : n = m + 1
    BY <1>1
  <2>2. f = Elapsed(c, n)
    BY <2>1
  <2> HIDE DEF f
  <2>3. LaterBy(c, n, f)
    BY <2>2, ElapsedIs, Zenon
  <2> QED  BY <2>1, <2>3, Zenon
<1> HIDE DEF e, f
<1>3. /\ f \in Chip
      /\ f.t1 = After1(c, m + 1) /\ f.t2 = After2(c, m + 1)
      /\ (f.ran1 <=> IF m + 1 < c.t1 THEN c.ran1 ELSE ~c.free)
      /\ (f.ran2 <=> IF Time2(c, m + 1) < c.t2 THEN c.ran2 ELSE TRUE)
      /\ f.ifr = c.ifr \cup (IF Flagged1(c, m + 1) THEN {"t1"} ELSE {})
                       \cup (IF Flagged2(c, m + 1) THEN {"t2"} ELSE {})
      /\ f.latch1 = c.latch1 /\ f.low2 = c.low2 /\ f.ier = c.ier
      /\ (f.free <=> c.free) /\ (f.pulses <=> c.pulses)
  BY <1>14 DEF LaterBy
<1>4. /\ g \in Chip /\ g.t1 = Left1(e) /\ (g.ran1 <=> IF Runs1(e) THEN ~e.free ELSE e.ran1)
      /\ g.ifr = e.ifr \cup (IF Runs1(e) /\ ~e.ran1 THEN {"t1"} ELSE {})
      /\ g.t2 = e.t2 /\ (g.ran2 <=> e.ran2)
      /\ g.latch1 = e.latch1 /\ g.low2 = e.low2 /\ g.ier = e.ier
      /\ (g.free <=> e.free) /\ (g.pulses <=> e.pulses)
  BY <1>2, TickOneIs
<1> HIDE DEF g
<1>5. /\ h \in Chip /\ h.t2 = Left2(g) /\ (h.ran2 <=> IF Runs2(g) THEN TRUE ELSE g.ran2)
      /\ h.ifr = g.ifr \cup (IF Runs2(g) /\ ~g.ran2 THEN {"t2"} ELSE {})
      /\ h.t1 = g.t1 /\ (h.ran1 <=> g.ran1)
      /\ h.latch1 = g.latch1 /\ h.low2 = g.low2 /\ h.ier = g.ier
      /\ (h.free <=> g.free) /\ (h.pulses <=> g.pulses)
  BY <1>4, TickTwoIs
<1> HIDE DEF h
<1>6. After1(c, m + 1) = IF After1(c, m) = 0 THEN c.latch1 + 1 ELSE After1(c, m) - 1
  BY NextAfter1
<1>7. Left1(e) = f.t1
  BY <1>2, <1>3, <1>6 DEF Left1
<1>8. Left2(g) = f.t2
  <2>1. CASE c.pulses
    <3>1. After2(c, m + 1) = After2(c, m)
      BY <2>1 DEF After2, Time2
    <3>2. Left2(g) = g.t2
      BY <1>2, <1>4, <2>1 DEF Left2
    <3> QED  BY <1>2, <1>3, <1>4, <3>1, <3>2
  <2>2. CASE ~c.pulses
    <3>1. After2(c, m + 1) = IF After2(c, m) = 0 THEN Word - 1 ELSE After2(c, m) - 1
      BY <2>2, NextAfter2
    <3> QED  BY <1>2, <1>3, <1>4, <2>2, <3>1 DEF Left2
  <2> QED  BY <2>1, <2>2
<1>9. /\ (h.ran1 <=> f.ran1)
      /\ (Flagged1(c, m + 1) <=> Flagged1(c, m) \/ (Runs1(e) /\ ~e.ran1))
  <2>1. CASE m + 1 < c.t1
    <3>1. m < c.t1 /\ After1(c, m + 1) # 0
      BY <1>1, <2>1 DEF After1
    <3> QED  BY <1>2, <1>3, <1>4, <1>5, <1>7, <2>1, <3>1 DEF Flagged1, Runs1
  <2>2. CASE m + 1 = c.t1
    <3>1. m < c.t1 /\ After1(c, m) = 1 /\ ~(m + 1 < c.t1)
      BY <1>1, <2>2 DEF After1
    <3>2. Left1(e) = 0
      BY <1>2, <3>1 DEF Left1
    <3> QED  BY <1>2, <1>3, <1>4, <1>5, <3>1, <3>2 DEF Flagged1, Runs1
  <2>3. CASE ~(m < c.t1)
    <3>1. ~(m + 1 < c.t1)
      BY <1>1, <2>3
    <3>2. ~(c.free /\ c.ran1)
      BY <3>1 DEF Minded
    <3> QED  BY <1>2, <1>3, <1>4, <1>5, <2>3, <3>1, <3>2 DEF Flagged1
  <2> QED  BY <1>1, <2>1, <2>2, <2>3
<1>10. /\ (h.ran2 <=> f.ran2)
       /\ (Flagged2(c, m + 1) <=> Flagged2(c, m) \/ (Runs2(g) /\ ~g.ran2))
  <2>1. CASE c.pulses
    <3>1. Time2(c, m + 1) = 0 /\ Time2(c, m) = 0
      BY <2>1 DEF Time2
    <3>2. ~Runs2(g)
      BY <1>2, <1>4, <2>1 DEF Runs2
    <3> QED  BY <1>2, <1>3, <1>4, <1>5, <3>1, <3>2 DEF Flagged2
  <2>2. CASE ~c.pulses
    <3>1. Time2(c, m + 1) = m + 1 /\ Time2(c, m) = m
      BY <2>2 DEF Time2
    <3>2. CASE m + 1 < c.t2
      <4>1. m < c.t2 /\ After2(c, m + 1) # 0
        BY <1>1, <3>1, <3>2 DEF After2
      <4> QED  BY <1>2, <1>3, <1>4, <1>5, <1>8, <3>1, <3>2, <4>1 DEF Flagged2, Runs2
    <3>3. CASE m + 1 = c.t2
      <4>1. m < c.t2 /\ After2(c, m) = 1 /\ ~(m + 1 < c.t2)
        BY <1>1, <3>1, <3>3 DEF After2
      <4>2. Left2(g) = 0
        BY <1>2, <1>4, <2>2, <4>1 DEF Left2
      <4> QED  BY <1>2, <1>3, <1>4, <1>5, <2>2, <3>1, <4>1, <4>2 DEF Flagged2, Runs2
    <3>4. CASE ~(m < c.t2)
      <4>1. ~(m + 1 < c.t2)
        BY <1>1, <3>4
      <4> QED  BY <1>2, <1>3, <1>4, <1>5, <3>1, <3>4, <4>1 DEF Flagged2
    <3> QED  BY <1>1, <3>2, <3>3, <3>4
  <2> QED  BY <2>1, <2>2
<1>11. h.ifr = f.ifr
  BY <1>2, <1>3, <1>4, <1>5, <1>9, <1>10
<1>12. h = f
  <2>1. h.t1 = f.t1 /\ h.t2 = f.t2
    BY <1>4, <1>5, <1>7, <1>8
  <2>2. h.latch1 = f.latch1 /\ h.low2 = f.low2 /\ h.ier = f.ier /\ (h.free <=> f.free) /\ (h.pulses <=> f.pulses)
    BY <1>2, <1>3, <1>4, <1>5
  <2> QED  BY <1>3, <1>5, <1>9, <1>10, <1>11, <2>1, <2>2, SameChip
<1> QED  BY <1>12 DEF e, f, g, h

(* What the first of a kind of number is                                    *)
LEMMA LeastOf ==
  ASSUME NEW T \in SUBSET Nat, T # {}
  PROVE  \E t \in T : \A y \in T : ~(y < t)
<1>1. PICK t \in T : \A y \in T : ~ (<<y, t>> \in OpToRel(<, Nat))
  BY NatLessThanWellFounded, WFMin, Zenon
<1>2. ASSUME NEW y \in T, y < t PROVE FALSE
  <2> DEFINE ss == <<y, t>>
  <2>1. ss \in Nat \X Nat /\ ss[1] = y /\ ss[2] = t
    OBVIOUS
  <2>2. ss \in OpToRel(<, Nat)
    BY <2>1, <1>2 DEF OpToRel
  <2> QED  BY <2>2, <1>1
<1> QED  BY <1>2

(* However long a chip is left alone, bringing it up to date does what the  *)
(* microseconds would have done one by one.                                 *)
LEMMA TicksAre ==
  ASSUME NEW c \in Chip, NEW d \in Nat, NEW n \in Nat, Minded(c, d + n)
  PROVE  Chips!Ticks(Elapsed(c, d), n) = Elapsed(c, d + n)
<1> DEFINE e == Elapsed(c, d)
           Counts(g) == g = [i \in 0..n |-> IF i = 0 THEN e ELSE Chips!Tick2(Chips!Tick1(g[i - 1]))]
           w == [i \in 0..n |-> Elapsed(c, d + i)]
<1>1. ASSUME NEW i \in 0..n, i # 0
      PROVE  i - 1 \in 0..n /\ Chips!Tick2(Chips!Tick1(Elapsed(c, d + (i - 1)))) = Elapsed(c, d + i)
  <2>1. i - 1 \in 0..n /\ d + (i - 1) \in Nat /\ (d + (i - 1)) + 1 = d + i /\ d + i <= d + n
    BY <1>1
  <2>2. PICK m \in Nat : m = d + (i - 1)
    BY <2>1
  <2>3. Minded(c, m + 1)
    <3>1. c.t1 \in Nat
      BY ChipIs
    <3> QED  BY <2>1, <2>2, <3>1 DEF Minded
  <2>4. Chips!Tick2(Chips!Tick1(Elapsed(c, m))) = Elapsed(c, m + 1)
    BY <2>2, <2>3, TickIs
  <2>5. m + 1 = d + i
    BY <2>1, <2>2
  <2> QED  BY <2>1, <2>2, <2>4, <2>5, Zenon
<1>2. d + 0 = d
  OBVIOUS
<1>3. Counts(w)
  <2> SUFFICES \A i \in 0..n : w[i] = IF i = 0 THEN e ELSE Chips!Tick2(Chips!Tick1(w[i - 1]))
    OBVIOUS
  <2> SUFFICES ASSUME NEW i \in 0..n
               PROVE  w[i] = IF i = 0 THEN e ELSE Chips!Tick2(Chips!Tick1(w[i - 1]))
    OBVIOUS
  <2>1. CASE i = 0
    <3>1. w[i] = Elapsed(c, d + 0)
      BY <2>1
    <3> QED  BY <1>2, <2>1, <3>1, Zenon
  <2>2. CASE i # 0
    <3>1. w[i] = Elapsed(c, d + i) /\ w[i - 1] = Elapsed(c, d + (i - 1))
      BY <1>1, <2>2, Zenon
    <3> QED  BY <1>1, <2>2, <3>1, Zenon
  <2> QED  BY <2>1, <2>2
<1>4. ASSUME NEW g, Counts(g) PROVE g[n] = Elapsed(c, d + n)
  <2> DEFINE T == {i \in 0..n : g[i] # Elapsed(c, d + i)}
  <2>0. \A i \in 0..n : g[i] = IF i = 0 THEN e ELSE Chips!Tick2(Chips!Tick1(g[i - 1]))
    <3> SUFFICES ASSUME NEW i \in 0..n
                 PROVE  g[i] = IF i = 0 THEN e ELSE Chips!Tick2(Chips!Tick1(g[i - 1]))
      OBVIOUS
    <3> DEFINE h == [k \in 0..n |-> IF k = 0 THEN e ELSE Chips!Tick2(Chips!Tick1(g[k - 1]))]
    <3>1. g = h
      BY <1>4, Zenon
    <3>2. h[i] = IF i = 0 THEN e ELSE Chips!Tick2(Chips!Tick1(g[i - 1]))
      BY Zenon
    <3> HIDE DEF h
    <3> QED  BY <3>1, <3>2, Zenon
  <2>1. T = {}
    <3> SUFFICES ASSUME T # {} PROVE FALSE
      OBVIOUS
    <3>1. T \in SUBSET Nat
      OBVIOUS
    <3>2. PICK t \in T : \A y \in T : ~(y < t)
      <4> HIDE DEF T
      <4> QED  BY <3>1, LeastOf
    <3>3. t \in 0..n /\ g[t] # Elapsed(c, d + t)
      BY <3>2
    <3>4. CASE t = 0
      <4>1. g[t] = e
        BY <2>0, <3>3, <3>4, Zenon
      <4> QED  BY <1>2, <3>3, <3>4, <4>1, Zenon
    <3>5. CASE t # 0
      <4>1. t - 1 \in 0..n /\ t - 1 < t
        BY <3>3, <3>5
      <4>2. t - 1 \notin T
        BY <3>2, <4>1, Zenon
      <4>3. g[t - 1] = Elapsed(c, d + (t - 1))
        BY <4>1, <4>2, Zenon
      <4>4. g[t] = Chips!Tick2(Chips!Tick1(g[t - 1]))
        BY <2>0, <3>3, <3>5, Zenon
      <4> QED  BY <1>1, <3>3, <3>5, <4>3, <4>4, Zenon
    <3> QED  BY <3>4, <3>5
  <2>2. n \in 0..n
    OBVIOUS
  <2> QED  BY <2>1, <2>2, Zenon
<1>5. Chips!Ticks(e, n) = (CHOOSE g : Counts(g))[n]
  BY DEF Chips!Ticks
<1>6. Counts(CHOOSE g : Counts(g))
  <2> HIDE DEF Counts, w
  <2> QED  BY <1>3
<1> HIDE DEF Counts, w
<1> QED  BY <1>4, <1>5, <1>6, Zenon DEF e

(* What is cleared or written while timer 1 is at 0                         *)
LEMMA HeldIs ==
  ASSUME NEW c \in Chip, c.t2 = 0 => c.ran2
  PROVE  Chips!Held(c) = Elapsed(c, 0)
<1> DEFINE e == Elapsed(c, 0)
           f == c.ifr \cup (IF c.t1 = 0 /\ ~c.ran1 THEN {"t1"} ELSE {})
           h == Chips!Held(c)
<1>1. /\ e \in Chip /\ e.t1 = After1(c, 0) /\ e.t2 = After2(c, 0)
      /\ (e.ran1 <=> IF 0 < c.t1 THEN c.ran1 ELSE ~c.free)
      /\ (e.ran2 <=> IF Time2(c, 0) < c.t2 THEN c.ran2 ELSE TRUE)
      /\ e.ifr = c.ifr \cup (IF Flagged1(c, 0) THEN {"t1"} ELSE {})
                       \cup (IF Flagged2(c, 0) THEN {"t2"} ELSE {})
      /\ e.latch1 = c.latch1 /\ e.low2 = c.low2 /\ e.ier = c.ier
      /\ (e.free <=> c.free) /\ (e.pulses <=> c.pulses)
  BY ElapsedIs DEF LaterBy
<1>2. c.t1 \in Nat /\ c.t2 \in Nat /\ c.latch1 \in Nat /\ Word \in Nat \ {0, 1} /\ c.ifr \in SUBSET Timers
      /\ c.ran1 \in BOOLEAN /\ c.free \in BOOLEAN
  BY ChipIs
<1>3. Time2(c, 0) = 0
  BY DEF Time2
<1>4. e.t1 = c.t1 /\ e.t2 = c.t2
  <2> DEFINE r == (0 - c.t1) % (c.latch1 + 2)
             p == c.latch1 + 2
  <2>1. r = (0 - c.t1) % (c.latch1 + 2)
    OBVIOUS
  <2>2. After1(c, 0) = IF 0 < c.t1 THEN c.t1 - 0 ELSE IF r = 0 THEN 0 ELSE (c.latch1 + 2) - r
    <3> HIDE DEF r
    <3> QED  BY <2>1, RunsOutIs
  <2>3. c.t1 = 0 => r = 0
    <3> SUFFICES ASSUME c.t1 = 0 PROVE r = 0
      OBVIOUS
    <3>1. 0 - c.t1 = 0 /\ p \in Nat \ {0} /\ r = (0 - c.t1) % p
      BY <1>2
    <3> HIDE DEF p, r
    <3>2. 0 % p = 0
      BY <3>1
    <3> QED  BY <3>1, <3>2
  <2> HIDE DEF r
  <2>4. e.t1 = c.t1
    BY <1>1, <1>2, <2>2, <2>3
  <2>5. After2(c, 0) = c.t2
    <3>1. CASE 0 < c.t2
      BY <1>2, <1>3, <3>1 DEF After2
    <3>2. CASE c.t2 = 0
      <4>1. After2(c, 0) = (c.t2 - 0) % Word
        BY <1>2, <1>3, <3>2 DEF After2
      <4>2. c.t2 - 0 = 0 /\ 0 % Word = 0
        BY <1>2, <3>2
      <4> QED  BY <3>2, <4>1, <4>2
    <3> QED  BY <1>2, <3>1, <3>2
  <2> QED  BY <1>1, <2>4, <2>5
<1>5. (e.ran2 <=> c.ran2) /\ ~Flagged2(c, 0)
  BY <1>1, <1>2, <1>3 DEF Flagged2
<1>6. Flagged1(c, 0) <=> c.t1 = 0 /\ ~c.ran1
  BY <1>2 DEF Flagged1
<1>7. e.ifr = f
  BY <1>1, <1>5, <1>6
<1>8. f \in SUBSET Timers
  BY <1>2, FlagsOf
<1>9. PICK x \in BOOLEAN : x <=> IF 0 < c.t1 THEN c.ran1 ELSE ~c.free
  BY <1>2
<1>10. h = [c EXCEPT !.ran1 = x, !.ifr = f]
  <2>1. CASE c.t1 = 0
    <3>1. h = [c EXCEPT !.ran1 = ~c.free, !.ifr = IF c.ran1 THEN c.ifr ELSE c.ifr \cup {"t1"}]
      BY <2>1 DEF Chips!Held
    <3>2. f = IF c.ran1 THEN c.ifr ELSE c.ifr \cup {"t1"}
      BY <2>1
    <3>3. x = ~c.free
      BY <1>2, <1>9, <2>1
    <3> HIDE DEF f, h
    <3> QED  BY <3>1, <3>2, <3>3
  <2>2. CASE c.t1 # 0
    <3>1. h = c /\ f = c.ifr /\ x = c.ran1
      BY <1>2, <1>9, <2>2 DEF Chips!Held
    <3> HIDE DEF f, h
    <3> QED  BY <3>1 DEF Chip
  <2> QED  BY <2>1, <2>2
<1> HIDE DEF f, h, e
<1>11. h \in Chip
  BY <1>8, <1>10 DEF Chip
<1>12. /\ h.t1 = c.t1 /\ h.t2 = c.t2 /\ h.ran1 = x /\ h.ran2 = c.ran2 /\ h.ifr = f
       /\ h.latch1 = c.latch1 /\ h.low2 = c.low2 /\ h.ier = c.ier /\ h.free = c.free
       /\ h.pulses = c.pulses
  BY <1>10 DEF Chip
<1>13. h.ran1 <=> e.ran1
  BY <1>1, <1>9, <1>12
<1>14. h = e
  BY <1>1, <1>4, <1>5, <1>7, <1>11, <1>12, <1>13, SameChip
<1> QED  BY <1>14 DEF e, h

-----------------------------------------------------------------------------
(* Each step of the board is an instruction of the chips, or their reset.   *)
(* The two modules speak of the same things.                                *)
LEMMA SameNames ==
  /\ Chips!Word = Word /\ Chips!Pairs = Pairs /\ Chips!Timers = Timers /\ Chips!Fresh = FreshChip
BY DEF Chips!Word, Word, Chips!Pairs, Pairs, Chips!Timers, Timers, Chips!Fresh, FreshChip

(* After an access that brings the board up to date, the chips are what it  *)
(* says they are.                                                           *)
LEMMA NowNext ==
  ASSUME BoardOK(mock'), Since(mock') = 0, NEW i \in Pairs
  PROVE  Now'[i] = mock'.pair[i]
<1>1. mock'.pair[i] \in Chip /\ Steady(mock'.pair[i])
  BY BoardIs DEF BoardOK, Ready
<1>2. Since(mock)' = 0
  BY DEF Since
<1>3. Now'[i] = Elapsed(mock'.pair[i], 0)
  BY <1>2 DEF Now
<1> QED  BY <1>1, <1>3, StillIs

(* The second timer's latch plays no part in the counting.                  *)
LEMMA LowKept ==
  ASSUME NEW c \in Chip, NEW d \in Nat, NEW v \in 0..Byte - 1, NEW k, k = [c EXCEPT !.low2 = v],
         NEW e, e = Elapsed(c, d)
  PROVE  Elapsed(k, d) = [e EXCEPT !.low2 = v]
<1> DEFINE f == Elapsed(k, d)
           g == [e EXCEPT !.low2 = v]
<1>1. /\ k \in Chip /\ k.t1 = c.t1 /\ k.t2 = c.t2 /\ k.ran1 = c.ran1 /\ k.ran2 = c.ran2
      /\ k.ifr = c.ifr /\ k.ier = c.ier /\ k.latch1 = c.latch1 /\ k.low2 = v
      /\ k.free = c.free /\ k.pulses = c.pulses
  BY DEF Chip
<1>2. /\ e \in Chip
      /\ e.t1 = After1(c, d) /\ e.t2 = After2(c, d)
      /\ (e.ran1 <=> IF d < c.t1 THEN c.ran1 ELSE ~c.free)
      /\ (e.ran2 <=> IF Time2(c, d) < c.t2 THEN c.ran2 ELSE TRUE)
      /\ e.ifr = c.ifr \cup (IF Flagged1(c, d) THEN {"t1"} ELSE {})
                       \cup (IF Flagged2(c, d) THEN {"t2"} ELSE {})
      /\ e.latch1 = c.latch1 /\ e.low2 = c.low2 /\ e.ier = c.ier
      /\ (e.free <=> c.free) /\ (e.pulses <=> c.pulses)
  BY ElapsedIs DEF LaterBy
<1>0. f = Elapsed(k, d)
  OBVIOUS
<1> HIDE DEF f
<1>3. /\ f \in Chip
      /\ f.t1 = After1(k, d) /\ f.t2 = After2(k, d)
      /\ (f.ran1 <=> IF d < k.t1 THEN k.ran1 ELSE ~k.free)
      /\ (f.ran2 <=> IF Time2(k, d) < k.t2 THEN k.ran2 ELSE TRUE)
      /\ f.ifr = k.ifr \cup (IF Flagged1(k, d) THEN {"t1"} ELSE {})
                       \cup (IF Flagged2(k, d) THEN {"t2"} ELSE {})
      /\ f.latch1 = k.latch1 /\ f.low2 = k.low2 /\ f.ier = k.ier
      /\ (f.free <=> k.free) /\ (f.pulses <=> k.pulses)
  <2>1. k \in Chip
    BY <1>1
  <2>2. SUFFICES ASSUME NEW x \in Chip, NEW y, y = Elapsed(x, d)
        PROVE  /\ y \in Chip
               /\ y.t1 = After1(x, d) /\ y.t2 = After2(x, d)
               /\ (y.ran1 <=> IF d < x.t1 THEN x.ran1 ELSE ~x.free)
               /\ (y.ran2 <=> IF Time2(x, d) < x.t2 THEN x.ran2 ELSE TRUE)
               /\ y.ifr = x.ifr \cup (IF Flagged1(x, d) THEN {"t1"} ELSE {})
                                \cup (IF Flagged2(x, d) THEN {"t2"} ELSE {})
               /\ y.latch1 = x.latch1 /\ y.low2 = x.low2 /\ y.ier = x.ier
               /\ (y.free <=> x.free) /\ (y.pulses <=> x.pulses)
    BY <1>0, <2>1, Zenon
  <2> QED  BY <2>2, ElapsedIs DEF LaterBy
<1>4. /\ Time2(k, d) = Time2(c, d)
      /\ (Flagged1(k, d) <=> Flagged1(c, d))
  BY <1>1 DEF Time2, Flagged1
<1>5. /\ After1(k, d) = After1(c, d) /\ After2(k, d) = After2(c, d)
      /\ (Flagged2(k, d) <=> Flagged2(c, d))
  <2> DEFINE F(t, l) == IF d < t THEN t - d
                        ELSE LET rest == (d - t) % (l + 2) IN IF rest = 0 THEN 0 ELSE l + 2 - rest
             G(t, n) == IF n < t THEN t - n ELSE (t - n) % Word
  <2>0. /\ After1(k, d) = F(k.t1, k.latch1) /\ After1(c, d) = F(c.t1, c.latch1)
        /\ After2(k, d) = G(k.t2, Time2(k, d)) /\ After2(c, d) = G(c.t2, Time2(c, d))
    BY Zenon DEF After1, After2
  <2> HIDE DEF F, G
  <2>1. After1(k, d) = After1(c, d)
    BY <1>1, <2>0
  <2>2. After2(k, d) = After2(c, d)
    BY <1>1, <1>4, <2>0
  <2>3. Flagged2(k, d) <=> Flagged2(c, d)
    BY <1>1, <1>4 DEF Flagged2
  <2> QED  BY <2>1, <2>2, <2>3
<1>6. /\ g \in Chip /\ g.t1 = e.t1 /\ g.t2 = e.t2 /\ g.ran1 = e.ran1 /\ g.ran2 = e.ran2
      /\ g.ifr = e.ifr /\ g.ier = e.ier /\ g.latch1 = e.latch1 /\ g.low2 = v
      /\ g.free = e.free /\ g.pulses = e.pulses
  BY <1>2 DEF Chip
<1> HIDE DEF g
<1>7. f.t1 = g.t1 /\ f.t2 = g.t2
  BY <1>2, <1>3, <1>5, <1>6
<1>8. (f.ran1 <=> g.ran1) /\ (f.ran2 <=> g.ran2)
  BY <1>1, <1>2, <1>3, <1>4, <1>6
<1>9. f.ifr = g.ifr
  BY <1>1, <1>2, <1>3, <1>4, <1>5, <1>6
<1>10. f.latch1 = g.latch1 /\ f.low2 = g.low2 /\ f.ier = g.ier /\ (f.free <=> g.free) /\ (f.pulses <=> g.pulses)
  BY <1>1, <1>2, <1>3, <1>6
<1>11. f = g
  BY <1>3, <1>6, <1>7, <1>8, <1>9, <1>10, SameChip
<1> QED  BY <1>11 DEF f, g

(* A chip after a reset, whatever time is taken to have passed since        *)
LEMMA FreshAfter ==
  ASSUME NEW t \in Nat, NEW e, e = Elapsed(FreshChip, t)
  PROVE  /\ e = [FreshChip EXCEPT !.t1 = e.t1, !.t2 = e.t2]
         /\ e.t1 \in 0..FreshChip.latch1 + 1 /\ e.t2 \in 0..Word - 1
<1> DEFINE c == FreshChip
           g == [c EXCEPT !.t1 = e.t1, !.t2 = e.t2]
<1>1. /\ c \in Chip /\ c.ran1 = TRUE /\ c.ran2 = TRUE /\ c.free = FALSE /\ c.pulses = FALSE
      /\ c.t1 = c.latch1 /\ c.t2 = c.latch1
  BY FreshIs DEF FreshChip
<1>2. /\ c.t1 \in Nat /\ c.t2 \in Nat /\ c.latch1 \in 0..Word - 1 /\ c.latch1 \in Nat
      /\ Word \in Nat \ {0, 1} /\ c.latch1 + 2 \in Nat \ {0} /\ c.ifr \in SUBSET Timers
  BY <1>1, ChipIs
<1> HIDE DEF c
<1>3. /\ e \in Chip
      /\ e.t1 = After1(c, t) /\ e.t2 = After2(c, t)
      /\ (e.ran1 <=> IF t < c.t1 THEN c.ran1 ELSE ~c.free)
      /\ (e.ran2 <=> IF Time2(c, t) < c.t2 THEN c.ran2 ELSE TRUE)
      /\ e.ifr = c.ifr \cup (IF Flagged1(c, t) THEN {"t1"} ELSE {})
                       \cup (IF Flagged2(c, t) THEN {"t2"} ELSE {})
      /\ e.latch1 = c.latch1 /\ e.low2 = c.low2 /\ e.ier = c.ier
      /\ (e.free <=> c.free) /\ (e.pulses <=> c.pulses)
  BY <1>1, ElapsedIs DEF c, LaterBy
<1>4. e.ifr = c.ifr /\ (e.ran1 <=> c.ran1) /\ (e.ran2 <=> c.ran2)
  BY <1>1, <1>3 DEF Flagged1, Flagged2
<1>5. e.t1 \in 0..c.latch1 + 1
  <2>1. CASE t < c.t1
    BY <1>1, <1>2, <1>3, <2>1 DEF After1
  <2>2. CASE ~(t < c.t1)
    <3> DEFINE p == c.latch1 + 2
               x == t - c.t1
               r == x % p
    <3>1. p \in Nat \ {0} /\ x \in Nat /\ r = (t - c.t1) % (c.latch1 + 2) /\ p = c.latch1 + 2
      BY <1>2, <2>2
    <3>2. r \in 0..p - 1
      <4> HIDE DEF p, x
      <4> QED  BY <3>1, ModNext
    <3> HIDE DEF r, p, x
    <3>3. After1(c, t) = IF t < c.t1 THEN c.t1 - t ELSE IF r = 0 THEN 0 ELSE (c.latch1 + 2) - r
      BY <1>1, <3>1, RunsOutIs
    <3>4. e.t1 = IF r = 0 THEN 0 ELSE p - r
      BY <1>3, <2>2, <3>1, <3>3
    <3> QED  BY <1>2, <3>1, <3>2, <3>4
  <2> QED  BY <2>1, <2>2
<1>6. e.t2 \in 0..Word - 1
  <2> DEFINE w == Word
             x == c.t2 - t
  <2>1. w \in Nat \ {0, 1} /\ Time2(c, t) = t /\ x \in Int
    BY <1>1, <1>2 DEF Time2
  <2>2. e.t2 = IF t < c.t2 THEN x ELSE x % w
    BY <1>3, <2>1 DEF After2
  <2>3. CASE t < c.t2
    BY <1>1, <1>2, <2>2, <2>3
  <2>4. CASE ~(t < c.t2)
    <3> HIDE DEF w, x
    <3>1. x % w \in 0..w - 1
      BY <2>1
    <3> QED  BY <2>2, <2>4, <3>1 DEF w
  <2> QED  BY <2>3, <2>4
<1>7. /\ g \in Chip /\ g.t1 = e.t1 /\ g.t2 = e.t2 /\ g.ran1 = c.ran1 /\ g.ran2 = c.ran2
      /\ g.ifr = c.ifr /\ g.ier = c.ier /\ g.latch1 = c.latch1 /\ g.low2 = c.low2
      /\ g.free = c.free /\ g.pulses = c.pulses
  BY <1>1, <1>3 DEF Chip
<1> HIDE DEF g
<1>8. e = g
  BY <1>3, <1>4, <1>7, SameChip
<1> QED  BY <1>5, <1>6, <1>8 DEF c, g

(* An access to chip i after n microseconds that leaves the other chip be   *)
LEMMA Accessed ==
  ASSUME MockQuirks = {}, MInv, NEW n \in 0..MaxInstr, MockRuns(n), NEW i \in Pairs,
         \A j \in Pairs : j # i => Now'[j] = Elapsed(mock.pair[j], Since(mock) + n),
         Chips!Access(Elapsed(mock.pair[i], Since(mock) + n), Now'[i])
  PROVE  Chips!Instruction
<1>1. /\ mock \in Boards /\ AtMostOne(mock.adrift, Skews)
      /\ \A j \in Pairs : ~Forgotten(mock.pair[j], Since(mock) + n)
  BY DEF MInv, BoardOK, Ready, MockRuns
<1>2. /\ Since(mock) \in Nat /\ n \in Nat /\ Since(mock) + n \in Nat
      /\ \A j \in Pairs : mock.pair[j] \in Chip /\ mock.pair[j].t1 \in Nat
  BY <1>1, Bytes, BoardIs, SinceIs, ChipIs
<1>3. \A j \in Pairs : Minded(mock.pair[j], Since(mock) + n)
  BY <1>1, <1>2 DEF Forgotten, Minded
<1>4. \A j \in Pairs : Now[j] = Elapsed(mock.pair[j], Since(mock))
  BY DEF Now
<1>5. \A j \in Pairs : Chips!Ticks(Now[j], n) = Elapsed(mock.pair[j], Since(mock) + n)
  BY <1>2, <1>3, <1>4, TicksAre
<1>6. 1 - i \in Pairs /\ 1 - i # i /\ Chips!Pairs = Pairs
  BY SameNames DEF Pairs
<1>7. Now'[1 - i] = Chips!Ticks(Now[1 - i], n)
  BY <1>5, <1>6
<1>8. Chips!Access(Chips!Ticks(Now[i], n), Now'[i])
  BY <1>5, Zenon
<1> QED  BY <1>6, <1>7, <1>8, Zenon DEF Chips!Instruction

(* Each kind of access is one of the chip's.                                *)
LEMMA AccessIs ==
  ASSUME NEW c \in Chip, c.t2 = 0 => c.ran2, NEW v \in 0..Byte - 1
  PROVE  /\ Chips!Access(c, c)
         /\ \A t \in Timers : Chips!Access(c, Elapsed([c EXCEPT !.ifr = c.ifr \ {t}], 0))
         /\ Chips!Access(c, [c EXCEPT !.latch1 = (c.latch1 \div Byte) * Byte + v])
         /\ Chips!Access(c, [c EXCEPT !.low2 = v])
         /\ \A w : w = v * Byte + (c.latch1 % Byte) =>
              /\ Chips!Access(c, Loaded1(c, w))
              /\ w \in 0..Word - 1
              /\ Chips!Access(c, Elapsed(Latched1(c, w), 0))
         /\ Chips!Access(c, Loaded2(c, v))
         /\ \A f, p \in BOOLEAN : Chips!Access(c, Elapsed(Moded(c, f, p), 0))
         /\ \A s \in SUBSET Timers : Chips!Access(c, [c EXCEPT !.ier = s])
<1>1. Chips!Access(c, c)
  BY DEF Chips!Access
<1>2. ASSUME NEW t \in Timers PROVE Chips!Access(c, Elapsed([c EXCEPT !.ifr = c.ifr \ {t}], 0))
  <2> DEFINE k == [c EXCEPT !.ifr = c.ifr \ {t}]
  <2>1. k \in Chip /\ k.t2 = c.t2 /\ k.ran2 = c.ran2
    BY DEF Chip
  <2>2. Chips!Cleared(c, t) = Chips!Held(k)
    BY Zenon DEF Chips!Cleared
  <2> HIDE DEF k
  <2>3. Chips!Held(k) = Elapsed(k, 0)
    BY <2>1, HeldIs
  <2>4. Chips!Access(c, Chips!Cleared(c, t))
    BY SameNames, Zenon DEF Chips!Access
  <2> QED  BY <2>2, <2>3, <2>4, Zenon DEF k
<1>3. Chips!Access(c, [c EXCEPT !.latch1 = (c.latch1 \div Byte) * Byte + v])
  BY Zenon DEF Chips!Access
<1>4. Chips!Access(c, [c EXCEPT !.low2 = v])
  BY Zenon DEF Chips!Access
<1>5. ASSUME NEW w, w = v * Byte + (c.latch1 % Byte)
      PROVE  /\ Chips!Access(c, [c EXCEPT !.latch1 = w, !.t1 = w + 2, !.ran1 = FALSE, !.ifr = c.ifr \ {"t1"}])
             /\ w \in 0..Word - 1
             /\ Chips!Access(c, Elapsed([c EXCEPT !.latch1 = w, !.ifr = c.ifr \ {"t1"}], 0))
  <2>1. Chips!Access(c, [c EXCEPT !.latch1 = w, !.t1 = w + 2, !.ran1 = FALSE, !.ifr = c.ifr \ {"t1"}])
    BY <1>5, Zenon DEF Chips!Access
  <2>2. w \in 0..Word - 1
    BY <1>5, ChipIs, WordBytes, HighByte
  <2> DEFINE m == [c EXCEPT !.latch1 = w]
             k == [m EXCEPT !.ifr = m.ifr \ {"t1"}]
  <2>3. k = [c EXCEPT !.latch1 = w, !.ifr = c.ifr \ {"t1"}]
    BY DEF Chip
  <2>4. k \in Chip /\ k.t2 = c.t2 /\ k.ran2 = c.ran2
    BY <2>2 DEF Chip
  <2>5. m = [c EXCEPT !.latch1 = v * Byte + (c.latch1 % Byte)]
    BY <1>5, Zenon
  <2>6. Chips!Cleared(m, "t1") = Chips!Held(k)
    BY Zenon DEF Chips!Cleared
  <2> HIDE DEF k, m
  <2>7. Chips!Held(k) = Elapsed(k, 0)
    BY <2>4, HeldIs
  <2>8. Chips!Access(c, Chips!Cleared(m, "t1"))
    BY <2>5, Zenon DEF Chips!Access
  <2> QED  BY <2>1, <2>2, <2>3, <2>6, <2>7, <2>8, Zenon
<1>6. Chips!Access(c, [c EXCEPT !.t2 = v * Byte + c.low2 + 2, !.ran2 = FALSE, !.ifr = c.ifr \ {"t2"}])
  BY Zenon DEF Chips!Access
<1>7. ASSUME NEW f \in BOOLEAN, NEW p \in BOOLEAN
      PROVE  Chips!Access(c, Elapsed([c EXCEPT !.free = f, !.pulses = p], 0))
  <2> DEFINE k == [c EXCEPT !.free = f, !.pulses = p]
  <2>1. k \in Chip /\ k.t2 = c.t2 /\ k.ran2 = c.ran2
    BY DEF Chip
  <2>2. Chips!Access(c, Chips!Held(k))
    BY Zenon DEF Chips!Access
  <2> HIDE DEF k
  <2>3. Chips!Held(k) = Elapsed(k, 0)
    BY <2>1, HeldIs
  <2> QED  BY <2>2, <2>3, Zenon DEF k
<1>8. ASSUME NEW s \in SUBSET Timers PROVE Chips!Access(c, [c EXCEPT !.ier = s])
  BY SameNames, Zenon DEF Chips!Access
<1>9. ASSUME NEW w, w = v * Byte + (c.latch1 % Byte)
      PROVE  /\ Chips!Access(c, Loaded1(c, w)) /\ w \in 0..Word - 1
             /\ Chips!Access(c, Elapsed(Latched1(c, w), 0))
  BY <1>5, <1>9, Zenon DEF Loaded1, Latched1
<1>10. Chips!Access(c, Loaded2(c, v))
  BY <1>6, Zenon DEF Loaded2
<1>11. \A f, p \in BOOLEAN : Chips!Access(c, Elapsed(Moded(c, f, p), 0))
  BY <1>7, Zenon DEF Moded
<1> QED  BY <1>1, <1>2, <1>3, <1>4, <1>8, <1>9, <1>10, <1>11, Zenon

(* What an instruction's access finds                                       *)
LEMMA FoundIs ==
  ASSUME MockQuirks = {}, MInv, NEW n \in 0..MaxInstr, MockRuns(n), NEW b, b = MockPassed(n)
  PROVE  /\ BoardOK(b) /\ Ready(b) /\ b.adrift = mock.adrift
         /\ b.pair = mock.pair /\ Since(b) = Since(mock) + n
         /\ \A j \in Pairs : Elapsed(b.pair[j], Since(b)) \in Chip /\ Steady(Elapsed(b.pair[j], Since(b)))
<1>1. /\ BoardOK(b) /\ Ready(b) /\ b.adrift = mock.adrift
      /\ b.pair = mock.pair /\ Since(b) = Since(mock) + n
  BY PassedOK DEF BoardOK
<1>2. /\ b \in Boards /\ AtMostOne(b.adrift, Skews) /\ \A j \in Pairs : Minded(b.pair[j], Since(b))
  BY <1>1 DEF Ready
<1>3. Since(b) \in Nat /\ \A j \in Pairs : b.pair[j] \in Chip
  BY <1>2, BoardIs, SinceIs
<1>4. \A j \in Pairs : Elapsed(b.pair[j], Since(b)) \in Chip
  BY <1>3, ElapsedIs DEF LaterBy
<1>5. \A j \in Pairs : Steady(Elapsed(b.pair[j], Since(b)))
  BY <1>2, <1>3, ElapsedOK
<1> QED  BY <1>1, <1>4, <1>5

(* An access that brings the board up to date is one of chip i alone.       *)
LEMMA UpToDate ==
  ASSUME MockQuirks = {}, MInv, NEW n \in 0..MaxInstr, MockRuns(n), NEW b, b = MockPassed(n),
         NEW i \in Pairs, BoardOK(mock'), Since(mock') = 0,
         \A j \in Pairs : j # i => mock'.pair[j] = Elapsed(b.pair[j], Since(b)),
         Chips!Access(Elapsed(b.pair[i], Since(b)), mock'.pair[i])
  PROVE  Chips!Instruction
<1>1. b.pair = mock.pair /\ Since(b) = Since(mock) + n
  BY FoundIs
<1>2. \A j \in Pairs : Now'[j] = mock'.pair[j]
  BY NowNext
<1>3. \A j \in Pairs : j # i => Now'[j] = Elapsed(mock.pair[j], Since(mock) + n)
  BY <1>1, <1>2, Zenon
<1>4. Chips!Access(Elapsed(mock.pair[i], Since(mock) + n), Now'[i])
  BY <1>1, <1>2, Zenon
<1> QED  BY <1>3, <1>4, Accessed

(* The accesses that write more than one register of a chip                 *)
LEMMA LoadsOne ==
  ASSUME NEW b, Ready(b), NEW i \in Pairs, NEW v \in 0..Byte - 1, NEW r, r = WriteT1High(b, i, v),
         NEW c \in Chip, c = Elapsed(b.pair[i], Since(b)), Steady(c)
  PROVE  /\ BoardOK(r) /\ Since(r) = 0 /\ Chips!Access(c, r.pair[i])
         /\ \A j \in Pairs : j # i => r.pair[j] = Elapsed(b.pair[j], Since(b))
<1> DEFINE w == v * Byte + (c.latch1 % Byte)
           k == Loaded1(c, w)
<1>1. Chips!Access(c, k)
  <2>1. c.t2 = 0 => c.ran2
    BY DEF Steady
  <2>2. w = v * Byte + (c.latch1 % Byte)
    OBVIOUS
  <2> HIDE DEF w
  <2> QED  BY <2>1, <2>2, AccessIs
<1>2. w = v * Byte + (c.latch1 % Byte)
  OBVIOUS
<1> HIDE DEF w
<1>3. /\ BoardOK(r) /\ Since(r) = 0 /\ c \in Chip
      /\ r.pair[i] = Loaded1(c, w)
      /\ \A j \in Pairs : j # i => r.pair[j] = Elapsed(b.pair[j], Since(b))
  BY <1>2, WriteT1HighIs
<1> QED  BY <1>1, <1>3, Zenon

(* Timer 2                                                                  *)
LEMMA LoadsTwo ==
  ASSUME NEW b, Ready(b), NEW i \in Pairs, NEW v \in 0..Byte - 1, NEW r, r = WriteT2High(b, i, v),
         NEW c \in Chip, c = Elapsed(b.pair[i], Since(b)), Steady(c)
  PROVE  /\ BoardOK(r) /\ Since(r) = 0 /\ Chips!Access(c, r.pair[i])
         /\ \A j \in Pairs : j # i => r.pair[j] = Elapsed(b.pair[j], Since(b))
<1>1. Chips!Access(c, Loaded2(c, v))
  <2>1. c.t2 = 0 => c.ran2
    BY DEF Steady
  <2> QED  BY <2>1, AccessIs
<1>2. /\ BoardOK(r) /\ Since(r) = 0 /\ c \in Chip
      /\ r.pair[i] = Loaded2(c, v)
      /\ \A j \in Pairs : j # i => r.pair[j] = Elapsed(b.pair[j], Since(b))
  BY WriteT2HighIs
<1> QED  BY <1>1, <1>2, Zenon

(* The high byte of timer 1's latch                                         *)
LEMMA LatchesHigh ==
  ASSUME NEW b, Ready(b), NEW i \in Pairs, NEW v \in 0..Byte - 1, NEW r, r = WriteLatchHigh(b, i, v),
         NEW c \in Chip, c = Elapsed(b.pair[i], Since(b)), Steady(c)
  PROVE  /\ BoardOK(r) /\ Since(r) = 0 /\ Chips!Access(c, r.pair[i])
         /\ \A j \in Pairs : j # i => r.pair[j] = Elapsed(b.pair[j], Since(b))
<1> DEFINE w == v * Byte + (c.latch1 % Byte)
<1>1. Chips!Access(c, Elapsed(Latched1(c, w), 0))
  <2>1. c.t2 = 0 => c.ran2
    BY DEF Steady
  <2>2. w = v * Byte + (c.latch1 % Byte)
    OBVIOUS
  <2> HIDE DEF w
  <2> QED  BY <2>1, <2>2, AccessIs
<1>2. w = v * Byte + (c.latch1 % Byte)
  OBVIOUS
<1> HIDE DEF w
<1>3. /\ BoardOK(r) /\ Since(r) = 0 /\ c \in Chip
      /\ r.pair[i] = Elapsed(Latched1(c, w), 0)
      /\ \A j \in Pairs : j # i => r.pair[j] = Elapsed(b.pair[j], Since(b))
  BY <1>2, WriteLatchHighIs
<1> QED  BY <1>1, <1>3, Zenon

(* The mode                                                                 *)
LEMMA ModesSet ==
  ASSUME NEW b, BoardOK(b), b.adrift = {}, NEW i \in Pairs, NEW f \in BOOLEAN, NEW p \in BOOLEAN,
         NEW r, r = WriteAcr(b, i, f, p), NEW c \in Chip, c = Elapsed(b.pair[i], Since(b)), Steady(c),
         ~Forgotten([c EXCEPT !.free = f], 0)
  PROVE  /\ BoardOK(r) /\ Since(r) = 0 /\ Chips!Access(c, r.pair[i])
         /\ \A j \in Pairs : j # i => r.pair[j] = Elapsed(b.pair[j], Since(b))
<1>1. Chips!Access(c, Elapsed(Moded(c, f, p), 0))
  <2>1. c.t2 = 0 => c.ran2
    BY DEF Steady
  <2>2. 0 \in 0..Byte - 1
    BY Bytes
  <2> QED  BY <2>1, <2>2, AccessIs
<1>2. /\ BoardOK(r) /\ Since(r) = 0 /\ c \in Chip
      /\ r.pair[i] = Elapsed(Moded(c, f, p), 0)
      /\ \A j \in Pairs : j # i => r.pair[j] = Elapsed(b.pair[j], Since(b))
  BY WriteAcrIs
<1> QED  BY <1>1, <1>2, Zenon

(* Every step of the program is a step of the chips, or hidden from them.   *)
LEMMA StepIs ==
  ASSUME MockQuirks = {}, MInv, MInv', [MockNext]_mock
  PROVE  [Chips!ViaNext]_Now
<1>0. First => mock.adrift = {}
  BY DEF First
<1>1. ASSUME NEW n \in 0..MaxInstr, MockIdle(n) PROVE Chips!Instruction
  <2>1. MockRuns(n) /\ mock' = MockPassed(n)
    BY <1>1 DEF MockIdle
  <2>2. mock'.pair = mock.pair /\ Since(mock)' = Since(mock) + n
    <3>1. mock'.pair = mock.pair /\ Since(mock') = Since(mock) + n
      BY <2>1, FoundIs
    <3> QED  BY <3>1 DEF Since
  <2>3. \A j \in Pairs : Now'[j] = Elapsed(mock.pair[j], Since(mock) + n)
    BY <2>2 DEF Now
  <2>4. 0 \in Pairs
    BY DEF Pairs
  <2>5. Chips!Access(Elapsed(mock.pair[0], Since(mock) + n), Now'[0])
    BY <2>3, <2>4 DEF Chips!Access
  <2> QED  BY <2>1, <2>3, <2>4, <2>5, Accessed
<1>2. ASSUME NEW n \in 0..MaxInstr, NEW i \in Pairs, Loads(n, i, Timers) PROVE Chips!Instruction
  <2>1. MockRuns(n)
    BY <1>2 DEF Loads
  <2>2. PICK v \in 0..Byte - 1 :
          mock' = WriteT1High(MockPassed(n), i, v) \/ mock' = WriteT2High(MockPassed(n), i, v)
    BY <1>2 DEF Loads
  <2> DEFINE b == MockPassed(n)
             c == Elapsed(b.pair[i], Since(b))
  <2>3. Ready(b) /\ c \in Chip /\ Steady(c)
    BY <2>1, FoundIs
  <2>4. b = MockPassed(n) /\ c = Elapsed(b.pair[i], Since(b))
    OBVIOUS
  <2> HIDE DEF b, c
  <2>5. mock' = WriteT1High(b, i, v) \/ mock' = WriteT2High(b, i, v)
    BY <2>2, <2>4
  <2>6. /\ BoardOK(mock') /\ Since(mock') = 0 /\ Chips!Access(c, mock'.pair[i])
        /\ \A j \in Pairs : j # i => mock'.pair[j] = Elapsed(b.pair[j], Since(b))
    <3>1. CASE mock' = WriteT1High(b, i, v)
      BY <2>2, <2>3, <2>4, <3>1, LoadsOne
    <3>2. CASE mock' = WriteT2High(b, i, v)
      BY <2>2, <2>3, <2>4, <3>2, LoadsTwo
    <3> QED  BY <2>5, <3>1, <3>2
  <2> QED  BY <2>1, <2>4, <2>6, UpToDate
<1>3. ASSUME NEW n \in 0..MaxInstr, NEW i \in Pairs, Latches(n, i, Timers) PROVE Chips!Instruction
  <2>1. MockRuns(n) /\ mock.adrift = {}
    BY <1>0, <1>3 DEF Latches
  <2>2. PICK v \in 0..Byte - 1 :
          \/ mock' = WriteLatchLow(MockPassed(n), i, v)
          \/ mock' = WriteLatchHigh(MockPassed(n), i, v)
          \/ mock' = WriteT2Low(MockPassed(n), i, v)
    BY <1>3 DEF Latches
  <2> DEFINE b == MockPassed(n)
             c == Elapsed(b.pair[i], Since(b))
  <2>3. /\ BoardOK(b) /\ Ready(b) /\ b.adrift = {} /\ c \in Chip /\ Steady(c)
        /\ b.pair = mock.pair /\ Since(b) = Since(mock) + n
    BY <2>1, FoundIs
  <2>4. b = MockPassed(n) /\ c = Elapsed(b.pair[i], Since(b))
    OBVIOUS
  <2> HIDE DEF b, c
  <2>5. /\ Chips!Access(c, [c EXCEPT !.latch1 = (c.latch1 \div Byte) * Byte + v])
        /\ Chips!Access(c, [c EXCEPT !.low2 = v])
    <3>1. c.t2 = 0 => c.ran2
      BY <2>3 DEF Steady
    <3> QED  BY <2>2, <2>3, <2>4, <3>1, AccessIs
  <2>6. CASE mock' = WriteLatchLow(b, i, v)
    <3>1. /\ BoardOK(mock') /\ Since(mock') = 0
          /\ mock'.pair[i] = [c EXCEPT !.latch1 = (c.latch1 \div Byte) * Byte + v]
          /\ \A j \in Pairs : j # i => mock'.pair[j] = Elapsed(b.pair[j], Since(b))
      BY <2>2, <2>3, <2>4, <2>6, WriteLatchLowIs
    <3>2. Chips!Access(Elapsed(b.pair[i], Since(b)), mock'.pair[i])
      BY <2>4, <2>5, <3>1, Zenon
    <3> QED  BY <2>1, <2>4, <3>1, <3>2, UpToDate
  <2>7. CASE mock' = WriteLatchHigh(b, i, v)
    <3>1. /\ BoardOK(mock') /\ Since(mock') = 0 /\ Chips!Access(c, mock'.pair[i])
          /\ \A j \in Pairs : j # i => mock'.pair[j] = Elapsed(b.pair[j], Since(b))
      BY <2>2, <2>3, <2>4, <2>7, LatchesHigh
    <3> QED  BY <2>1, <2>4, <3>1, UpToDate
  <2>8. CASE mock' = WriteT2Low(b, i, v)
    <3> DEFINE k == [b.pair[i] EXCEPT !.low2 = v]
    <3>1. /\ Since(mock') = Since(b) /\ mock'.pair[i] = k
          /\ \A j \in Pairs : j # i => mock'.pair[j] = b.pair[j]
      BY <2>2, <2>3, <2>8, WriteT2LowIs
    <3>2. b \in Boards /\ b.pair[i] \in Chip /\ Since(b) \in Nat
      BY <2>3, BoardIs, SinceIs DEF Ready
    <3>3. Elapsed(k, Since(b)) = [c EXCEPT !.low2 = v]
      <4>1. k = [b.pair[i] EXCEPT !.low2 = v]
        OBVIOUS
      <4> HIDE DEF k
      <4> QED  BY <2>2, <2>4, <3>2, <4>1, LowKept
    <3> HIDE DEF k
    <3>4. Since(mock)' = Since(b)
      BY <3>1 DEF Since
    <3>5. \A j \in Pairs : Now'[j] = Elapsed(mock'.pair[j], Since(b))
      BY <3>4 DEF Now
    <3>6. \A j \in Pairs : j # i => Now'[j] = Elapsed(mock.pair[j], Since(mock) + n)
      BY <2>3, <3>1, <3>5, Zenon
    <3>7. Chips!Access(Elapsed(mock.pair[i], Since(mock) + n), Now'[i])
      BY <2>3, <2>4, <2>5, <3>1, <3>3, <3>5, Zenon
    <3> QED  BY <2>1, <3>6, <3>7, Accessed
  <2> QED  BY <2>2, <2>4, <2>6, <2>7, <2>8
<1>4. ASSUME NEW n \in 0..MaxInstr, NEW i \in Pairs, Reads(n, i, Timers) PROVE Chips!Instruction
  <2>1. MockRuns(n)
    BY <1>4 DEF Reads
  <2> DEFINE b == MockPassed(n)
             c == Elapsed(b.pair[i], Since(b))
  <2>2. Ready(b) /\ c \in Chip /\ Steady(c) /\ 0 \in 0..Byte - 1
    BY <2>1, FoundIs, Bytes
  <2>3. b = MockPassed(n) /\ c = Elapsed(b.pair[i], Since(b))
    OBVIOUS
  <2>4. mock' = Update(b) \/ \E t \in Timers : mock' = ClearFlag(b, i, {t})
    BY <1>4 DEF Reads
  <2> HIDE DEF b, c
  <2>5. Chips!Access(c, c) /\ \A t \in Timers : Chips!Access(c, Elapsed([c EXCEPT !.ifr = c.ifr \ {t}], 0))
    <3>1. c.t2 = 0 => c.ran2
      BY <2>2 DEF Steady
    <3> QED  BY <2>2, <3>1, AccessIs
  <2>6. CASE mock' = Update(b)
    <3>1. /\ BoardOK(mock') /\ Since(mock') = 0
          /\ \A j \in Pairs : mock'.pair[j] = Elapsed(b.pair[j], Since(b))
      BY <2>2, <2>6, UpdateIs
    <3>2. Chips!Access(Elapsed(b.pair[i], Since(b)), mock'.pair[i])
      BY <2>3, <2>5, <3>1, Zenon
    <3> QED  BY <2>1, <2>3, <3>1, <3>2, UpToDate
  <2>7. ASSUME NEW t \in Timers, mock' = ClearFlag(b, i, {t}) PROVE Chips!Instruction
    <3>1. /\ BoardOK(mock') /\ Since(mock') = 0
          /\ mock'.pair[i] = Elapsed([c EXCEPT !.ifr = c.ifr \ {t}], 0)
          /\ \A j \in Pairs : j # i => mock'.pair[j] = Elapsed(b.pair[j], Since(b))
      BY <2>2, <2>3, <2>7, ClearFlagIs
    <3>2. Chips!Access(Elapsed(b.pair[i], Since(b)), mock'.pair[i])
      BY <2>3, <2>5, <2>7, <3>1, Zenon
    <3> QED  BY <2>1, <2>3, <3>1, <3>2, UpToDate
  <2> QED  BY <2>4, <2>6, <2>7
<1>5. ASSUME NEW n \in 0..MaxInstr, NEW i \in Pairs, Enables(n, i, Timers) PROVE Chips!Instruction
  <2>1. MockRuns(n)
    BY <1>5 DEF Enables
  <2>2. PICK s \in SUBSET Timers : mock' = WriteIer(MockPassed(n), i, s)
    BY <1>5 DEF Enables
  <2> DEFINE b == MockPassed(n)
             c == Elapsed(b.pair[i], Since(b))
             k == [c EXCEPT !.ier = s]
  <2>3. Ready(b) /\ c \in Chip /\ Steady(c) /\ 0 \in 0..Byte - 1
    BY <2>1, FoundIs, Bytes
  <2>4. b = MockPassed(n) /\ c = Elapsed(b.pair[i], Since(b)) /\ k = [c EXCEPT !.ier = s]
    OBVIOUS
  <2> HIDE DEF b, c
  <2>5. k \in Chip /\ Steady(k)
    <3>1. /\ k \in Chip /\ k.t1 = c.t1 /\ k.ran1 = c.ran1 /\ k.t2 = c.t2 /\ k.ran2 = c.ran2
          /\ k.ifr = c.ifr /\ k.free = c.free
      BY <2>2, <2>3 DEF Chip
    <3> HIDE DEF k
    <3> QED  BY <2>3, <3>1 DEF Steady
  <2>6. Chips!Access(c, k)
    <3>1. c.t2 = 0 => c.ran2
      BY <2>3 DEF Steady
    <3> QED  BY <2>2, <2>3, <3>1, AccessIs
  <2>7. /\ BoardOK(mock') /\ Since(mock') = 0 /\ mock'.pair[i] = Elapsed(k, 0)
        /\ \A j \in Pairs : j # i => mock'.pair[j] = Elapsed(b.pair[j], Since(b))
    <3>1. mock' = WriteIer(b, i, s)
      BY <2>2, <2>4
    <3> QED  BY <2>2, <2>3, <2>4, <3>1, WriteIerIs
  <2> HIDE DEF k
  <2>8. Elapsed(k, 0) = k
    BY <2>5, StillIs
  <2>9. Chips!Access(Elapsed(b.pair[i], Since(b)), mock'.pair[i])
    BY <2>4, <2>6, <2>7, <2>8, Zenon
  <2> QED  BY <2>1, <2>4, <2>7, <2>9, UpToDate
<1>6. ASSUME NEW n \in 0..MaxInstr, NEW i \in Pairs, Modes(n, i, Timers) PROVE Chips!Instruction
  <2>1. MockRuns(n) /\ mock.adrift = {}
    BY <1>0, <1>6 DEF Modes
  <2>2. PICK f \in BOOLEAN, p \in BOOLEAN :
          /\ mock' = WriteAcr(MockPassed(n), i, f, p)
          /\ ~Forgotten([Elapsed(mock.pair[i], Since(mock) + n) EXCEPT !.free = f], 0)
    BY <1>6 DEF Modes
  <2> DEFINE b == MockPassed(n)
             c == Elapsed(b.pair[i], Since(b))
  <2>3. /\ BoardOK(b) /\ b.adrift = {} /\ c \in Chip /\ Steady(c)
        /\ b.pair = mock.pair /\ Since(b) = Since(mock) + n
    BY <2>1, FoundIs
  <2>4. b = MockPassed(n) /\ c = Elapsed(b.pair[i], Since(b))
    OBVIOUS
  <2> HIDE DEF b, c
  <2>5. mock' = WriteAcr(b, i, f, p) /\ ~Forgotten([c EXCEPT !.free = f], 0)
    BY <2>2, <2>3, <2>4, Zenon
  <2>6. /\ BoardOK(mock') /\ Since(mock') = 0 /\ Chips!Access(c, mock'.pair[i])
        /\ \A j \in Pairs : j # i => mock'.pair[j] = Elapsed(b.pair[j], Since(b))
    BY <2>2, <2>3, <2>4, <2>5, ModesSet
  <2> QED  BY <2>1, <2>4, <2>6, UpToDate
<1>7. ASSUME MockEvent PROVE UNCHANGED Now
  <2>1. mock' = Update([mock EXCEPT !.due = {}])
    BY <1>7 DEF MockEvent
  <2>2. /\ BoardOK(mock') /\ Since(mock') = 0
        /\ \A j \in Pairs : mock'.pair[j] = Elapsed(mock.pair[j], Since(mock))
    <3> DEFINE b == [mock EXCEPT !.due = {}]
    <3>1. Ready(b) /\ b.pair = mock.pair /\ Since(b) = Since(mock)
      BY EventOK
    <3>2. mock' = Update(b)
      BY <2>1
    <3> HIDE DEF b
    <3>3. /\ BoardOK(mock') /\ Since(mock') = 0
          /\ \A j \in Pairs : mock'.pair[j] = Elapsed(b.pair[j], Since(b))
      BY <3>1, <3>2, UpdateIs
    <3> QED  BY <3>1, <3>3
  <2>3. \A j \in Pairs : Now'[j] = mock'.pair[j]
    BY <2>2, NowNext
  <2>4. \A j \in Pairs : Now'[j] = Now[j]
    BY <2>2, <2>3 DEF Now
  <2> QED  BY <2>4 DEF Now
<1>8. ASSUME MockReset PROVE Chips!ViaReset
  <2>1. PICK t \in Skews :
          mock' = [pair |-> [i \in Pairs |-> FreshChip], behind |-> 0, adrift |-> {t},
                   due |-> {}, irq |-> {}]
    BY <1>8 DEF MockReset
  <2>2. t \in Nat
    BY Bytes DEF Skews, Word
  <2>3. Since(mock') = t
    BY <2>1, <2>2, MaxOfOne DEF Since
  <2>4. Since(mock)' = t
    BY <2>3 DEF Since
  <2>5. \A i \in Pairs : Now'[i] = Elapsed(FreshChip, t)
    BY <2>1, <2>4 DEF Now
  <2>6. ASSUME NEW i \in Pairs
        PROVE  /\ Now'[i] = [Chips!Fresh EXCEPT !.t1 = Now'[i].t1, !.t2 = Now'[i].t2]
               /\ Now'[i].t1 \in 0..Chips!Fresh.latch1 + 1 /\ Now'[i].t2 \in 0..Chips!Word - 1
    <3> DEFINE e == Now'[i]
    <3>1. e = Elapsed(FreshChip, t)
      BY <2>5
    <3> HIDE DEF e
    <3>2. /\ e = [FreshChip EXCEPT !.t1 = e.t1, !.t2 = e.t2]
          /\ e.t1 \in 0..FreshChip.latch1 + 1 /\ e.t2 \in 0..Word - 1
      BY <2>2, <3>1, FreshAfter
    <3> QED  BY <3>2, SameNames, Zenon DEF e
  <2> QED  BY <2>6, SameNames, Zenon DEF Chips!ViaReset
<1>9. CASE UNCHANGED mock
  BY <1>9 DEF Now, Since
<1> QED  BY <1>1, <1>2, <1>3, <1>4, <1>5, <1>6, <1>7, <1>8, <1>9, Zenon DEF MockNext, MockSteps, Chips!ViaNext

(* However rarely the program looks, it finds chips that have counted every *)
(* microsecond: the two timers of both, for words of any width.             *)
THEOREM TimersAlwaysExact ==
  ASSUME MockQuirks = {}
  PROVE  MockSpec => TimersExact
<1>1. MockInit => Chips!ViaInit
  <2> SUFFICES ASSUME MockInit PROVE Chips!ViaInit
    OBVIOUS
  <2>1. mock.pair = [i \in Pairs |-> FreshChip] /\ Since(mock) = 0
    BY DEF MockInit, Since
  <2>2. Elapsed(FreshChip, 0) = FreshChip
    BY FreshIs, StillIs
  <2>3. Now = [i \in Pairs |-> FreshChip]
    BY <2>1, <2>2 DEF Now
  <2> QED  BY <2>3, SameNames DEF Chips!ViaInit
<1>2. MInv /\ MInv' /\ [MockNext]_mock => [Chips!ViaNext]_Now
  BY StepIs
<1>3. MockSpec => []MInv
  BY MockInv
<1> QED  BY <1>1, <1>2, <1>3, PTL DEF MockSpec, TimersExact, Chips!ViaSpec
=============================================================================
