------------------------------ MODULE DocProofs ------------------------------
(***************************************************************************)
(* Proofs about Doc for any number of oscillators, waves of any size and    *)
(* any time between two calls: the queue of interrupts is in order, no end  *)
(* that is to interrupt is missed, and nothing doc.c checks for goes wrong. *)
(*                                                                          *)
(* First the form of each operator (the lemmas called ...Is), then what it  *)
(* keeps of Good, which holds within sound_play, and of Settled, which      *)
(* holds between two calls. That the turns of Scan come to an end is proved *)
(* from a bound on how many a sample can take (InTime); that what is played *)
(* does not depend on the events and the queue, from Twins.                 *)
(***************************************************************************)
EXTENDS Doc, FiniteSetTheorems, WellFoundedInduction, TLAPS

-----------------------------------------------------------------------------
(* What the first of a kind of number is                                    *)
LEMMA LeastOf ==
  ASSUME NEW T \in SUBSET Nat, T # {}
  PROVE  \E t \in T : \A y \in T : ~(y < t)
<1>1. PICK t \in T : \A y \in T : ~ (<<y, t>> \in OpToRel(<, Nat))
  BY NatLessThanWellFounded, WFMin, Zenon
<1>2. ASSUME NEW y \in T, y < t PROVE FALSE
  <2> DEFINE ss == <<y, t>>
  <2>1. ss \in Nat \X Nat /\ ss[1] = y /\ ss[2] = t
    OBVIOUS
  <2>2. ss \in OpToRel(<, Nat)
    BY <2>1, <1>2 DEF OpToRel
  <2> QED  BY <2>2, <1>1
<1> QED  BY <1>2

-----------------------------------------------------------------------------
(* Iteration: what a step, applied again and again, gives                   *)

(* f is what n steps give, from start                                       *)
Iterated(f, start, step, n) ==
  f[0] = start /\ \A i \in 1..n : f[i] = step[f[i - 1]]

(* n steps can be made,                                                     *)
LEMMA StepsExist ==
  ASSUME NEW S, NEW start \in S, NEW step \in [S -> S], NEW n \in Nat
  PROVE  \E f \in [0..n -> S] : Iterated(f, start, step, n)
<1> DEFINE P(m) == \E f \in [0..m -> S] : Iterated(f, start, step, m)
           T == {m \in Nat : ~P(m)}
<1>1. SUFFICES ASSUME T # {} PROVE FALSE
  OBVIOUS
<1>2. PICK t \in T : \A y \in T : ~(y < t)
  BY <1>1, LeastOf
<1>3. P(0)
  <2>1. [i \in 0..0 |-> start] \in [0..0 -> S] /\ [i \in 0..0 |-> start][0] = start
    OBVIOUS
  <2>2. \A i \in 1..0 : FALSE
    OBVIOUS
  <2> QED  BY <2>1, <2>2 DEF Iterated
<1>4. t # 0 /\ t \in Nat /\ t - 1 \in Nat
  <2>1. t \in Nat /\ ~P(t)
    OBVIOUS
  <2> HIDE DEF P
  <2>2. t # 0
    BY <1>3, <2>1
  <2> QED  BY <2>1, <2>2
<1>5. PICK f \in [0..t - 1 -> S] : Iterated(f, start, step, t - 1)
  <2>1. P(t - 1)
    BY <1>2, <1>4
  <2> QED  BY <2>1
<1> DEFINE g == [i \in 0..t |-> IF i = t THEN step[f[t - 1]] ELSE f[i]]
<1>6. f[t - 1] \in S
  BY <1>4, <1>5
<1>7. g \in [0..t -> S]
  BY <1>4, <1>5, <1>6
<1>8. Iterated(g, start, step, t)
  <2>1. g[0] = start
    BY <1>4, <1>5 DEF Iterated
  <2>2. ASSUME NEW i \in 1..t PROVE g[i] = step[g[i - 1]]
    <3>1. i - 1 \in 0..t - 1 /\ i \in 0..t /\ g[i - 1] = f[i - 1]
      BY <1>4
    <3>2. CASE i = t
      BY <3>1, <3>2
    <3>3. CASE i # t
      <4>1. i \in 1..t - 1 /\ g[i] = f[i]
        BY <3>3, <1>4
      <4> QED  BY <4>1, <3>1, <1>5 DEF Iterated
    <3> QED  BY <3>2, <3>3
  <2> QED  BY <2>1, <2>2 DEF Iterated
<1>9. P(t)
  BY <1>7, <1>8
<1> QED  BY <1>2, <1>9

(* and what they give is the same whenever they are made.                   *)
LEMMA StepsUnique ==
  ASSUME NEW start, NEW step, NEW n \in Nat, NEW m \in Nat, NEW f, NEW g,
         Iterated(f, start, step, n), Iterated(g, start, step, m),
         NEW k \in Nat, k <= n, k <= m
  PROVE  f[k] = g[k]
<1> DEFINE T == {i \in Nat : i <= n /\ i <= m /\ f[i] # g[i]}
<1>1. SUFFICES ASSUME T # {} PROVE FALSE
  OBVIOUS
<1>2. PICK t \in T : \A y \in T : ~(y < t)
  BY <1>1, LeastOf
<1>3. t # 0
  BY DEF Iterated
<1>4. t - 1 \in Nat /\ t \in 1..n /\ t \in 1..m
  BY <1>3
<1>5. f[t - 1] = g[t - 1]
  BY <1>2, <1>4
<1>6. f[t] = g[t]
  BY <1>4, <1>5 DEF Iterated
<1> QED  BY <1>6

(* So there is a function of the number of steps, and it stays in S.        *)
LEMMA IterationExists ==
  ASSUME NEW S, NEW start \in S, NEW step \in [S -> S]
  PROVE  \E h \in [Nat -> S] : \A n \in Nat : h[n] = IF n = 0 THEN start ELSE step[h[n - 1]]
<1> DEFINE F(n) == CHOOSE f \in [0..n -> S] : Iterated(f, start, step, n)
           h == [n \in Nat |-> F(n)[n]]
<1>1. ASSUME NEW n \in Nat PROVE F(n) \in [0..n -> S] /\ Iterated(F(n), start, step, n)
  <2>1. \E f \in [0..n -> S] : Iterated(f, start, step, n)
    BY StepsExist, Zenon
  <2> QED  BY <2>1
<1> HIDE DEF F
<1>2. ASSUME NEW n \in Nat, n # 0 PROVE F(n)[n] = step[F(n - 1)[n - 1]]
  <2>1. n - 1 \in Nat /\ n \in 1..n /\ n - 1 <= n
    BY <1>2
  <2>2. F(n)[n] = step[F(n)[n - 1]]
    BY <2>1, <1>1 DEF Iterated
  <2>3. F(n)[n - 1] = F(n - 1)[n - 1]
    <3>1. Iterated(F(n), start, step, n) /\ Iterated(F(n - 1), start, step, n - 1) /\ n - 1 <= n - 1
      BY <1>1, <2>1
    <3> DEFINE a == F(n)
               b == F(n - 1)
               m == n - 1
    <3>2. Iterated(a, start, step, n) /\ Iterated(b, start, step, m) /\ m <= m /\ m <= n
          /\ m \in Nat
      BY <3>1, <2>1
    <3> HIDE DEF a, b, m
    <3>3. a[m] = b[m]
      BY <3>2, StepsUnique
    <3> QED  BY <3>3 DEF a, b, m
  <2> QED  BY <2>2, <2>3
<1>3. F(0)[0] = start
  BY <1>1 DEF Iterated
<1>4. h \in [Nat -> S]
  BY <1>1
<1>5. ASSUME NEW n \in Nat PROVE h[n] = IF n = 0 THEN start ELSE step[h[n - 1]]
  BY <1>2, <1>3, <1>5
<1> QED  BY <1>4, <1>5

(* The turns of Scan                                                        *)
Turns(start, now) ==
  CHOOSE s : s = [n \in Nat |-> IF n = 0 THEN start ELSE Turn(s[n - 1], now)]
FirstTurn(d) == [doc |-> d, o |-> 0, idle |-> TRUE]

(* The turns are a function that stays in a set that a turn does not leave, *)
LEMMA TurnsAre ==
  ASSUME NEW S, NEW start \in S, NEW now, \A s \in S : Turn(s, now) \in S
  PROVE  /\ Turns(start, now) \in [Nat -> S]
         /\ Turns(start, now)[0] = start
         /\ \A n \in Nat \ {0} : Turns(start, now)[n] = Turn(Turns(start, now)[n - 1], now)
<1> DEFINE step == [s \in S |-> Turn(s, now)]
           eq(f) == f = [n \in Nat |-> IF n = 0 THEN start ELSE Turn(f[n - 1], now)]
           c == CHOOSE f : eq(f)
<1>1. step \in [S -> S]
  OBVIOUS
<1>2. PICK h \in [Nat -> S] : \A n \in Nat : h[n] = IF n = 0 THEN start ELSE step[h[n - 1]]
  <2> HIDE DEF step
  <2> QED  BY <1>1, IterationExists
<1>3. \A n \in Nat : h[n] = IF n = 0 THEN start ELSE Turn(h[n - 1], now)
  <2>1. \A n \in Nat : n # 0 => h[n - 1] \in S
    OBVIOUS
  <2> QED  BY <1>2, <2>1
<1>4. eq(h)
  BY <1>3
<1>5. eq(c)
  <2> HIDE DEF eq
  <2> QED  BY <1>4
<1> DEFINE C == Turns(start, now)
<1>6. C = c
  BY DEF Turns
<1> HIDE DEF C, c, step
<1>7. C = [n \in Nat |-> IF n = 0 THEN start ELSE Turn(C[n - 1], now)]
  BY <1>5, <1>6
<1>8. \A n \in Nat : C[n] = IF n = 0 THEN start ELSE Turn(C[n - 1], now)
  BY <1>7, Zenon
<1>9. DOMAIN C = Nat /\ C = [n \in Nat |-> C[n]]
  BY <1>7
<1> HIDE DEF eq
<1>10. \A n \in Nat : C[n] = h[n]
  <2> DEFINE T == {n \in Nat : C[n] # h[n]}
  <2>1. SUFFICES ASSUME T # {} PROVE FALSE
    OBVIOUS
  <2>2. PICK t \in T : \A y \in T : ~(y < t)
    BY <2>1, LeastOf
  <2>3. t # 0
    BY <1>8, <1>3
  <2>4. t - 1 \in Nat /\ C[t - 1] = h[t - 1]
    BY <2>2, <2>3
  <2> QED  BY <2>3, <2>4, <1>8, <1>3
<1>11. C \in [Nat -> S]
  BY <1>9, <1>10
<1> QED  BY <1>8, <1>11 DEF C

(* and Scan is where they have led after Enough of them.                    *)
LEMMA ScanIs ==
  ASSUME NEW d
  PROVE  Scan(d) = Turns(FirstTurn(d), d.behind)[Enough(d)].doc
  BY DEF Scan, Turns, FirstTurn

(* The states of the chip, typed; one with another oscillator o             *)
Docs ==
  [ osc : [Oscs -> Osc], num : 1..NumOscs, e0 : 0..NumOscs, count : 0..NumOscs, irq : BOOLEAN,
    behind : 0..MaxBehind, halted : BOOLEAN ]
Put(d, o, c) == [d EXCEPT !.osc = [@ EXCEPT ![o] = c]]

(* e is d with c for its oscillator o.                                      *)
PutOf(e, d, o, c) ==
  /\ e \in Docs
  /\ e.osc[o] = c
  /\ \A i \in Oscs : i # o => e.osc[i] = d.osc[i]
  /\ e.num = d.num /\ e.e0 = d.e0 /\ e.count = d.count
  /\ e.irq = d.irq /\ e.behind = d.behind /\ e.halted = d.halted

(* A state with another oscillator is typed, and differs in nothing else.   *)
LEMMA PutIs ==
  ASSUME NEW d \in Docs, NEW o \in Oscs, NEW c \in Osc
  PROVE  PutOf(Put(d, o, c), d, o, c)
<1>1. [d.osc EXCEPT ![o] = c] \in [Oscs -> Osc]
  BY DEF Docs
<1> QED BY <1>1 DEF Put, Docs, PutOf

(* An oscillator's partner is another one, whose partner it is.             *)
LEMMA PartnerIs ==
  ASSUME NEW o \in Oscs
  PROVE  /\ Partner(o) \in Oscs /\ Partner(o) # o /\ Partner(Partner(o)) = o
         /\ o % 2 = 0 => Partner(o) % 2 # 0
         /\ o % 2 # 0 => Partner(o) % 2 = 0
<1>1. o \in Nat /\ o < NumOscs /\ NumOscs \in Nat /\ NumOscs % 2 = 0
  BY DocAssumption DEF Oscs
<1> QED  BY <1>1 DEF Partner, Oscs

(* Where the wave of c is next looked at                                    *)
Waits(c) == IF MeetsZero(c) THEN c.wave.zero ELSE c.wave.size

(* e is c with its end estimated, and put on the list of events if w.       *)
EstimateOf(e, c, w, eff, now) ==
  /\ e \in Osc
  /\ e.halt = c.halt /\ e.mode = c.mode /\ e.ie = c.ie /\ e.running = c.running
  /\ e.wave = c.wave /\ e.silent = c.silent /\ e.pos = c.pos /\ e.at = c.at /\ e.rank = c.rank
  /\ e.left = (IF w THEN Waits(c) ELSE c.wave.size) - c.pos + 1
  /\ e.event = IF w THEN {eff + e.left - now} ELSE {}
  /\ e.left >= 1

(* What the estimate does to an oscillator                                  *)
LEMMA EstimatedIs ==
  ASSUME NEW c \in Osc, NEW eff \in Int, NEW now \in Int, NEW w \in BOOLEAN, c.pos < c.wave.size
  PROVE  EstimateOf(Estimated(c, w, eff, now), c, w, eff, now)
<1> DEFINE left == (IF w /\ MeetsZero(c) THEN c.wave.zero ELSE c.wave.size) - c.pos + 1
           ev == IF w THEN {eff + left - now} ELSE {}
<1>1. c.wave.size \in 1..MaxSize /\ c.wave.zero \in 0..MaxSize /\ c.pos \in 0..MaxSize - 1
      /\ MaxSize \in Nat
  BY DocAssumption DEF Osc, Waves
<1>2. left \in 0..MaxSize + 1 /\ left >= 1
  BY <1>1 DEF MeetsZero
<1>3. ev \in SUBSET Int
  BY <1>2
<1>4. left = (IF w THEN Waits(c) ELSE c.wave.size) - c.pos + 1
  BY DEF Waits
<1> HIDE DEF left, ev
<1> DEFINE e == [c EXCEPT !.left = left, !.event = ev]
<1>5. e \in Osc /\ e.left = left /\ e.event = ev
      /\ e.halt = c.halt /\ e.mode = c.mode /\ e.ie = c.ie /\ e.running = c.running
      /\ e.wave = c.wave /\ e.silent = c.silent /\ e.pos = c.pos /\ e.at = c.at /\ e.rank = c.rank
  BY <1>2, <1>3 DEF Osc
<1>6. e = Estimated(c, w, eff, now)
  BY DEF e, left, ev, Estimated
<1> HIDE DEF e
<1>7. ev = IF w THEN {eff + left - now} ELSE {}
  BY DEF ev
<1> QED  BY <1>2, <1>4, <1>5, <1>6, <1>7 DEF EstimateOf

(* What becomes of one that starts, and of one that stops                   *)
Started(c, w, eff, now) ==
  Estimated([c EXCEPT !.halt = FALSE, !.running = TRUE, !.at = eff], w, eff, now)
StartOf(e, c, w, eff, now) ==
  /\ e \in Osc
  /\ e.halt = FALSE /\ e.running = TRUE /\ e.at = eff
  /\ e.mode = c.mode /\ e.ie = c.ie
  /\ e.wave = c.wave /\ e.silent = c.silent /\ e.pos = c.pos /\ e.rank = c.rank
  /\ e.left = (IF w THEN Waits(c) ELSE c.wave.size) - c.pos + 1
  /\ e.event = IF w THEN {eff + e.left - now} ELSE {}
  /\ e.left >= 1
StopOf(e, c) ==
  /\ e \in Osc
  /\ e.halt = TRUE /\ e.running = FALSE /\ e.at = c.at
  /\ e.mode = c.mode /\ e.ie = c.ie
  /\ e.wave = c.wave /\ e.silent = c.silent /\ e.pos = c.pos /\ e.rank = c.rank
  /\ e.left = c.left /\ e.event = c.event
StoppedOsc(c) == [c EXCEPT !.halt = TRUE, !.running = FALSE]

(* An oscillator that is started is typed and starts its wave at eff,       *)
LEMMA StartedIs ==
  ASSUME NEW c \in Osc, NEW eff \in Int, NEW now \in Int, NEW w \in BOOLEAN, c.pos < c.wave.size
  PROVE  StartOf(Started(c, w, eff, now), c, w, eff, now)
<1> DEFINE b == [c EXCEPT !.halt = FALSE, !.running = TRUE, !.at = eff]
<1>1. b \in Osc /\ b.halt = FALSE /\ b.running = TRUE /\ b.at = eff
         /\ b.mode = c.mode /\ b.ie = c.ie
         /\ b.wave = c.wave /\ b.silent = c.silent /\ b.pos = c.pos /\ b.rank = c.rank
  BY DEF Osc
<1>2. Waits(b) = Waits(c)
  BY <1>1 DEF Waits, MeetsZero
<1>3. Started(c, w, eff, now) = Estimated(b, w, eff, now)
  BY DEF Started
<1> DEFINE e == Estimated(b, w, eff, now)
<1> HIDE DEF b
<1>4. EstimateOf(e, b, w, eff, now)
  <2>1. b.pos < b.wave.size
    BY <1>1
  <2> QED  BY <1>1, <2>1, EstimatedIs
<1> HIDE DEF e
<1>5. e = Started(c, w, eff, now)
  BY <1>3 DEF e
<1> QED  BY <1>1, <1>2, <1>4, <1>5 DEF EstimateOf, StartOf

(* and one that is stopped keeps what it has.                               *)
LEMMA StoppedIs ==
  ASSUME NEW c \in Osc
  PROVE  StopOf(StoppedOsc(c), c)
  BY DEF Osc, StoppedOsc, StopOf

(* Starting one that is stopped                                             *)
LEMMA StartOneIs ==
  ASSUME NEW d \in Docs, NEW o \in Oscs, NEW eff \in Int, NEW now \in Int,
         d.osc[o].running = FALSE, d.osc[o].halt = FALSE
  PROVE  StartOne(d, o, eff, now) =
           Put(d, o, IF o >= d.num THEN StoppedOsc(d.osc[o])
                     ELSE Started(d.osc[o], d.osc[o].ie \/ d.osc[Partner(o)].ie, eff, now))
<1> DEFINE c == d.osc[o]
           p == Partner(o)
           b == [c EXCEPT !.halt = FALSE, !.running = TRUE, !.at = eff]
<1>0. c \in Osc /\ p \in Oscs /\ p # o
  BY PartnerIs DEF Docs
<1>1. CASE o >= d.num
  <2>1. StartOne(d, o, eff, now) = Put(d, o, [c EXCEPT !.halt = TRUE])
    BY <1>1 DEF StartOne, Put, Docs
  <2>2. [c EXCEPT !.halt = TRUE] = StoppedOsc(c)
    BY <1>0 DEF StoppedOsc, Osc
  <2> QED  BY <2>1, <2>2, <1>1
<1>2. CASE ~(o >= d.num)
  <2>1. HaltIf(d, d.osc[o].running) = d
    BY DEF HaltIf
  <2> DEFINE g == [d EXCEPT !.osc[o].running = TRUE, !.osc[o].at = eff]
  <2>2. StartOne(d, o, eff, now) = WaveEndEstimate(g, o, eff, now)
    BY <1>2, <2>1 DEF StartOne
  <2>3. g = Put(d, o, [c EXCEPT !.running = TRUE, !.at = eff])
    BY DEF Put, Docs
  <2>4. [c EXCEPT !.running = TRUE, !.at = eff] = b
    BY <1>0 DEF Osc
  <2>5. b \in Osc
    BY <1>0 DEF Osc
  <2>6. b.ie = c.ie
    BY <1>0 DEF Osc
  <2> HIDE DEF b, g
  <2>7. g \in Docs /\ g.osc[o] = b /\ g.osc[p] = d.osc[p]
    BY <2>3, <2>4, <2>5, <1>0, PutIs DEF PutOf
  <2> DEFINE e == Estimated(b, c.ie \/ d.osc[p].ie, eff, now)
  <2>8. WaveEndEstimate(g, o, eff, now) = Put(g, o, e)
    BY <2>6, <2>7 DEF WaveEndEstimate, Put, Docs
  <2> HIDE DEF e
  <2>9. Put(Put(d, o, b), o, e) = Put(d, o, e)
    BY DEF Put, Docs
  <2>10. e = Started(c, c.ie \/ d.osc[p].ie, eff, now)
    BY DEF e, b, Started
  <2> QED  BY <1>2, <2>2, <2>3, <2>4, <2>8, <2>9, <2>10
<1> QED  BY <1>1, <1>2

(* e is d with o at the end of the queue.                                   *)
JoinOf(e, d, o) ==
  /\ e \in Docs
  /\ e.osc[o] = [d.osc[o] EXCEPT !.rank = d.count + 1]
  /\ \A i \in Oscs : i # o => e.osc[i] = d.osc[i]
  /\ e.num = d.num /\ e.behind = d.behind /\ e.halted = d.halted
  /\ e.count = d.count + 1 /\ e.irq = TRUE
  /\ e.e0 = IF d.count = 0 THEN o ELSE d.e0

(* f is c with another rank,                                                *)
RankedOf(f, c, r) ==
  /\ f \in Osc
  /\ f.halt = c.halt /\ f.mode = c.mode /\ f.ie = c.ie /\ f.running = c.running
  /\ f.wave = c.wave /\ f.silent = c.silent /\ f.pos = c.pos /\ f.at = c.at
  /\ f.left = c.left /\ f.event = c.event
  /\ f.rank = r

(* as is one whose rank is set.                                             *)
LEMMA RankedIs ==
  ASSUME NEW c \in Osc, NEW r \in 0..NumOscs
  PROVE  RankedOf([c EXCEPT !.rank = r], c, r)
  BY DEF Osc, RankedOf

(* Joining the queue                                                        *)
LEMMA AddIs ==
  ASSUME NEW d \in Docs, NEW o \in Oscs, d.count < NumOscs
  PROVE  JoinOf(AddSoundIrq(d, o), d, o)
<1>1. d.count + 1 \in 0..NumOscs /\ o \in 0..NumOscs
  BY DocAssumption DEF Docs, Oscs
<1> DEFINE f == [d.osc[o] EXCEPT !.rank = d.count + 1]
<1>2. f \in Osc
  BY <1>1 DEF Osc, Docs
<1> DEFINE osc == [d.osc EXCEPT ![o] = f]
<1>3. osc \in [Oscs -> Osc] /\ osc[o] = f /\ \A i \in Oscs : i # o => osc[i] = d.osc[i]
  BY <1>2 DEF Docs
<1> DEFINE e == [d EXCEPT !.count = d.count + 1, !.osc = osc, !.irq = TRUE,
                          !.e0 = IF d.count = 0 THEN o ELSE d.e0]
<1>4. AddSoundIrq(d, o) = e
  BY DEF AddSoundIrq, Docs
<1> HIDE DEF osc
<1>5. /\ e \in Docs
      /\ e.osc = osc
      /\ e.num = d.num /\ e.behind = d.behind /\ e.halted = d.halted
      /\ e.count = d.count + 1 /\ e.irq = TRUE
      /\ e.e0 = IF d.count = 0 THEN o ELSE d.e0
  BY <1>1, <1>3 DEF Docs
<1> HIDE DEF e, f
<1>6. JoinOf(e, d, o)
  BY <1>3, <1>5 DEF f, JoinOf
<1> QED  BY <1>4, <1>6

(* Joining the queue on an end, if the oscillator is to interrupt           *)
Joined(d, o) == IF d.osc[o].ie /\ d.osc[o].rank = 0 THEN AddSoundIrq(d, o) ELSE d

(* q is d, with o in the queue if it was to interrupt.                      *)
JoinedOf(q, d, o) ==
  /\ q \in Docs
  /\ \A i \in Oscs : i # o => q.osc[i] = d.osc[i]
  /\ RankedOf(q.osc[o], d.osc[o],
              IF d.osc[o].ie /\ d.osc[o].rank = 0 THEN d.count + 1 ELSE d.osc[o].rank)
  /\ q.num = d.num /\ q.behind = d.behind /\ q.halted = d.halted
  /\ q.count = IF d.osc[o].ie /\ d.osc[o].rank = 0 THEN d.count + 1 ELSE d.count
  /\ q.irq = IF d.osc[o].ie /\ d.osc[o].rank = 0 THEN TRUE ELSE d.irq
  /\ q.e0 = IF d.osc[o].ie /\ d.osc[o].rank = 0 /\ d.count = 0 THEN o ELSE d.e0

(* One that may interrupt joins once, and the others stay as they are.      *)
LEMMA JoinedIs ==
  ASSUME NEW d \in Docs, NEW o \in Oscs, d.osc[o].rank = 0 => d.count < NumOscs
  PROVE  JoinedOf(Joined(d, o), d, o)
<1> DEFINE c == d.osc[o]
<1>0. c \in Osc
  BY DEF Docs
<1>1. CASE d.osc[o].ie /\ d.osc[o].rank = 0
  <2>1. JoinOf(Joined(d, o), d, o)
    BY <1>1, AddIs DEF Joined
  <2>2. d.count + 1 \in 0..NumOscs
    BY <1>1, DocAssumption DEF Docs
  <2>3. RankedOf([c EXCEPT !.rank = d.count + 1], c, d.count + 1)
    BY <1>0, <2>2, RankedIs
  <2> QED  BY <1>1, <2>1, <2>3 DEF JoinedOf, JoinOf
<1>2. CASE ~(d.osc[o].ie /\ d.osc[o].rank = 0)
  <2>1. Joined(d, o) = d
    BY <1>2 DEF Joined
  <2>2. RankedOf(c, c, c.rank)
    BY <1>0 DEF RankedOf
  <2> QED  BY <1>2, <2>1, <2>2 DEF JoinedOf
<1> QED  BY <1>1, <1>2

(* Each is stopped or plays, and is within its wave.                        *)
Tidy(d) == \A i \in Oscs : /\ d.osc[i].running = ~d.osc[i].halt
                           /\ d.osc[i].pos < d.osc[i].wave.size

(* Does the partner go on, or the oscillator itself?                        *)
TakesOver(d, o, canRepeat) ==
  LET c == d.osc[o]
      p == d.osc[Partner(o)]
  IN  /\ ~(c.mode = "free" /\ canRepeat) /\ ~(c.mode = "shot" /\ ~canRepeat)
      /\ "swap" \in {c.mode, p.mode}
      /\ p.halt /\ Partner(o) < d.num
Repeats(d, o, canRepeat) == d.osc[o].mode = "free" /\ canRepeat
Begun(d, o, c, eff, now) == Started(c, d.osc[o].ie \/ d.osc[Partner(o)].ie, eff, now)

(* What Ends does, by the three ways in which the wave can go on            *)
EndForm(d, o, canRepeat, eff, now) ==
  LET q == Joined(d, o)
      p == Partner(o)
  IN  IF Repeats(d, o, canRepeat) THEN Put(q, o, Begun(d, o, q.osc[o], eff, now))
      ELSE IF TakesOver(d, o, canRepeat)
           THEN Put(Put(q, o, StoppedOsc(q.osc[o])), p, Begun(d, p, d.osc[p], eff, now))
           ELSE Put(q, o, StoppedOsc(q.osc[o]))

(* Ends has that form: at an end at most one oscillator is started.         *)
LEMMA EndsIs ==
  ASSUME NEW d \in Docs, NEW o \in Oscs, NEW canRepeat \in BOOLEAN, NEW eff \in Int,
         NEW now \in Int,
         Tidy(d), d.osc[o].running, o < d.num, d.osc[o].rank = 0 => d.count < NumOscs
  PROVE  Ends(d, o, canRepeat, eff, now) = EndForm(d, o, canRepeat, eff, now)
<1> DEFINE c == d.osc[o]
           p == Partner(o)
           pc == d.osc[p]
           q == Joined(d, o)
           cq == q.osc[o]
           d2 == [HaltIf(q, ~c.running) EXCEPT !.osc[o].running = FALSE]
           d3 == [d2 EXCEPT !.osc[o].halt = TRUE]
           cr == [cq EXCEPT !.running = FALSE]
<1>0. p \in Oscs /\ p # o /\ Partner(p) = o /\ (o % 2 = 0 => p % 2 # 0)
  BY PartnerIs
<1>1. JoinedOf(q, d, o)
  BY JoinedIs
<1>2. /\ q \in Docs /\ cq \in Osc /\ cq.halt = c.halt /\ cq.mode = c.mode /\ cq.ie = c.ie
      /\ cq.running = c.running /\ cq.pos = c.pos /\ cq.wave = c.wave
      /\ q.osc[p] = pc /\ q.num = d.num /\ pc \in Osc /\ c \in Osc
      /\ c.running = TRUE /\ c.halt = FALSE
      /\ pc.running = ~pc.halt
  BY <1>0, <1>1 DEF JoinedOf, RankedOf, Tidy, Docs, Osc
<1> HIDE DEF q
<1>3. d2 = Put(q, o, cr)
  <2>1. HaltIf(q, ~c.running) = q
    BY <1>2 DEF HaltIf
  <2> QED  BY <2>1, <1>2 DEF Put, Docs
<1>4. d3 = Put(q, o, StoppedOsc(cq))
  <2>0. cr \in Osc
    BY <1>2 DEF Osc
  <2>1. d3 = Put(q, o, [cr EXCEPT !.halt = TRUE])
    <3> HIDE DEF cr, d2
    <3> QED  BY <2>0, <1>2, <1>3 DEF Put, Docs
  <2>2. [cr EXCEPT !.halt = TRUE] = StoppedOsc(cq)
    BY <1>2 DEF StoppedOsc, Osc
  <2> QED  BY <2>1, <2>2
<1>5. cr \in Osc /\ cr.running = FALSE /\ cr.halt = FALSE /\ cr.mode = c.mode /\ cr.ie = c.ie
  BY <1>2 DEF Osc
<1>6. StopOf(StoppedOsc(cq), cq)
  BY <1>2, StoppedIs
<1> HIDE DEF d2, d3, cr
<1>7. /\ d2 \in Docs /\ d2.osc[o] = cr /\ d2.osc[p] = pc /\ d2.num = d.num
      /\ d3 \in Docs /\ d3.osc[o] = StoppedOsc(cq) /\ d3.osc[p] = pc /\ d3.num = d.num
  <2>1. StoppedOsc(cq) \in Osc
    BY <1>6 DEF StopOf
  <2>2. d2 \in Docs /\ d2.osc[o] = cr /\ d2.osc[p] = pc /\ d2.num = d.num
    <3>1. PutOf(d2, q, o, cr)
      BY <1>2, <1>3, <1>5, PutIs
    <3> QED  BY <1>0, <1>2, <3>1 DEF PutOf
  <2>3. d3 \in Docs /\ d3.osc[o] = StoppedOsc(cq) /\ d3.osc[p] = pc /\ d3.num = d.num
    <3> DEFINE st == StoppedOsc(cq)
    <3>1. st \in Osc /\ d3 = Put(q, o, st)
      BY <2>1, <1>4
    <3> HIDE DEF st
    <3>2. d3 \in Docs /\ d3.osc[o] = st /\ d3.osc[p] = pc /\ d3.num = d.num
      <4>1. PutOf(d3, q, o, st)
        BY <1>2, <3>1, PutIs
      <4> QED  BY <1>0, <1>2, <4>1 DEF PutOf
    <3> QED  BY <3>2 DEF st
  <2> QED  BY <2>2, <2>3
<1> DEFINE g == [d3 EXCEPT !.osc[p].halt = FALSE]
           swap == "swap" \in {c.mode, pc.mode}
           takes == ~(c.mode = "shot" /\ ~canRepeat) /\ ~d3.osc[p].running /\ d3.osc[p].halt
<1>8. Ends(d, o, canRepeat, eff, now) =
        IF c.mode = "free" /\ canRepeat THEN StartSound(d2, o, eff, now)
        ELSE IF swap /\ takes THEN StartSound(g, p, eff, now) ELSE d3
  <2>1. q = IF c.ie /\ c.rank = 0 THEN AddSoundIrq(d, o) ELSE d
    BY DEF q, Joined
  <2> QED  BY <2>1 DEF Ends, d2, d3
<1>9. CASE c.mode = "free" /\ canRepeat
  <2>1. StartSound(d2, o, eff, now) = StartOne(d2, o, eff, now)
    BY <1>5, <1>7, <1>9 DEF StartSound
  <2>2. StartOne(d2, o, eff, now) = Put(d2, o, Started(cr, cr.ie \/ pc.ie, eff, now))
    <3>1. ~(o >= d.num)
      BY DEF Oscs, Docs
    <3> QED  BY <1>5, <1>7, <3>1, StartOneIs, ZenonT(40)
  <2>3. Started(cr, cr.ie \/ pc.ie, eff, now) = Begun(d, o, cq, eff, now)
    <3>1. [cr EXCEPT !.halt = FALSE, !.running = TRUE, !.at = eff]
            = [cq EXCEPT !.halt = FALSE, !.running = TRUE, !.at = eff]
      BY <1>2 DEF cr, Osc
    <3> QED  BY <3>1, <1>5 DEF Begun, Started
  <2>4. Put(d2, o, Begun(d, o, cq, eff, now)) = Put(q, o, Begun(d, o, cq, eff, now))
    BY <1>2, <1>3 DEF Put, Docs
  <2> QED  BY <1>8, <1>9, <2>1, <2>2, <2>3, <2>4 DEF EndForm, Repeats, q
<1>10. CASE ~(c.mode = "free" /\ canRepeat) /\ ~(swap /\ takes)
  <2>1. ~TakesOver(d, o, canRepeat)
    BY <1>2, <1>7, <1>10 DEF TakesOver
  <2> QED  BY <1>4, <1>8, <1>10, <2>1 DEF EndForm, Repeats, q
<1>11. CASE ~(c.mode = "free" /\ canRepeat) /\ swap /\ takes
  <2>1. pc.halt = TRUE /\ pc.running = FALSE
    BY <1>2, <1>7, <1>11
  <2> DEFINE pr == [pc EXCEPT !.halt = FALSE]
  <2>2. g = Put(d3, p, pr)
    BY <1>0, <1>7 DEF Put, Docs
  <2>3. pr \in Osc /\ pr.halt = FALSE /\ pr.running = FALSE /\ pr.mode = pc.mode /\ pr.ie = pc.ie
    BY <1>2, <2>1 DEF Osc
  <2> HIDE DEF pr, g
  <2>4. g \in Docs /\ g.osc[p] = pr /\ g.osc[o] = StoppedOsc(cq) /\ g.num = d.num
    BY <1>0, <1>7, <2>2, <2>3, PutIs DEF PutOf
  <2>5. StartSound(g, p, eff, now) = StartOne(g, p, eff, now)
    <3>1. ~(g.osc[p].mode = "sync" /\ g.osc[o].mode = "sync")
      BY <1>2, <1>6, <1>11, <2>3, <2>4 DEF StopOf
    <3> QED  BY <3>1, <1>0 DEF StartSound
  <2>6. StartOne(g, p, eff, now) =
          Put(g, p, IF p >= d.num THEN StoppedOsc(pr)
            ELSE Started(pr, pr.ie \/ StoppedOsc(cq).ie, eff, now))
    <3> DEFINE pp == p
    <3>1. pp \in Oscs /\ g.osc[pp].running = FALSE /\ g.osc[pp].halt = FALSE
      BY <1>0, <2>3, <2>4
    <3> HIDE DEF pp
    <3>2. StartOne(g, pp, eff, now) =
           Put(g, pp, IF pp >= g.num THEN StoppedOsc(g.osc[pp])
                     ELSE Started(g.osc[pp], g.osc[pp].ie \/ g.osc[Partner(pp)].ie, eff, now))
      BY <2>4, <3>1, StartOneIs
    <3>3. Partner(pp) = o
      BY <1>0 DEF pp
    <3>4. g.osc[Partner(pp)].ie = StoppedOsc(cq).ie /\ g.osc[pp] = pr /\ g.num = d.num
      BY <2>4, <3>3 DEF pp
    <3> QED  BY <3>2, <3>4 DEF pp
  <2>7. StoppedOsc(pr) = pc
    BY <1>2, <2>1 DEF StoppedOsc, pr, Osc
  <2>8. Started(pr, pr.ie \/ StoppedOsc(cq).ie, eff, now) = Begun(d, p, pc, eff, now)
    <3>1. [pr EXCEPT !.halt = FALSE, !.running = TRUE, !.at = eff]
            = [pc EXCEPT !.halt = FALSE, !.running = TRUE, !.at = eff]
      BY <1>2 DEF pr, Osc
    <3>2. StoppedOsc(cq).ie = c.ie
      BY <1>2, <1>6 DEF StopOf
    <3> QED  BY <3>1, <3>2, <2>3, <1>0 DEF Begun, Started
  <2>9. CASE p >= d.num
    <3>1. Put(g, p, pc) = d3
      BY <1>0, <1>7, <2>2 DEF Put, Docs
    <3>2. ~TakesOver(d, o, canRepeat)
      <4>1. ~(p < d.num)
        BY <2>9, <1>0 DEF Oscs, Docs
      <4> QED  BY <4>1 DEF TakesOver
    <3> QED  BY <1>4, <1>8, <1>11, <2>5, <2>6, <2>7, <2>9, <3>1, <3>2 DEF EndForm, Repeats, q
  <2>10. CASE ~(p >= d.num)
    <3>1. TakesOver(d, o, canRepeat)
      <4>1. p < d.num
        BY <2>10, <1>0 DEF Oscs, Docs
      <4> QED  BY <4>1, <1>7, <1>11 DEF TakesOver
    <3> DEFINE b == Begun(d, p, pc, eff, now)
    <3>2. Put(g, p, b) = Put(d3, p, b)
      BY <1>7, <2>2 DEF Put, Docs
    <3> QED  BY <1>4, <1>8, <1>11, <2>5, <2>6, <2>8, <2>10, <3>1, <3>2 DEF EndForm, Repeats, q
  <2> QED  BY <2>9, <2>10
<1> QED  BY <1>9, <1>10, <1>11

(* The smaller of two                                                       *)
LEMMA MinOfTwo ==
  ASSUME NEW a \in Int, NEW b \in Int
  PROVE  Min({a, b}) = IF a <= b THEN a ELSE b
  BY DEF Min

-----------------------------------------------------------------------------
(* One oscillator is played.                                                *)

(* What is left of the wave of one that plays; a silent one is played for   *)
(* one sample more.                                                         *)
Shape(c) ==
  \/ c.left = c.wave.size - c.pos + 1
  \/ MeetsZero(c) /\ c.left = c.wave.zero - c.pos + 1
  \/ c.silent /\ c.left = 1 /\ c.pos = 0

(* At the end of its wave, and short of it; what there is up to its end     *)
Rewound(c, now) == [c EXCEPT !.at = now, !.left = 0, !.pos = 0, !.event = {}]
PlayedOn(c, now) == [c EXCEPT !.at = now, !.left = @ - (now - c.at),
                              !.pos = (@ + (now - c.at)) % c.wave.size]
Whole(c) == c.silent \/ ~MeetsZero(c)
Length(c) == IF c.silent THEN c.left ELSE Stop(c) - c.pos

(* PlayOne: up to the end of the wave, or up to now                         *)
PlayForm(d, o, now) ==
  LET c == d.osc[o]
  IN  IF Length(c) <= now - c.at
      THEN EndForm(Put(d, o, Rewound(c, now)), o, Whole(c), c.at + Length(c), now)
      ELSE Put(d, o, PlayedOn(c, now))

(* There is always something left to be played.                             *)
LengthOf(c) ==
  /\ Length(c) \in Int /\ Length(c) >= 1 /\ Length(c) <= c.left
  /\ Stop(c) \in Int /\ c.pos < Stop(c) /\ Stop(c) <= c.wave.size
  /\ c.wave.size \in 1..MaxSize /\ c.pos \in Nat /\ c.left \in Nat /\ c.left <= MaxSize + 1
  /\ c.wave.zero \in Nat /\ c.at \in Int /\ MaxSize \in Nat

(* What is left is at least a sample and not more than samps_left says.     *)
LEMMA LengthIs ==
  ASSUME NEW c \in Osc, c.pos < c.wave.size, Shape(c)
  PROVE  LengthOf(c)
<1>1. /\ c.wave.size \in 1..MaxSize /\ c.wave.zero \in 0..MaxSize /\ c.pos \in 0..MaxSize - 1
      /\ MaxSize \in Nat /\ c.left \in 0..MaxSize + 1 /\ c.at \in Int
  BY DocAssumption DEF Osc, Waves
<1> QED  BY <1>1 DEF LengthOf, Length, Stop, Shape, MeetsZero

(* e is c at the end of its wave,                                           *)
RewoundOf(e, c, now) ==
  /\ e \in Osc
  /\ e.halt = c.halt /\ e.running = c.running /\ e.mode = c.mode /\ e.ie = c.ie
  /\ e.wave = c.wave /\ e.silent = c.silent /\ e.rank = c.rank
  /\ e.at = now /\ e.left = 0 /\ e.pos = 0 /\ e.event = {}

(* when it has been played up to it.                                        *)
LEMMA RewoundIs ==
  ASSUME NEW c \in Osc, NEW now \in Int
  PROVE  RewoundOf(Rewound(c, now), c, now)
<1>1. 0 \in 0..MaxSize - 1 /\ 0 \in 0..MaxSize + 1 /\ {} \in SUBSET Int
  BY DocAssumption
<1> QED  BY <1>1 DEF Osc, Rewound, RewoundOf

(* e is c, played up to now within its wave.                                *)
PlayedOnOf(e, c, now) ==
  /\ e \in Osc
  /\ e.halt = c.halt /\ e.running = c.running /\ e.mode = c.mode /\ e.ie = c.ie
  /\ e.wave = c.wave /\ e.silent = c.silent /\ e.rank = c.rank /\ e.event = c.event
  /\ e.at = now /\ e.left = c.left - (now - c.at)
  /\ e.pos = IF c.pos + (now - c.at) < c.wave.size THEN c.pos + (now - c.at) ELSE 0
  /\ e.pos < e.wave.size
  /\ Shape(e)

(* One that does not reach its end stays in its wave and keeps its shape.   *)
LEMMA PlayedOnIs ==
  ASSUME NEW c \in Osc, NEW now \in Int, c.pos < c.wave.size, Shape(c),
         c.at < now, ~(Length(c) <= now - c.at)
  PROVE  PlayedOnOf(PlayedOn(c, now), c, now)
<1>1. LengthOf(c)
  BY LengthIs
<1> DEFINE n == now - c.at
           left == c.left - n
           pos == (c.pos + n) % c.wave.size
<1>2. n \in Nat /\ n >= 1 /\ n < Length(c) /\ n < c.left
  BY <1>1 DEF LengthOf
<1>3. c.pos + n <= c.wave.size /\ (c.pos + n = c.wave.size => c.silent)
  BY <1>1, <1>2 DEF LengthOf, Length, Shape, MeetsZero
<1>4. pos = IF c.pos + n < c.wave.size THEN c.pos + n ELSE 0
  BY <1>1, <1>2, <1>3 DEF LengthOf
<1>5. pos \in 0..MaxSize - 1 /\ left \in 0..MaxSize + 1 /\ left >= 1 /\ pos < c.wave.size
  BY <1>1, <1>2, <1>3, <1>4 DEF LengthOf
<1>6. PlayedOn(c, now) = [c EXCEPT !.at = now, !.left = left, !.pos = pos]
  BY DEF PlayedOn
<1> DEFINE e == PlayedOn(c, now)
<1> HIDE DEF left, pos
<1>7. /\ e \in Osc
      /\ e.halt = c.halt /\ e.running = c.running /\ e.mode = c.mode /\ e.ie = c.ie
      /\ e.wave = c.wave /\ e.silent = c.silent /\ e.rank = c.rank /\ e.event = c.event
      /\ e.at = now /\ e.left = left /\ e.pos = pos
  BY <1>5, <1>6 DEF Osc
<1> HIDE DEF e
<1>8. Shape(e)
  <2>1. left = c.left - n /\ left \in Nat
    BY <1>1, <1>2 DEF left, LengthOf
  <2>2. CASE c.pos + n = c.wave.size
    <3>1. pos = 0 /\ c.silent /\ e.silent = c.silent
      <4>1. c.silent \in BOOLEAN
        BY DEF Osc
      <4>2. pos = 0 /\ c.silent
        BY <1>1, <1>2, <2>2, <1>3, <1>4 DEF LengthOf
      <4> QED  BY <4>1, <4>2, <1>7
    <3>2. left = 1
      BY <2>1, <2>2, <1>1, <1>2 DEF Shape, LengthOf, MeetsZero
    <3> QED  BY <3>1, <3>2, <1>7 DEF Shape
  <2>3. CASE c.pos + n # c.wave.size
    <3>1. pos = c.pos + n
      BY <2>3, <1>1, <1>2, <1>3, <1>4 DEF LengthOf
    <3>2. ~(c.silent /\ c.left = 1 /\ c.pos = 0)
      BY <1>2
    <3>3. CASE c.left = c.wave.size - c.pos + 1
      BY <3>1, <3>3, <2>1, <1>1, <1>7 DEF Shape, LengthOf
    <3>4. CASE MeetsZero(c) /\ c.left = c.wave.zero - c.pos + 1
      BY <3>1, <3>4, <2>1, <1>1, <1>2, <1>7 DEF Shape, MeetsZero, LengthOf
    <3> QED  BY <3>2, <3>3, <3>4 DEF Shape
  <2> QED  BY <2>2, <2>3
<1> QED  BY <1>4, <1>5, <1>7, <1>8 DEF PlayedOnOf, left, e

(* PlayOne has the form given above.                                        *)
LEMMA PlayOneIs ==
  ASSUME NEW d \in Docs, NEW o \in Oscs, NEW now \in Int,
         Tidy(d), d.osc[o].running, o < d.num, d.osc[o].rank = 0 => d.count < NumOscs,
         Shape(d.osc[o]), d.osc[o].at < now
  PROVE  PlayOne(d, o, now) = PlayForm(d, o, now)
<1> DEFINE c == d.osc[o]
           n == now - c.at
           todo == Min({c.left, n})
           on == [d EXCEPT !.osc[o].at = now, !.osc[o].left = @ - todo,
                           !.osc[o].pos = (@ + todo) % c.wave.size]
<1>1. c \in Osc /\ c.halt = FALSE /\ c.pos < c.wave.size /\ c.running = TRUE
  BY DEF Docs, Tidy, Osc
<1>2. LengthOf(c)
  BY <1>1, LengthIs
<1>3. todo = (IF c.left <= n THEN c.left ELSE n) /\ todo >= 1 /\ todo \in Int /\ n \in Int
  BY <1>2, MinOfTwo DEF LengthOf
<1>4. on = Put(d, o, [c EXCEPT !.at = now, !.left = @ - todo, !.pos = (@ + todo) % c.wave.size])
  <2> HIDE DEF todo
  <2> QED  BY DEF Put, Docs
<1>5. PlayOne(d, o, now) =
        IF c.silent \/ todo = 0
        THEN IF c.left - todo > 0 THEN on ELSE SoundEnd(on, o, TRUE, c.at + todo, now)
        ELSE IF todo < Stop(c) - c.pos THEN on
             ELSE SoundEnd([on EXCEPT !.osc[o].left = 0], o, ~MeetsZero(c),
               c.at + Stop(c) - c.pos, now)
  BY Zenon DEF PlayOne
<1> HIDE DEF todo
<1> HIDE DEF on
<1>6. CASE ~(Length(c) <= n)
  <2>1. todo = n /\ todo # 0 /\ (c.silent => c.left - todo > 0)
        /\ (~c.silent => todo < Stop(c) - c.pos)
    BY <1>2, <1>3, <1>6 DEF LengthOf, Length
  <2>2. on = Put(d, o, PlayedOn(c, now))
    BY <1>4, <2>1 DEF PlayedOn
  <2> QED  BY <1>5, <1>6, <2>1, <2>2 DEF PlayForm
<1>7. CASE Length(c) <= n
  <2>1. todo # 0 /\ (c.silent => ~(c.left - todo > 0)) /\ (~c.silent => ~(todo < Stop(c) - c.pos))
    BY <1>2, <1>3, <1>7 DEF LengthOf, Length
  <2>2. RewoundOf(Rewound(c, now), c, now)
    BY <1>1, RewoundIs
  <2> DEFINE r == Rewound(c, now)
             g == Put(d, o, r)
  <2>3. r \in Osc
    BY <2>2 DEF RewoundOf
  <2>4. PutOf(g, d, o, r)
    BY <2>3, PutIs
  <2>5. ASSUME NEW w \in BOOLEAN, NEW eff \in Int
        PROVE  Ends(g, o, w, eff, now) = EndForm(g, o, w, eff, now)
    <3>1. g \in Docs /\ g.osc[o] = r /\ g.num = d.num /\ g.count = d.count /\ r.rank = c.rank
      BY <2>2, <2>4 DEF PutOf, RewoundOf
    <3>2. r.pos < r.wave.size /\ r.running = ~r.halt /\ r.running = TRUE
      <4>0. RewoundOf(r, c, now)
        BY <2>2
      <4> HIDE DEF r, c
      <4>1. r.pos = 0 /\ r.wave = c.wave /\ r.running = TRUE /\ r.halt = FALSE
        BY <1>1, <4>0 DEF RewoundOf
      <4>2. r.pos < r.wave.size
        BY <1>2, <4>1 DEF LengthOf
      <4>3. r.running = ~r.halt
        BY <4>1, Zenon
      <4> QED  BY <4>1, <4>2, <4>3
    <3>3. Tidy(g)
      BY <3>1, <3>2, <2>4 DEF Tidy, PutOf
    <3> HIDE DEF g, r
    <3> QED  BY <3>1, <3>2, <3>3, EndsIs
  <2> DEFINE e == Ends(g, o, Whole(c), c.at + Length(c), now)
  <2>6. Whole(c) \in BOOLEAN /\ c.at + Length(c) \in Int
    BY <1>1, <1>2 DEF Whole, LengthOf, MeetsZero, Osc
  <2>7. CASE c.silent
    <3>1. todo = c.left
      BY <1>2, <1>3, <2>1, <2>7 DEF LengthOf
    <3>2. [on EXCEPT !.osc[o].event = {}, !.osc[o].pos = 0] = g
      <4>1. c.left - todo = 0
        BY <1>2, <3>1 DEF LengthOf
      <4> DEFINE x == [c EXCEPT !.at = now, !.left = 0, !.pos = (@ + todo) % c.wave.size]
      <4>2. on = Put(d, o, x)
        BY <1>4, <4>1
      <4>3. r = [x EXCEPT !.event = {}, !.pos = 0]
        BY <1>1 DEF Rewound, Osc
      <4> HIDE DEF x, r, c
      <4>4. [on EXCEPT !.osc[o].event = {}, !.osc[o].pos = 0] = Put(d, o,
            [x EXCEPT !.event = {}, !.pos = 0])
        BY <4>2 DEF Put, Docs
      <4> QED  BY <4>3, <4>4
    <3>3. on.osc[o].halt = FALSE
      BY <1>1, <1>4 DEF Put, Docs, Osc
    <3>4. SoundEnd(on, o, TRUE, c.at + todo, now) = Ends(g, o, TRUE, c.at + todo, now)
      BY <3>2, <3>3 DEF SoundEnd
    <3>5. Whole(c) = TRUE /\ Length(c) = todo
      BY <2>7, <3>1 DEF Whole, Length
    <3>6. PlayOne(d, o, now) = e
      BY <1>5, <2>1, <2>7, <3>4, <3>5
    <3>7. e = EndForm(g, o, Whole(c), c.at + Length(c), now)
      BY <2>5, <2>6
    <3> QED  BY <3>6, <3>7, <1>7 DEF PlayForm
  <2>8. CASE ~c.silent
    <3> DEFINE on0 == [on EXCEPT !.osc[o].left = 0]
    <3>2. [on0 EXCEPT !.osc[o].event = {}, !.osc[o].pos = 0] = g
      <4> DEFINE x == [c EXCEPT !.at = now, !.left = @ - todo, !.pos = (@ + todo) % c.wave.size]
                 y == [x EXCEPT !.left = 0]
      <4>1. r = [y EXCEPT !.event = {}, !.pos = 0]
        BY <1>1 DEF Rewound, Osc
      <4>2. on = Put(d, o, x)
        BY <1>4
      <4> HIDE DEF x, r, c
      <4>3. on0 = Put(d, o, y)
        BY <4>2 DEF Put, Docs
      <4> HIDE DEF y, on0
      <4>4. [on0 EXCEPT !.osc[o].event = {}, !.osc[o].pos = 0] = Put(d, o,
            [y EXCEPT !.event = {}, !.pos = 0])
        BY <4>3 DEF Put, Docs
      <4> QED  BY <4>1, <4>4
    <3>3. on0.osc[o].halt = FALSE
      BY <1>1, <1>4 DEF Put, Docs, Osc
    <3> HIDE DEF on0
    <3>4. SoundEnd(on0, o, ~MeetsZero(c), c.at + Length(c), now) = Ends(g, o, ~MeetsZero(c),
          c.at + Length(c), now)
      BY <3>2, <3>3 DEF SoundEnd
    <3>5. Whole(c) = ~MeetsZero(c) /\ c.at + Length(c) = c.at + Stop(c) - c.pos
      BY <2>8, <1>2 DEF Whole, Length, LengthOf
    <3>6. PlayOne(d, o, now) = e
      BY <1>5, <2>1, <2>8, <3>4, <3>5 DEF on0
    <3>7. e = EndForm(g, o, Whole(c), c.at + Length(c), now)
      BY <2>5, <2>6
    <3> QED  BY <3>6, <3>7, <1>7 DEF PlayForm
  <2> QED  BY <2>7, <2>8
<1> QED  BY <1>6, <1>7

(* f starts its wave at eff; f is set as c is; c joins the queue.           *)
StartsOf(f, w, eff, now) ==
  /\ f.running = TRUE /\ f.halt = FALSE /\ f.at = eff
  /\ f.left = (IF w THEN Waits(f) ELSE f.wave.size) - f.pos + 1 /\ f.left >= 1
  /\ f.event = IF w THEN {eff + f.left - now} ELSE {}
SetAs(f, c) == f.mode = c.mode /\ f.ie = c.ie /\ f.wave = c.wave /\ f.silent = c.silent
JoinsQueue(c) == c.ie /\ c.rank = 0

(* The queue of e is that of d, with o at its end if it joins.              *)
QueueAs(e, d, o, joins) ==
  /\ e.osc[o].rank = IF joins THEN d.count + 1 ELSE d.osc[o].rank
  /\ e.count = IF joins THEN d.count + 1 ELSE d.count
  /\ e.irq = IF joins THEN TRUE ELSE d.irq
  /\ e.e0 = IF joins /\ d.count = 0 THEN o ELSE d.e0

(* What playing one oscillator does                                         *)
EndOf(e, d, o, w, eff, now, canRepeat) ==
  LET c == d.osc[o]
      p == Partner(o)
  IN  /\ SetAs(e.osc[o], c) /\ e.osc[o].pos = 0
      /\ QueueAs(e, d, o, JoinsQueue(c))
      /\ IF Repeats(d, o, canRepeat) THEN StartsOf(e.osc[o], w, eff, now)
         ELSE /\ e.osc[o].running = FALSE /\ e.osc[o].halt = TRUE
              /\ e.osc[o].event = {} /\ e.osc[o].left = 0 /\ e.osc[o].at = now
      /\ IF TakesOver(d, o, canRepeat)
         THEN /\ StartsOf(e.osc[p], w, eff, now) /\ SetAs(e.osc[p], d.osc[p])
              /\ e.osc[p].pos = d.osc[p].pos /\ e.osc[p].rank = d.osc[p].rank
         ELSE e.osc[p] = d.osc[p]

PlayOf(e, d, o, now) ==
  LET c == d.osc[o]
      p == Partner(o)
  IN  /\ e \in Docs /\ e.num = d.num /\ e.behind = d.behind /\ e.halted = d.halted
      /\ \A i \in Oscs : i # o /\ i # p => e.osc[i] = d.osc[i]
      /\ ~(Length(c) <= now - c.at) =>
           /\ PlayedOnOf(e.osc[o], c, now) /\ e.osc[p] = d.osc[p]
           /\ QueueAs(e, d, o, FALSE)
      /\ Length(c) <= now - c.at =>
           EndOf(e, d, o, c.ie \/ d.osc[p].ie, c.at + Length(c), now, Whole(c))

(* An oscillator that has been started starts as it is set.                 *)
LEMMA StartsIs ==
  ASSUME NEW c, NEW e, NEW eff, NEW now, NEW w, StartOf(e, c, w, eff, now)
  PROVE  /\ StartsOf(e, w, eff, now) /\ SetAs(e, c) /\ e.pos = c.pos /\ e.rank = c.rank
         /\ e \in Osc
  BY DEF StartOf, StartsOf, SetAs, Waits, MeetsZero

(* PlayOne does what PlayOf says, of both partners and of the queue.        *)
LEMMA PlayIs ==
  ASSUME NEW d \in Docs, NEW o \in Oscs, NEW now \in Int,
         Tidy(d), d.osc[o].running, o < d.num, d.osc[o].rank = 0 => d.count < NumOscs,
         Shape(d.osc[o]), d.osc[o].at < now
  PROVE  PlayOf(PlayOne(d, o, now), d, o, now)
<1> DEFINE c == d.osc[o]
           p == Partner(o)
           pc == d.osc[p]
           n == now - c.at
           x == PlayOne(d, o, now)
<1>0. /\ c \in Osc /\ pc \in Osc /\ c.halt = FALSE /\ c.pos < c.wave.size /\ c.running = TRUE
      /\ pc.pos < pc.wave.size
      /\ p \in Oscs /\ p # o /\ Partner(p) = o
  BY PartnerIs DEF Docs, Tidy, Osc
<1>1. LengthOf(c)
  BY <1>0, LengthIs
<1>2. x = PlayForm(d, o, now)
  BY PlayOneIs
<1>3. CASE ~(Length(c) <= n)
  <2> DEFINE e == PlayedOn(c, now)
  <2>1. PlayedOnOf(e, c, now)
    BY <1>0, <1>3, PlayedOnIs
  <2>2. e \in Osc /\ e.rank = c.rank
    BY <2>1 DEF PlayedOnOf
  <2>3. x = Put(d, o, e)
    BY <1>2, <1>3 DEF PlayForm
  <2> HIDE DEF e, x
  <2>4. PutOf(x, d, o, e)
    BY <2>2, <2>3, PutIs
  <2> QED  BY <1>0, <1>3, <2>1, <2>2, <2>4 DEF PutOf, PlayOf, QueueAs, x
<1>4. CASE Length(c) <= n
  <2> DEFINE r == Rewound(c, now)
             g == Put(d, o, r)
             q == Joined(g, o)
             b == q.osc[o]
             w == c.ie \/ pc.ie
             eff == c.at + Length(c)
             whole == Whole(c)
  <2>1. RewoundOf(r, c, now)
    BY <1>0, RewoundIs
  <2>2. PutOf(g, d, o, r)
    <3>1. r \in Osc
      BY <2>1 DEF RewoundOf
    <3> QED  BY <3>1, PutIs
  <2>3. /\ g \in Docs /\ g.osc[o] = r /\ g.osc[p] = pc /\ g.num = d.num /\ g.count = d.count
        /\ g.behind = d.behind /\ g.halted = d.halted /\ g.irq = d.irq /\ g.e0 = d.e0
        /\ \A i \in Oscs : i # o => g.osc[i] = d.osc[i]
    BY <1>0, <2>2 DEF PutOf
  <2>4. x = EndForm(g, o, whole, eff, now)
    BY <1>2, <1>4 DEF PlayForm
  <2>5. eff \in Int /\ w \in BOOLEAN /\ whole \in BOOLEAN
    BY <1>0, <1>1 DEF LengthOf, Osc, Whole, MeetsZero
  <2> HIDE DEF g, r, x
  <2>6. r.rank = c.rank /\ r.ie = c.ie /\ r.mode = c.mode /\ r.wave = c.wave /\ r.silent = c.silent
        /\ r.pos = 0 /\ r.event = {} /\ r.left = 0 /\ r.at = now /\ r \in Osc
    BY <2>1 DEF RewoundOf
  <2>7. JoinedOf(q, g, o)
    BY <2>3, <2>6, JoinedIs
  <2>8. (Repeats(g, o, whole) <=> Repeats(d, o, whole))
        /\ (TakesOver(g, o, whole) <=> TakesOver(d, o, whole))
    BY <2>3, <2>6, <1>0 DEF Repeats, TakesOver
  <2> HIDE DEF q
  <2>9. /\ q \in Docs /\ q.num = d.num /\ q.behind = d.behind /\ q.halted = d.halted
        /\ b \in Osc /\ SetAs(b, c) /\ b.pos = 0 /\ b.pos < b.wave.size /\ b.event = {}
           /\ b.left = 0 /\ b.at = now
        /\ q.osc[p] = pc /\ \A i \in Oscs : i # o => q.osc[i] = d.osc[i]
    BY <1>0, <1>1, <2>3, <2>6, <2>7 DEF JoinedOf, RankedOf, SetAs, LengthOf
  <2>10. QueueAs(q, d, o, JoinsQueue(c))
    BY <2>3, <2>6, <2>7, ZenonT(40) DEF JoinedOf, RankedOf, QueueAs, JoinsQueue
  <2>11. CASE Repeats(d, o, whole)
    <3> DEFINE s == Started(b, w, eff, now)
    <3>1. StartOf(s, b, w, eff, now)
      BY <2>5, <2>9, StartedIs
    <3>2. /\ StartsOf(s, w, eff, now) /\ SetAs(s, b) /\ s.pos = b.pos /\ s.rank = b.rank
          /\ s \in Osc
      BY <3>1, StartsIs, Zenon
    <3>3. x = Put(q, o, s)
      BY <2>3, <2>4, <2>6, <2>8, <2>11 DEF EndForm, Begun, q
    <3> HIDE DEF s
    <3>4. PutOf(x, q, o, s)
      BY <2>9, <3>2, <3>3, PutIs
    <3>5. ~TakesOver(d, o, whole)
      BY <2>11 DEF Repeats, TakesOver
    <3>6. /\ x \in Docs /\ x.num = d.num /\ x.behind = d.behind /\ x.halted = d.halted
          /\ \A i \in Oscs : i # o => x.osc[i] = d.osc[i]
          /\ x.osc[o] = s /\ x.osc[p] = pc
      BY <1>0, <2>9, <3>4 DEF PutOf
    <3>7. SetAs(s, c) /\ s.pos = 0
      BY <2>9, <3>2 DEF SetAs
    <3>8. QueueAs(x, d, o, JoinsQueue(c))
      BY <2>10, <3>2, <3>4 DEF QueueAs, PutOf
    <3>9. EndOf(x, d, o, w, eff, now, whole)
      BY <2>11, <3>2, <3>5, <3>6, <3>7, <3>8 DEF EndOf
    <3> QED  BY <1>4, <3>6, <3>9 DEF PlayOf, x
  <2>12. CASE ~Repeats(d, o, whole)
    <3> DEFINE s == StoppedOsc(b)
               y == Put(q, o, s)
    <3>1. StopOf(s, b)
      BY <2>9, StoppedIs
    <3>2. /\ s \in Osc /\ SetAs(s, b) /\ s.pos = b.pos /\ s.rank = b.rank
          /\ s.running = FALSE /\ s.halt = TRUE /\ s.event = {} /\ s.left = 0 /\ s.at = now
      BY <2>9, <3>1 DEF StopOf, SetAs
    <3> HIDE DEF s
    <3>3. PutOf(y, q, o, s)
      BY <2>9, <3>2, PutIs
    <3>4. /\ y \in Docs /\ y.num = d.num /\ y.behind = d.behind /\ y.halted = d.halted
          /\ \A i \in Oscs : i # o => y.osc[i] = d.osc[i]
          /\ y.osc[o] = s /\ y.osc[p] = pc
      BY <1>0, <2>9, <3>3 DEF PutOf
    <3>5. SetAs(s, c) /\ s.pos = 0
      BY <2>9, <3>2 DEF SetAs
    <3>6. QueueAs(y, d, o, JoinsQueue(c))
      BY <2>10, <3>2, <3>3 DEF QueueAs, PutOf
    <3>7. CASE ~TakesOver(d, o, whole)
      <4>1. x = y
        BY <2>4, <2>8, <2>12, <3>7 DEF EndForm, q, s
      <4>2. EndOf(x, d, o, w, eff, now, whole)
        BY <2>12, <3>2, <3>4, <3>5, <3>6, <3>7, <4>1 DEF EndOf
      <4> QED  BY <1>4, <3>4, <4>1, <4>2 DEF PlayOf, x
    <3>8. CASE TakesOver(d, o, whole)
      <4> DEFINE u == Started(pc, w, eff, now)
      <4>1. StartOf(u, pc, w, eff, now)
        BY <1>0, <2>5, StartedIs
      <4>2. /\ StartsOf(u, w, eff, now) /\ SetAs(u, pc) /\ u.pos = pc.pos /\ u.rank = pc.rank
            /\ u \in Osc
        BY <4>1, StartsIs, Zenon
      <4>3. x = Put(y, p, u)
        <5>1. Begun(g, p, g.osc[p], eff, now) = Started(pc, pc.ie \/ c.ie, eff, now)
          BY <1>0, <2>3, <2>6 DEF Begun
        <5>2. (pc.ie \/ c.ie) = w
          BY Zenon
        <5>3. Begun(g, p, g.osc[p], eff, now) = u
          BY <5>1, <5>2
        <5> QED  BY <2>4, <2>8, <2>12, <3>8, <5>3 DEF EndForm, q, s
      <4> HIDE DEF u, y
      <4>4. PutOf(x, y, p, u)
        BY <1>0, <3>4, <4>2, <4>3, PutIs
      <4>5. /\ x \in Docs /\ x.num = d.num /\ x.behind = d.behind /\ x.halted = d.halted
            /\ \A i \in Oscs : i # o /\ i # p => x.osc[i] = d.osc[i]
            /\ x.osc[o] = s /\ x.osc[p] = u
        BY <1>0, <3>4, <4>4 DEF PutOf
      <4>6. QueueAs(x, d, o, JoinsQueue(c))
        BY <3>4, <3>6, <4>4, <4>5 DEF QueueAs, PutOf
      <4>7. EndOf(x, d, o, w, eff, now, whole)
        BY <2>12, <3>2, <3>5, <3>8, <4>2, <4>5, <4>6 DEF EndOf
      <4> QED  BY <1>4, <4>5, <4>7 DEF PlayOf, x
    <3> QED  BY <3>7, <3>8
  <2> QED  BY <2>11, <2>12
<1> QED  BY <1>3, <1>4

-----------------------------------------------------------------------------
(* The queue                                                                *)

(* Ranks are 1, 2, ... without a gap or a double, and only enabled ones have*)
(* one; the IRQ line and $E0 follow.                                        *)
RankOK(d) ==
  /\ \A i \in Oscs : d.osc[i].rank <= d.count /\ (d.osc[i].rank > 0 => i < d.num)
  /\ \A k \in 1..d.count : \E i \in Oscs : d.osc[i].rank = k
  /\ \A i, j \in Oscs : d.osc[i].rank = d.osc[j].rank /\ d.osc[i].rank > 0 => i = j
  /\ (d.irq <=> d.count > 0)
  /\ d.count = 0 => d.e0 = NoOsc
  /\ d.count > 0 => d.e0 \in Oscs /\ d.osc[d.e0].rank = 1

RankedIn(d) == {i \in Oscs : d.osc[i].rank > 0}

(* As many oscillators are ranked as count says,                            *)
LEMMA RankedCount ==
  ASSUME NEW d \in Docs, RankOK(d)
  PROVE  IsFiniteSet(RankedIn(d)) /\ Cardinality(RankedIn(d)) = d.count
<1> DEFINE n == d.count
           R == RankedIn(d)
           f == [k \in 1..n |-> CHOOSE i \in Oscs : d.osc[i].rank = k]
<1>1. n \in Nat /\ \A i \in Oscs : d.osc[i].rank \in Nat
  BY DocAssumption DEF Docs, Osc
<1>2. \A k \in 1..n : f[k] \in Oscs /\ d.osc[f[k]].rank = k
  BY DEF RankOK
<1> HIDE DEF f
<1>3. f \in [1..n -> R]
  <2>1. \A k \in 1..n : f[k] \in R
    BY <1>2 DEF RankedIn
  <2>2. f = [k \in 1..n |-> f[k]]
    BY DEF f
  <2> QED  BY <2>1, <2>2
<1>4. \A k, m \in 1..n : f[k] = f[m] => k = m
  BY <1>2
<1>5. \A i \in R : \E k \in 1..n : f[k] = i
  <2> SUFFICES ASSUME NEW i \in R PROVE \E k \in 1..n : f[k] = i
    OBVIOUS
  <2>1. i \in Oscs /\ d.osc[i].rank \in 1..n
    BY <1>1 DEF RankedIn, RankOK
  <2>2. f[d.osc[i].rank] = i
    BY <2>1, <1>2, <1>1 DEF RankOK, RankedIn
  <2> QED  BY <2>1, <2>2
<1>6. ExistsBijection(1..n, R)
  <2>1. f \in Bijection(1..n, R)
    BY <1>3, <1>4, <1>5, Zenon DEF Bijection, Injection, Surjection, IsInjective
  <2> QED  BY <2>1 DEF ExistsBijection
<1>7. IsFiniteSet(1..n) /\ Cardinality(1..n) = n
  BY <1>1, FS_Interval, SMTT(30)
<1> QED  BY <1>6, <1>7, FS_Bijection

(* There are NumOscs oscillators,                                           *)
LEMMA OscsCount == IsFiniteSet(Oscs) /\ Cardinality(Oscs) = NumOscs
<1>1. NumOscs \in Nat /\ NumOscs >= 1 /\ 0 \in Int /\ NumOscs - 1 \in Int
  BY DocAssumption
<1>2. IsFiniteSet(0..NumOscs - 1) /\ Cardinality(0..NumOscs - 1) = IF 0 > NumOscs - 1 THEN 0
      ELSE (NumOscs - 1) - 0 + 1
  BY <1>1, FS_Interval
<1> QED  BY <1>1, <1>2 DEF Oscs

(* so that one that is not ranked finds a place in the queue.               *)
LEMMA Room ==
  ASSUME NEW d \in Docs, RankOK(d), NEW o \in Oscs, d.osc[o].rank = 0
  PROVE  d.count < NumOscs
<1> DEFINE R == RankedIn(d)
<1>1. IsFiniteSet(R) /\ Cardinality(R) = d.count
  BY RankedCount
<1>2. o \notin R /\ R \subseteq Oscs
  BY DEF RankedIn
<1> HIDE DEF R
<1>3. IsFiniteSet(R \cup {o}) /\ Cardinality(R \cup {o}) = d.count + 1
  BY <1>1, <1>2, FS_AddElement
<1>4. Cardinality(R \cup {o}) <= NumOscs
  <2>1. R \cup {o} \in SUBSET Oscs
    BY <1>2
  <2> QED  BY <2>1, OscsCount, FS_Subset
<1>5. d.count \in Nat /\ NumOscs \in Nat
  BY DocAssumption DEF Docs
<1> QED  BY <1>3, <1>4, <1>5

(* An oscillator that joins the queue is its last.                          *)
LEMMA JoinKeeps ==
  ASSUME NEW d \in Docs, NEW e \in Docs, NEW o \in Oscs, NEW joins \in BOOLEAN,
         RankOK(d), QueueAs(e, d, o, joins), joins => d.osc[o].rank = 0,
         o < d.num, e.num = d.num, \A i \in Oscs : i # o => e.osc[i].rank = d.osc[i].rank
  PROVE  RankOK(e)
<1>1. /\ d.count \in Nat /\ d.irq \in BOOLEAN /\ NumOscs \in Nat
      /\ \A i \in Oscs : d.osc[i].rank \in Nat /\ e.osc[i].rank \in Nat
  BY DocAssumption DEF Docs, Osc
<1>2. CASE joins
  <2>1. /\ e.osc[o].rank = d.count + 1 /\ e.count = d.count + 1 /\ e.irq = TRUE
        /\ e.e0 = IF d.count = 0 THEN o ELSE d.e0
    BY <1>2 DEF QueueAs
  <2>2. d.osc[o].rank = 0
    BY <1>2
  <2>3. \A i \in Oscs : e.osc[i].rank <= e.count /\ (e.osc[i].rank > 0 => i < e.num)
    BY <2>1, <1>1 DEF RankOK
  <2>4. \A k \in 1..e.count : \E i \in Oscs : e.osc[i].rank = k
    <3> SUFFICES ASSUME NEW k \in 1..e.count PROVE \E i \in Oscs : e.osc[i].rank = k
      OBVIOUS
    <3>1. CASE k = e.count
      BY <2>1, <3>1
    <3>2. CASE k # e.count
      <4>1. k \in 1..d.count /\ k # 0
        BY <3>2, <2>1, <1>1
      <4>2. PICK i \in Oscs : d.osc[i].rank = k
        BY <4>1 DEF RankOK
      <4>3. i # o
        BY <4>1, <4>2, <2>2
      <4> QED  BY <4>2, <4>3
    <3> QED  BY <3>1, <3>2
  <2>5. \A i, j \in Oscs : e.osc[i].rank = e.osc[j].rank /\ e.osc[i].rank > 0 => i = j
    <3> SUFFICES ASSUME NEW i \in Oscs, NEW j \in Oscs, e.osc[i].rank = e.osc[j].rank,
                        e.osc[i].rank > 0
                 PROVE  i = j
      OBVIOUS
    <3>1. d.osc[i].rank <= d.count /\ d.osc[j].rank <= d.count
      BY DEF RankOK
    <3> QED  BY <3>1, <2>1, <1>1 DEF RankOK
  <2>6. e.count > 0 /\ (e.irq <=> e.count > 0)
    BY <2>1, <1>1
  <2>7. e.e0 \in Oscs /\ e.osc[e.e0].rank = 1
    <3>1. CASE d.count = 0
      BY <2>1, <3>1
    <3>2. CASE d.count # 0
      <4>1. e.e0 = d.e0 /\ d.e0 \in Oscs /\ d.osc[d.e0].rank = 1
        BY <2>1, <3>2, <1>1 DEF RankOK
      <4> QED  BY <4>1, <2>2
    <3> QED  BY <3>1, <3>2
  <2> QED  BY <2>3, <2>4, <2>5, <2>6, <2>7, <1>1 DEF RankOK
<1>3. CASE ~joins
  <2>1. /\ \A i \in Oscs : e.osc[i].rank = d.osc[i].rank
        /\ e.count = d.count /\ e.irq = d.irq /\ e.e0 = d.e0
    BY <1>3 DEF QueueAs
  <2> QED  BY <2>1 DEF RankOK
<1> QED  BY <1>2, <1>3

-----------------------------------------------------------------------------
(* What is true of the oscillators while they are played                    *)

(* Oscillator i of num, now samples after the last time: one that plays is  *)
(* enabled, and its event is on the list, or its end has come; but not of   *)
(* those in X.                                                              *)
OscOK(c, i, num, now, X) ==
  /\ c.running = ~c.halt
  /\ c.pos < c.wave.size
  /\ \E t \in Int : c.event \subseteq {t}
  /\ c.running =>
       /\ i < num \/ i \in X
       /\ Shape(c)
       /\ i < num => 0 <= c.at /\ c.at <= now
       /\ c.ie /\ i \notin X => c.event = {c.at + c.left - now} \/ c.at + c.left <= now

(* What holds within sound_play, except of the events of those in X         *)
Good(d, X) ==
  /\ d \in Docs /\ d.halted = FALSE
  /\ RankOK(d)
  /\ \A i \in Oscs : OscOK(d.osc[i], i, d.num, d.behind, X)

(* One that starts now is in order.                                         *)
LEMMA StartsOK ==
  ASSUME NEW f \in Osc, NEW i \in Oscs, NEW num \in Int, NEW now \in Int, NEW X, NEW w \in BOOLEAN,
         NEW eff \in Int, StartsOf(f, w, eff, now), f.pos < f.wave.size, i < num \/ i \in X,
         0 <= eff, eff <= now, f.ie => w
  PROVE  OscOK(f, i, num, now, X)
<1>1. f.running = ~f.halt
  BY Zenon DEF StartsOf
<1>2. f.left \in Int /\ f.wave.size \in Int /\ f.wave.zero \in Int /\ f.pos \in Int
  BY DEF Osc, Waves
<1>3. Shape(f)
  BY <1>2 DEF StartsOf, Shape, Waits
<1>4. \E t \in Int : f.event \subseteq {t}
  <2>1. eff + f.left - now \in Int
    BY <1>2
  <2>2. f.event \subseteq {eff + f.left - now}
    BY DEF StartsOf
  <2> QED  BY <2>1, <2>2
<1>5. 0 <= f.at /\ f.at <= now
  BY DEF StartsOf
<1>6. f.ie => f.event = {f.at + f.left - now}
  BY DEF StartsOf
<1> QED  BY <1>1, <1>3, <1>4, <1>5, <1>6 DEF OscOK

(* In such a state each oscillator is stopped or plays within its wave.     *)
LEMMA GoodTidy ==
  ASSUME NEW d, NEW X, Good(d, X)
  PROVE  Tidy(d)
  BY DEF Good, Tidy, OscOK

(* Playing one oscillator keeps all in order.                               *)
LEMMA PlayKeeps ==
  ASSUME NEW X, NEW d, Good(d, X), NEW o \in Oscs, o < d.num, d.osc[o].running,
         d.osc[o].at < d.behind
  PROVE  /\ PlayOf(PlayOne(d, o, d.behind), d, o, d.behind)
         /\ Good(PlayOne(d, o, d.behind), X)
<1> DEFINE c == d.osc[o]
           p == Partner(o)
           pc == d.osc[p]
           now == d.behind
           e == PlayOne(d, o, now)
<1>0. /\ d \in Docs /\ c \in Osc /\ pc \in Osc /\ c.running = TRUE /\ now \in Nat /\ d.num \in Nat
      /\ p \in Oscs /\ p # o
      /\ OscOK(c, o, d.num, now, X) /\ OscOK(pc, p, d.num, now, X) /\ RankOK(d) /\ d.halted = FALSE
  BY PartnerIs DEF Good, Docs, Osc
<1>1. LengthOf(c)
  BY <1>0, LengthIs DEF OscOK
<1>2. PlayOf(e, d, o, now)
  BY <1>0, PlayIs, Room, GoodTidy DEF OscOK
<1> HIDE DEF e
<1>3. /\ e \in Docs /\ e.num = d.num /\ e.behind = now /\ e.halted = FALSE
      /\ \A i \in Oscs : i # o /\ i # p => e.osc[i] = d.osc[i]
  BY <1>0, <1>2 DEF PlayOf
<1>4. e.osc[o] \in Osc /\ e.osc[p] \in Osc
  BY <1>0, <1>3 DEF Docs
<1>5. CASE ~(Length(c) <= now - c.at)
  <2>1. PlayedOnOf(e.osc[o], c, now) /\ e.osc[p] = pc /\ QueueAs(e, d, o, FALSE)
    BY <1>2, <1>5 DEF PlayOf
  <2>2. OscOK(e.osc[o], o, d.num, now, X)
    <3>1. e.osc[o].running = ~e.osc[o].halt
      BY <1>0, <2>1 DEF PlayedOnOf, OscOK
    <3>2. c.ie /\ o \notin X => c.event = {c.at + c.left - now}
      <4>1. ~(c.at + c.left <= now)
        BY <1>0, <1>1, <1>5 DEF LengthOf
      <4> QED  BY <4>1, <1>0 DEF OscOK
    <3>3. e.osc[o].at + e.osc[o].left - now = c.at + c.left - now
      BY <1>0, <1>1, <2>1 DEF PlayedOnOf, LengthOf
    <3> QED  BY <3>1, <3>2, <3>3, <1>0, <2>1 DEF PlayedOnOf, OscOK
  <2>3. RankOK(e)
    <3>1. e.osc[o].rank = d.osc[o].rank
      BY <2>1 DEF QueueAs
    <3>2. \A i \in Oscs : i # o => e.osc[i].rank = d.osc[i].rank
      BY <1>3, <2>1
    <3> QED  BY <1>0, <1>3, <2>1, <3>2, JoinKeeps
  <2>4. \A i \in Oscs : OscOK(e.osc[i], i, e.num, e.behind, X)
    BY <1>0, <1>3, <2>1, <2>2 DEF Good
  <2> QED  BY <1>2, <1>3, <2>3, <2>4 DEF Good, e
<1>6. CASE Length(c) <= now - c.at
  <2> DEFINE w == c.ie \/ pc.ie
             eff == c.at + Length(c)
  <2>1. EndOf(e, d, o, w, eff, now, Whole(c))
    BY <1>2, <1>6 DEF PlayOf
  <2>2. eff \in Int /\ 0 <= eff /\ eff <= now /\ w \in BOOLEAN
    BY <1>0, <1>1, <1>6 DEF LengthOf, OscOK, Osc
  <2> HIDE DEF w, eff
  <2>3. SetAs(e.osc[o], c) /\ e.osc[o].pos = 0 /\ e.osc[o].pos < e.osc[o].wave.size
    BY <1>1, <2>1 DEF EndOf, SetAs, LengthOf
  <2>4. OscOK(e.osc[o], o, d.num, now, X)
    <3>1. CASE Repeats(d, o, Whole(c))
      <4>1. StartsOf(e.osc[o], w, eff, now)
        BY <2>1, <3>1 DEF EndOf
      <4>2. e.osc[o].ie => w
        BY <2>3 DEF w, SetAs
      <4> QED  BY <1>0, <1>4, <2>2, <2>3, <4>1, <4>2, StartsOK
    <3>2. CASE ~Repeats(d, o, Whole(c))
      <4>1. e.osc[o].running = FALSE /\ e.osc[o].halt = TRUE
        BY <2>1, <3>2 DEF EndOf
      <4>2. e.osc[o].running = ~e.osc[o].halt
        BY <4>1, Zenon
      <4>3. \E t \in Int : e.osc[o].event \subseteq {t}
        <5>1. e.osc[o].event = {}
          BY <2>1, <3>2 DEF EndOf
        <5> QED  BY <5>1
      <4> QED  BY <2>3, <4>1, <4>2, <4>3 DEF OscOK
    <3> QED  BY <3>1, <3>2
  <2>5. OscOK(e.osc[p], p, d.num, now, X)
    <3>1. CASE TakesOver(d, o, Whole(c))
      <4>1. /\ StartsOf(e.osc[p], w, eff, now) /\ SetAs(e.osc[p], pc)
            /\ e.osc[p].pos = pc.pos /\ p < d.num
        BY <2>1, <3>1 DEF EndOf, TakesOver
      <4>2. (e.osc[p].ie => w) /\ e.osc[p].pos < e.osc[p].wave.size
        BY <1>0, <4>1 DEF w, SetAs, OscOK
      <4> QED  BY <1>0, <1>4, <2>2, <4>1, <4>2, StartsOK
    <3>2. CASE ~TakesOver(d, o, Whole(c))
      BY <1>0, <2>1, <3>2 DEF EndOf
    <3> QED  BY <3>1, <3>2
  <2>6. RankOK(e)
    <3>1. QueueAs(e, d, o, JoinsQueue(c))
      BY <2>1 DEF EndOf
    <3>2. e.osc[p].rank = pc.rank
      BY <2>1 DEF EndOf
    <3>3. \A i \in Oscs : i # o => e.osc[i].rank = d.osc[i].rank
      BY <1>3, <3>2
    <3>4. JoinsQueue(c) \in BOOLEAN /\ (JoinsQueue(c) => c.rank = 0)
      BY DEF JoinsQueue
    <3> HIDE DEF c
    <3>5. JoinsQueue(c) => d.osc[o].rank = 0
      BY <3>4 DEF c
    <3> QED  BY <1>0, <1>3, <3>1, <3>3, <3>4, <3>5, JoinKeeps
  <2>7. \A i \in Oscs : OscOK(e.osc[i], i, e.num, e.behind, X)
    BY <1>0, <1>3, <2>4, <2>5 DEF Good
  <2> QED  BY <1>2, <1>3, <2>6, <2>7 DEF Good, e
<1> QED  BY <1>5, <1>6

-----------------------------------------------------------------------------
(* The turns                                                                *)

(* One that was played, and a partner it starts, has come further.          *)
LEMMA AtRises ==
  ASSUME NEW X, NEW d, Good(d, X), NEW o \in Oscs, o < d.num, d.osc[o].running,
         d.osc[o].at < d.behind, NEW e, PlayOf(e, d, o, d.behind)
  PROVE  /\ e.osc[o].running => e.osc[o].at > d.osc[o].at
         /\ e.osc[Partner(o)] = d.osc[Partner(o)] \/ e.osc[Partner(o)].at > d.osc[o].at
<1> DEFINE c == d.osc[o]
           p == Partner(o)
           now == d.behind
<1>1. c \in Osc /\ now \in Int /\ LengthOf(c)
  BY LengthIs DEF Good, OscOK, Docs
<1>2. CASE ~(Length(c) <= now - c.at)
  BY <1>1, <1>2 DEF PlayOf, PlayedOnOf
<1>3. CASE Length(c) <= now - c.at
  <2>1. EndOf(e, d, o, c.ie \/ d.osc[p].ie, c.at + Length(c), now, Whole(c))
    BY <1>3 DEF PlayOf
  <2>2. c.at + Length(c) > c.at
    BY <1>1 DEF LengthOf
  <2>3. e.osc[o].running => e.osc[o].at = c.at + Length(c)
    BY <2>1 DEF EndOf, StartsOf
  <2>4. e.osc[p] = d.osc[p] \/ e.osc[p].at = c.at + Length(c)
    BY <2>1 DEF EndOf, StartsOf
  <2> QED  BY <2>2, <2>3, <2>4
<1> QED  BY <1>2, <1>3

(* The states Scan goes through: once it is idle, those it has passed are   *)
(* up to now.                                                               *)
Turning(X, num, now) ==
  {s \in [doc : Docs, o : 0..NumOscs, idle : BOOLEAN] :
     /\ Good(s.doc, X) /\ s.doc.num = num /\ s.doc.behind = now /\ s.o <= num
     /\ s.idle => \A i \in Oscs : i < s.o /\ s.doc.osc[i].running => s.doc.osc[i].at >= now}

(* The scan has come past low in all of the oscillators; it is the turn of  *)
(* the next for the j-th time.                                              *)
Runs(s, num, low, high) ==
  \A i \in Oscs : i < num /\ s.doc.osc[i].running =>
    s.doc.osc[i].at >= low /\ (i < s.o => s.doc.osc[i].at >= high)
(* The turns for a sample of all; n turns are not too many for where it is  *)
Pass(num, now) == num * (now + 1) + 1
At(s, n, num, now, low, j) ==
  /\ low <= now /\ j <= now
  /\ n <= low * Pass(num, now) + s.o * (now + 1) + j
  /\ s.o = num => j = 0
  /\ Runs(s, num, low, IF low < now THEN low + 1 ELSE low)
  /\ s.o < num /\ s.doc.osc[s.o].running => s.doc.osc[s.o].at >= j
  /\ low = now => s.idle
Ended(s, num) == s.o = num /\ s.idle
InTime(s, n, num, now) == Ended(s, num) \/ \E low, j \in Nat : At(s, n, num, now, low, j)

(* One there is nothing to play of                                          *)
Asleep(s, now) == ~s.doc.osc[s.o].running \/ s.doc.osc[s.o].at >= now

(* The four kinds of turn                                                   *)
TurnKind(s, t, num, now) ==
  \/ Ended(s, num) /\ t = s
  \/ s.o = num /\ ~s.idle /\ t = [s EXCEPT !.o = 0, !.idle = TRUE]
  \/ s.o < num /\ Asleep(s, now) /\ t = [s EXCEPT !.o = @ + 1]
  \/ /\ s.o < num /\ ~Asleep(s, now)
     /\ \E again \in BOOLEAN :
          t = [doc |-> PlayOne(s.doc, s.o, now), o |-> IF again THEN s.o ELSE s.o + 1,
            idle |-> FALSE]

(* Each turn is of one of the kinds,                                        *)
LEMMA TurnIs ==
  ASSUME NEW X, NEW num, NEW now, NEW s \in Turning(X, num, now)
  PROVE  TurnKind(s, Turn(s, now), num, now)
<1>1. s.o \in Int /\ num \in Int /\ s.o <= num /\ s.doc.num = num /\ s.idle \in BOOLEAN
  BY DEF Turning, Docs
<1> DEFINE c == s.doc.osc[s.o]
           again == (c.silent \/ c.left = 0) /\ c.left <= now - c.at
<1>2. again \in BOOLEAN
  OBVIOUS
<1>3. Turn(s, now) =
        IF s.o = num THEN IF s.idle THEN s ELSE [s EXCEPT !.o = 0, !.idle = TRUE]
        ELSE IF Asleep(s, now) THEN [s EXCEPT !.o = @ + 1]
        ELSE [doc |-> PlayOne(s.doc, s.o, now), o |-> IF again THEN s.o ELSE s.o + 1,
          idle |-> FALSE]
  BY <1>1, Zenon DEF Turn, Asleep
<1> HIDE DEF again
<1>4. s.o = num \/ s.o < num
  BY <1>1
<1> QED  BY <1>1, <1>2, <1>3, <1>4 DEF TurnKind, Ended

(* and keeps the states of Scan,                                            *)
LEMMA TurnKeeps ==
  ASSUME NEW X, NEW num, NEW now, NEW s \in Turning(X, num, now)
  PROVE  Turn(s, now) \in Turning(X, num, now)
<1> DEFINE t == Turn(s, now)
<1>1. TurnKind(s, t, num, now)
  BY TurnIs
<1>2. /\ s.doc \in Docs /\ s.o \in 0..NumOscs /\ s.idle \in BOOLEAN /\ num \in 1..NumOscs
      /\ now \in Nat
      /\ Good(s.doc, X) /\ s.doc.num = num /\ s.doc.behind = now /\ s.o <= num
      /\ s.idle => \A i \in Oscs : i < s.o /\ s.doc.osc[i].running => s.doc.osc[i].at >= now
      /\ s = [doc |-> s.doc, o |-> s.o, idle |-> s.idle]
      /\ NumOscs \in Nat
  BY DocAssumption DEF Turning, Docs
<1> SUFFICES t \in Turning(X, num, now)
  OBVIOUS
<1> HIDE DEF t
<1>3. CASE Ended(s, num) /\ t = s
  BY <1>3
<1>4. CASE s.o = num /\ ~s.idle /\ t = [s EXCEPT !.o = 0, !.idle = TRUE]
  <2>1. t = [doc |-> s.doc, o |-> 0, idle |-> TRUE]
    BY <1>2, <1>4
  <2>2. t \in [doc : Docs, o : 0..NumOscs, idle : BOOLEAN] /\ 0 <= num
    BY <1>2, <2>1
  <2>3. \A i \in Oscs : ~(i < 0)
    BY DEF Oscs
  <2> QED  BY <1>2, <2>1, <2>2, <2>3 DEF Turning
<1>5. CASE s.o < num /\ Asleep(s, now) /\ t = [s EXCEPT !.o = @ + 1]
  <2>1. t = [doc |-> s.doc, o |-> s.o + 1, idle |-> s.idle]
    BY <1>2, <1>5
  <2>2. s.o + 1 \in 0..NumOscs /\ s.o + 1 <= num
    BY <1>2, <1>5
  <2>3. ASSUME s.idle, NEW i \in Oscs, i < s.o + 1, s.doc.osc[i].running
               PROVE s.doc.osc[i].at >= now
    <3>1. i < s.o \/ i = s.o
      BY <1>2, <2>3 DEF Oscs
    <3> QED  BY <1>2, <1>5, <2>3, <3>1 DEF Asleep
  <2>4. t \in [doc : Docs, o : 0..NumOscs, idle : BOOLEAN]
    BY <1>2, <2>1, <2>2
  <2> QED  BY <1>2, <2>1, <2>2, <2>3, <2>4 DEF Turning
<1>6. ASSUME s.o < num, ~Asleep(s, now), NEW again \in BOOLEAN,
             t = [doc |-> PlayOne(s.doc, s.o, now), o |-> IF again THEN s.o ELSE s.o + 1,
               idle |-> FALSE]
      PROVE  t \in Turning(X, num, now)
  <2>1. s.o \in Oscs /\ s.doc.osc[s.o] \in Osc
    BY <1>2, <1>6 DEF Oscs, Docs
  <2>2. s.doc.osc[s.o].running /\ s.doc.osc[s.o].at < now
    BY <1>2, <1>6, <2>1 DEF Asleep, Osc
  <2> DEFINE e == PlayOne(s.doc, s.o, now)
  <2>3. PlayOf(e, s.doc, s.o, now) /\ Good(e, X)
    BY <1>2, <1>6, <2>1, <2>2, PlayKeeps
  <2> HIDE DEF e
  <2>4. e \in Docs /\ e.num = num /\ e.behind = now
    BY <1>2, <2>3 DEF PlayOf
  <2>5. t.doc = e /\ t.o <= num /\ t.idle = FALSE /\ t.o \in 0..NumOscs
        /\ t \in [doc : Docs, o : 0..NumOscs, idle : BOOLEAN]
    <3>1. t = [doc |-> e, o |-> IF again THEN s.o ELSE s.o + 1, idle |-> FALSE]
      BY <1>6 DEF e
    <3>2. s.o + 1 \in 0..NumOscs /\ s.o + 1 <= num
      BY <1>2, <1>6
    <3> QED  BY <1>2, <2>4, <3>1, <3>2
  <2> QED  BY <2>3, <2>4, <2>5 DEF Turning
<1>7. CASE s.o < num /\ ~Asleep(s, now)
           /\ \E again \in BOOLEAN :
                t = [doc |-> PlayOne(s.doc, s.o, now), o |-> IF again THEN s.o ELSE s.o + 1,
                  idle |-> FALSE]
  BY <1>6, <1>7
<1> QED  BY <1>1, <1>3, <1>4, <1>5, <1>7, Zenon DEF TurnKind

(* How the turns for a sample and for an oscillator add up                  *)
LEMMA Products ==
  ASSUME NEW low \in Nat, NEW o \in Nat, NEW num \in Nat, NEW now \in Nat
  PROVE  /\ (low + 1) * Pass(num, now) = low * Pass(num, now) + num * (now + 1) + 1
         /\ (o + 1) * (now + 1) = o * (now + 1) + now + 1
         /\ low * Pass(num, now) \in Nat /\ o * (now + 1) \in Nat
<1> DEFINE w == num * (now + 1)
<1>1. w \in Nat
  OBVIOUS
<1>2. Pass(num, now) = w + 1
  BY DEF Pass
<1> HIDE DEF w
<1>3. (low + 1) * (w + 1) = low * (w + 1) + w + 1
  BY <1>1
<1>4. (o + 1) * (now + 1) = o * (now + 1) + now + 1
  OBVIOUS
<1>5. low * (w + 1) \in Nat /\ o * (now + 1) \in Nat
  BY <1>1
<1> QED  BY <1>2, <1>3, <1>4, <1>5 DEF w

(* and comes closer to the end: the sample, the oscillator or the number of *)
(* its turns has gone up.                                                   *)
LEMMA TurnInTime ==
  ASSUME NEW X, NEW num, NEW now, NEW s \in Turning(X, num, now), NEW n \in Nat,
         InTime(s, n, num, now)
  PROVE  InTime(Turn(s, now), n + 1, num, now)
<1> DEFINE t == Turn(s, now)
<1>1. TurnKind(s, t, num, now) /\ t \in Turning(X, num, now)
  BY TurnIs, TurnKeeps
<1>2. /\ s.doc \in Docs /\ s.o \in 0..NumOscs /\ s.idle \in BOOLEAN /\ num \in 1..NumOscs
      /\ now \in Nat
      /\ Good(s.doc, X) /\ s.doc.num = num /\ s.doc.behind = now /\ s.o <= num
      /\ s = [doc |-> s.doc, o |-> s.o, idle |-> s.idle]
      /\ NumOscs \in Nat /\ s.o \in Nat /\ num \in Nat
      /\ \A i \in Oscs : s.doc.osc[i] \in Osc /\ s.doc.osc[i].at \in Int
  BY DocAssumption DEF Turning, Docs, Osc
<1> SUFFICES InTime(t, n + 1, num, now)
  OBVIOUS
<1> HIDE DEF t
<1>3. CASE Ended(s, num)
  <2>1. t = s
    BY <1>1, <1>2, <1>3 DEF TurnKind, Ended
  <2> QED  BY <1>3, <2>1 DEF InTime
<1>4. CASE ~Ended(s, num)
  <2>1. PICK low, j \in Nat : At(s, n, num, now, low, j)
    BY <1>4 DEF InTime
  <2>2. /\ low <= now /\ j <= now
        /\ n <= low * Pass(num, now) + s.o * (now + 1) + j
        /\ s.o = num => j = 0
        /\ Runs(s, num, low, IF low < now THEN low + 1 ELSE low)
        /\ s.o < num /\ s.doc.osc[s.o].running => s.doc.osc[s.o].at >= j
        /\ low = now => s.idle
    BY <2>1 DEF At
  <2>3. /\ (low + 1) * Pass(num, now) = low * Pass(num, now) + num * (now + 1) + 1
        /\ (s.o + 1) * (now + 1) = s.o * (now + 1) + now + 1
        /\ low * Pass(num, now) \in Nat /\ s.o * (now + 1) \in Nat
    BY <1>2, Products
  <2>4. CASE s.o = num /\ ~s.idle /\ t = [s EXCEPT !.o = 0, !.idle = TRUE]
    <3>1. t = [doc |-> s.doc, o |-> 0, idle |-> TRUE]
      BY <1>2, <2>4
    <3>2. low < now /\ low + 1 <= now /\ low + 1 \in Nat /\ j = 0
      BY <1>2, <2>2, <2>4
    <3>3. n + 1 <= (low + 1) * Pass(num, now)
      BY <2>2, <2>3, <2>4, <3>2
    <3>4. Runs(t, num, low + 1, IF low + 1 < now THEN low + 1 + 1 ELSE low + 1)
      <4>1. \A i \in Oscs : i < num /\ s.doc.osc[i].running => s.doc.osc[i].at >= low + 1
        BY <2>2, <2>4, <3>2 DEF Runs
      <4>2. \A i \in Oscs : ~(i < 0)
        BY DEF Oscs
      <4> QED  BY <3>1, <4>1, <4>2 DEF Runs
    <3>5. 0 < num /\ s.doc.osc[0].running => s.doc.osc[0].at >= 0
      <4>1. 0 \in Oscs
        BY DocAssumption DEF Oscs
      <4> QED  BY <1>2, <4>1 DEF Good, OscOK
    <3>6. At(t, n + 1, num, now, low + 1, 0)
      <4>1. 0 * (now + 1) = 0
        BY <1>2
      <4>2. (low + 1) * Pass(num, now) \in Nat
        BY <2>3, <1>2
      <4>3. n + 1 <= (low + 1) * Pass(num, now) + 0 * (now + 1) + 0
        BY <3>3, <4>1, <4>2
      <4> QED  BY <3>1, <3>2, <3>4, <3>5, <4>3, <1>2 DEF At
    <3> QED  BY <3>2, <3>6 DEF InTime
  <2>5. CASE s.o < num /\ Asleep(s, now) /\ t = [s EXCEPT !.o = @ + 1]
    <3>1. t = [doc |-> s.doc, o |-> s.o + 1, idle |-> s.idle]
      BY <1>2, <2>5
    <3>2. n + 1 <= low * Pass(num, now) + (s.o + 1) * (now + 1) + 0
      BY <2>2, <2>3, <1>2
    <3>3. Runs(t, num, low, IF low < now THEN low + 1 ELSE low)
      <4> SUFFICES ASSUME NEW i \in Oscs, i < num, s.doc.osc[i].running
                   PROVE  /\ s.doc.osc[i].at >= low
                          /\ i < s.o + 1 => s.doc.osc[i].at >= IF low < now THEN low + 1 ELSE low
        BY <3>1 DEF Runs
      <4>1. i \in Nat
        BY DEF Oscs
      <4>2. CASE i = s.o
        <5>1. s.doc.osc[i].at >= now
          BY <2>5, <4>2 DEF Asleep
        <5> QED  BY <5>1, <1>2, <2>2
      <4>3. CASE i # s.o
        BY <1>2, <2>2, <4>1, <4>3 DEF Runs
      <4> QED  BY <4>2, <4>3
    <3>4. t.o < num /\ t.doc.osc[t.o].running => t.doc.osc[t.o].at >= 0
      <4>1. t.o < num => t.o \in Oscs
        BY <3>1, <1>2 DEF Oscs
      <4> QED  BY <3>1, <4>1, <1>2 DEF Good, OscOK
    <3>5. At(t, n + 1, num, now, low, 0)
      BY <3>1, <3>2, <3>3, <3>4, <1>2, <2>2 DEF At
    <3> QED  BY <3>5 DEF InTime
  <2>6. ASSUME s.o < num, ~Asleep(s, now), NEW again \in BOOLEAN,
               t = [doc |-> PlayOne(s.doc, s.o, now), o |-> IF again THEN s.o ELSE s.o + 1,
                 idle |-> FALSE]
        PROVE  InTime(t, n + 1, num, now)
    <3> DEFINE o == s.o
               c == s.doc.osc[o]
               p == Partner(o)
               e == PlayOne(s.doc, o, now)
    <3>1. o \in Oscs /\ c \in Osc /\ c.at \in Int /\ p \in Oscs /\ p # o
      <4>1. o \in Oscs
        BY <1>2, <2>6 DEF Oscs
      <4> QED  BY <4>1, <1>2, PartnerIs
    <3>2. c.running /\ c.at < now
      BY <1>2, <2>6, <3>1 DEF Asleep
    <3>3. PlayOf(e, s.doc, o, now) /\ Good(e, X)
      BY <1>2, <2>6, <3>1, <3>2, PlayKeeps
    <3>0. t.doc = e /\ t.o = (IF again THEN o ELSE o + 1) /\ t.idle = FALSE
      BY <2>6
    <3> HIDE DEF e
    <3>4. /\ e.osc[o].running => e.osc[o].at > c.at
          /\ e.osc[p] = s.doc.osc[p] \/ e.osc[p].at > c.at
      BY <1>2, <2>6, <3>1, <3>2, <3>3, AtRises
    <3>5. c.at >= low /\ c.at >= j /\ low < now /\ j < now
      BY <1>2, <2>2, <2>6, <3>1, <3>2 DEF Runs
    <3>6. \A i \in Oscs : e.osc[i].at \in Int
      BY <3>3 DEF Good, Docs, Osc
    <3>7. \A i \in Oscs : i # o /\ i # p => e.osc[i] = s.doc.osc[i]
      BY <3>3 DEF PlayOf
    <3>8. ASSUME NEW i \in Oscs, i < num, e.osc[i].running
          PROVE  e.osc[i].at >= low /\ (i < t.o => e.osc[i].at >= low + 1)
      <4>0. i \in Nat /\ (i < t.o => i < o \/ i = o)
        BY <1>2, <3>0 DEF Oscs
      <4>1. CASE i = o
        BY <3>4, <3>5, <3>6, <3>8, <4>1, <3>1
      <4>2. CASE e.osc[i] = s.doc.osc[i] /\ i # o
        BY <2>2, <3>5, <3>8, <4>0, <4>2 DEF Runs
      <4>3. CASE e.osc[i].at > c.at
        BY <3>1, <3>5, <3>6, <4>3
      <4> QED  BY <3>4, <3>7, <4>1, <4>2, <4>3
    <3>9. Runs(t, num, low, IF low < now THEN low + 1 ELSE low)
      BY <3>0, <3>5, <3>8 DEF Runs
    <3>10. CASE again
      <4>1. n + 1 <= low * Pass(num, now) + o * (now + 1) + (j + 1)
        BY <2>2, <2>3
      <4>2. t.doc.osc[t.o].running => t.doc.osc[t.o].at >= j + 1
        BY <3>0, <3>1, <3>4, <3>5, <3>6, <3>10
      <4>3. At(t, n + 1, num, now, low, j + 1)
        BY <3>0, <3>5, <3>9, <3>10, <4>1, <4>2, <2>6, <1>2, <2>2 DEF At
      <4> QED  BY <4>3 DEF InTime
    <3>11. CASE ~again
      <4>1. n + 1 <= low * Pass(num, now) + (o + 1) * (now + 1) + 0
        BY <2>2, <2>3, <1>2
      <4>2. t.o < num /\ t.doc.osc[t.o].running => t.doc.osc[t.o].at >= 0
        <5>1. t.o < num => t.o \in Oscs
          BY <3>0, <3>11, <1>2 DEF Oscs
        <5>2. e.num = num
          BY <3>3, <1>2 DEF PlayOf
        <5> QED  BY <3>0, <5>1, <5>2, <3>3 DEF Good, OscOK
      <4>3. At(t, n + 1, num, now, low, 0)
        BY <3>0, <3>5, <3>9, <3>11, <4>1, <4>2, <1>2, <2>2 DEF At
      <4> QED  BY <4>3 DEF InTime
    <3> QED  BY <3>10, <3>11
  <2>7. CASE s.o < num /\ ~Asleep(s, now)
             /\ \E again \in BOOLEAN :
                  t = [doc |-> PlayOne(s.doc, s.o, now), o |-> IF again THEN s.o ELSE s.o + 1,
                    idle |-> FALSE]
    BY <2>6, <2>7
  <2> QED  BY <1>1, <1>4, <2>4, <2>5, <2>7, Zenon DEF TurnKind
<1> QED  BY <1>3, <1>4

(* A product of a sum                                                       *)
LEMMA Distribute ==
  ASSUME NEW a \in Nat, NEW b \in Nat, NEW c \in Nat
  PROVE  (a + 1 + b) * c = a * c + c + b * c
  OBVIOUS

(* After enough turns the scan has ended.                                   *)
LEMMA EnoughTurns ==
  ASSUME NEW s, NEW num \in Nat, NEW now \in Nat, s.o \in Nat, s.o <= num,
         InTime(s, (now + 1) * Pass(num, now), num, now)
  PROVE  Ended(s, num)
<1>1. SUFFICES ASSUME ~Ended(s, num) PROVE FALSE
  OBVIOUS
<1>2. PICK low, j \in Nat : At(s, (now + 1) * Pass(num, now), num, now, low, j)
  BY <1>1 DEF InTime
<1> DEFINE w == Pass(num, now)
           q == num * (now + 1)
<1>3. w = q + 1 /\ q \in Nat
  BY DEF Pass
<1>4. s.o * (now + 1) + j <= q
  <2>1. CASE s.o = num
    BY <1>2, <2>1 DEF At
  <2>2. CASE s.o # num
    <3>1. s.o + 1 <= num /\ j <= now
      BY <2>2, <1>2 DEF At
    <3>2. PICK r \in Nat : num = s.o + 1 + r
      <4>1. num - (s.o + 1) \in Nat /\ num = s.o + 1 + (num - (s.o + 1))
        BY <3>1
      <4> QED  BY <4>1
    <3>3. q = s.o * (now + 1) + (now + 1) + r * (now + 1)
      <4>1. now + 1 \in Nat
        OBVIOUS
      <4> DEFINE a == s.o
                 c == now + 1
      <4>2. a \in Nat /\ c \in Nat /\ r \in Nat
        BY <3>2, <4>1
      <4> HIDE DEF a, c
      <4>3. (a + 1 + r) * c = a * c + c + r * c
        BY <4>2, Distribute
      <4> USE DEF a, c
      <4> QED  BY <3>2, <4>3
    <3>4. r * (now + 1) \in Nat /\ s.o * (now + 1) \in Nat
      BY <3>2
    <3> HIDE DEF q
    <3> QED  BY <3>1, <3>3, <3>4
  <2> QED  BY <2>1, <2>2
<1>5. (now + 1) * w <= low * w + q /\ low <= now
  <2>1. (now + 1) * w <= low * w + (s.o * (now + 1) + j) /\ low <= now
    <3>1. low * w \in Nat /\ s.o * (now + 1) \in Nat /\ (now + 1) * w \in Nat
      BY <1>3
    <3> HIDE DEF q, w
    <3>2. (now + 1) * w <= low * w + s.o * (now + 1) + j
      BY <1>2 DEF At, w
    <3> QED  BY <3>1, <3>2, <1>2 DEF At
  <2>2. low * w \in Nat /\ s.o * (now + 1) \in Nat /\ (now + 1) * w \in Nat
    BY <1>3
  <2> HIDE DEF q, w
  <2> QED  BY <1>3, <1>4, <2>1, <2>2
<1> HIDE DEF q, w
<1>6. PICK r \in Nat : now = low + r
  <2>1. now - low \in Nat /\ now = low + (now - low)
    BY <1>5
  <2> QED  BY <2>1
<1>7. (now + 1) * w = low * w + r * w + w /\ r * w \in Nat /\ low * w \in Nat
  BY <1>3, <1>6
<1> QED  BY <1>3, <1>5, <1>7

(* sound_play plays every oscillator up to now.                             *)
LEMMA TurnsKept ==
  ASSUME NEW X, NEW d, Good(d, X), d.behind > 0
  PROVE  LET h == Turns(FirstTurn(d), d.behind)
         IN  /\ h \in [Nat -> Turning(X, d.num, d.behind)] /\ h[0] = FirstTurn(d)
             /\ \A n \in Nat \ {0} : h[n] = Turn(h[n - 1], d.behind)
<1> DEFINE S == Turning(X, d.num, d.behind)
           start == FirstTurn(d)
<1>1. d \in Docs /\ d.num \in Nat /\ 0 \in 0..NumOscs
  BY DocAssumption DEF Good, Docs
<1>2. start \in S
  <2>1. start.doc = d /\ start.o = 0 /\ start.idle = TRUE
        /\ start \in [doc : Docs, o : 0..NumOscs, idle : BOOLEAN]
    BY <1>1 DEF FirstTurn
  <2>2. \A i \in Oscs : ~(i < 0)
    BY DEF Oscs
  <2> HIDE DEF start
  <2> QED  BY <1>1, <2>1, <2>2 DEF Turning
<1>3. \A s \in S : Turn(s, d.behind) \in S
  BY TurnKeeps
<1> HIDE DEF S, start
<1>4. /\ Turns(start, d.behind) \in [Nat -> S]
      /\ Turns(start, d.behind)[0] = start
      /\ \A n \in Nat \ {0} : Turns(start, d.behind)[n] = Turn(Turns(start, d.behind)[n - 1],
         d.behind)
  BY <1>2, <1>3, TurnsAre
<1> QED  BY <1>4 DEF S, start

(* Every oscillator that plays has been played up to now,                   *)
PlayedUp(e, d, X) ==
  /\ Good(e, X) /\ e.num = d.num /\ e.behind = d.behind
  /\ \A i \in Oscs : i < d.num /\ e.osc[i].running => e.osc[i].at = d.behind

(* when Scan has made its turns.                                            *)
LEMMA ScanEnds ==
  ASSUME NEW X, NEW d, Good(d, X), d.behind > 0
  PROVE  PlayedUp(Scan(d), d, X)
<1> DEFINE now == d.behind
           num == d.num
           h == Turns(FirstTurn(d), now)
           S == Turning(X, num, now)
<1>1. now \in Nat /\ num \in Nat /\ d \in Docs
  BY DocAssumption DEF Good, Docs
<1>2. /\ h \in [Nat -> S] /\ h[0] = FirstTurn(d)
      /\ \A n \in Nat \ {0} : h[n] = Turn(h[n - 1], now)
  BY TurnsKept
<1> HIDE DEF h
<1>3. \A n \in Nat : InTime(h[n], n, num, now)
  <2> DEFINE T == {n \in Nat : ~InTime(h[n], n, num, now)}
  <2>1. SUFFICES ASSUME T # {} PROVE FALSE
    OBVIOUS
  <2>2. PICK t \in T : \A y \in T : ~(y < t)
    BY <2>1, LeastOf
  <2>3. InTime(h[0], 0, num, now)
    <3>1. h[0].doc = d /\ h[0].o = 0 /\ h[0].idle = TRUE
      BY <1>2 DEF FirstTurn
    <3>2. Runs(h[0], num, 0, IF 0 < now THEN 1 ELSE 0)
      <4>1. \A i \in Oscs : ~(i < 0)
        BY DEF Oscs
      <4>2. \A i \in Oscs : i < num /\ d.osc[i].running => d.osc[i].at >= 0
        BY DEF Good, OscOK
      <4> QED  BY <3>1, <4>1, <4>2 DEF Runs
    <3>3. 0 <= 0 * Pass(num, now) + 0 * (now + 1) + 0
      BY <1>1 DEF Pass
    <3>4. 0 < num /\ d.osc[0].running => d.osc[0].at >= 0
      <4>1. 0 \in Oscs
        BY DocAssumption DEF Oscs
      <4> QED  BY <4>1 DEF Good, OscOK
    <3>5. At(h[0], 0, num, now, 0, 0)
      BY <1>1, <3>1, <3>2, <3>3, <3>4 DEF At
    <3> QED  BY <3>5 DEF InTime
  <2>4. t \in Nat /\ ~InTime(h[t], t, num, now)
    OBVIOUS
  <2> DEFINE m == t - 1
  <2>5. t # 0
    BY <2>3, <2>4
  <2>6. m \in Nat /\ t = m + 1 /\ InTime(h[m], m, num, now)
    <3>1. m \in Nat /\ m < t
      BY <2>4, <2>5
    <3>2. m \notin T
      BY <3>1, <2>2
    <3> QED  BY <3>1, <3>2
  <2>7. h[t] = Turn(h[m], now) /\ h[m] \in S
    BY <1>2, <2>4, <2>5, <2>6
  <2> HIDE DEF m, T
  <2>8. InTime(Turn(h[m], now), m + 1, num, now)
    BY <2>6, <2>7, TurnInTime
  <2> QED  BY <2>4, <2>6, <2>7, <2>8
<1> DEFINE k == Enough(d)
<1>4. k \in Nat /\ k = (now + 1) * Pass(num, now)
  <2>1. k = (now + 1) * (num * (now + 1) + 1)
    BY DEF Enough
  <2>2. num * (now + 1) \in Nat
    BY <1>1
  <2>3. (now + 1) * (num * (now + 1) + 1) \in Nat
    BY <1>1, <2>2
  <2> QED  BY <2>1, <2>3 DEF Pass
<1> HIDE DEF k
<1> DEFINE s == h[k]
<1>5. s \in S /\ InTime(s, k, num, now)
  BY <1>2, <1>3, <1>4
<1> HIDE DEF s
<1>6. /\ s.o \in Nat /\ s.o <= num /\ Good(s.doc, X) /\ s.doc.num = num /\ s.doc.behind = now
      /\ s.idle => \A i \in Oscs : i < s.o /\ s.doc.osc[i].running => s.doc.osc[i].at >= now
  BY <1>5 DEF Turning
<1>7. Ended(s, num)
  BY <1>1, <1>4, <1>5, <1>6, EnoughTurns
<1>8. \A i \in Oscs : i < num /\ s.doc.osc[i].running => s.doc.osc[i].at = now
  <2> SUFFICES ASSUME NEW i \in Oscs, i < num, s.doc.osc[i].running PROVE s.doc.osc[i].at = now
    OBVIOUS
  <2>1. s.doc.osc[i].at >= now
    BY <1>6, <1>7 DEF Ended
  <2>2. s.doc.osc[i].at <= now /\ s.doc.osc[i].at \in Int
    BY <1>6 DEF Good, OscOK, Docs, Osc
  <2> QED  BY <2>1, <2>2, <1>1
<1>9. Scan(d) = s.doc
  BY ScanIs DEF s, k, h
<1> QED  BY <1>6, <1>8, <1>9 DEF PlayedUp

-----------------------------------------------------------------------------
(* sound_play as a whole                                                    *)

(* It leaves alone what the program sets and the oscillators that are not   *)
(* enabled, and nobody leaves the queue.                                    *)
Leaving(e, d) ==
  /\ \A i \in Oscs : SetAs(e.osc[i], d.osc[i])
  /\ \A i \in Oscs : i >= d.num => e.osc[i] = d.osc[i]
  /\ e.count >= d.count

(* One oscillator leaves alone what it should,                              *)
LEMMA PlayLeaves ==
  ASSUME NEW X, NEW d, Good(d, X), NEW o \in Oscs, o < d.num, NEW e, NEW now, PlayOf(e, d, o, now)
  PROVE  Leaving(e, d)
<1> DEFINE c == d.osc[o]
           p == Partner(o)
<1>0. /\ p \in Oscs /\ p # o /\ d.count \in Nat /\ d.num \in Int
      /\ \A i \in Oscs : i # o /\ i # p => e.osc[i] = d.osc[i]
  BY PartnerIs, DocAssumption DEF PlayOf, Good, Docs
<1>1. CASE ~(Length(c) <= now - c.at)
  <2>1. PlayedOnOf(e.osc[o], c, now) /\ e.osc[p] = d.osc[p] /\ QueueAs(e, d, o, FALSE)
    BY <1>1 DEF PlayOf
  <2>2. SetAs(e.osc[o], c) /\ e.count = d.count
    BY <2>1 DEF PlayedOnOf, SetAs, QueueAs
  <2>3. \A i \in Oscs : i # o => e.osc[i] = d.osc[i]
    BY <1>0, <2>1
  <2>4. \A i \in Oscs : i >= d.num => e.osc[i] = d.osc[i]
    BY <2>3, <1>0 DEF Oscs
  <2>5. \A i \in Oscs : SetAs(e.osc[i], d.osc[i])
    BY <2>2, <2>3 DEF SetAs
  <2> QED  BY <1>0, <2>2, <2>4, <2>5 DEF Leaving
<1>2. CASE Length(c) <= now - c.at
  <2>1. EndOf(e, d, o, c.ie \/ d.osc[p].ie, c.at + Length(c), now, Whole(c))
    BY <1>2 DEF PlayOf
  <2>2. SetAs(e.osc[o], c) /\ e.count >= d.count
    BY <1>0, <2>1 DEF EndOf, QueueAs
  <2>3. SetAs(e.osc[p], d.osc[p]) /\ (e.osc[p] = d.osc[p] \/ p < d.num)
    BY <2>1 DEF EndOf, SetAs, TakesOver
  <2>4. \A i \in Oscs : i >= d.num => e.osc[i] = d.osc[i]
    <3> SUFFICES ASSUME NEW i \in Oscs, i >= d.num PROVE e.osc[i] = d.osc[i]
      OBVIOUS
    <3>1. i # o /\ ~(i < d.num)
      BY <1>0 DEF Oscs
    <3> QED  BY <1>0, <2>3, <3>1
  <2>5. \A i \in Oscs : SetAs(e.osc[i], d.osc[i])
    <3> SUFFICES ASSUME NEW i \in Oscs PROVE SetAs(e.osc[i], d.osc[i])
      OBVIOUS
    <3>1. CASE i # o /\ i # p
      BY <1>0, <3>1 DEF SetAs
    <3> QED  BY <2>2, <2>3, <3>1
  <2> QED  BY <2>2, <2>4, <2>5 DEF Leaving
<1> QED  BY <1>1, <1>2

(* and so do two, one after the other,                                      *)
LEMMA LeavingTwice ==
  ASSUME NEW d, NEW e, NEW f, Leaving(e, d), Leaving(f, e), e.num = d.num,
         d.count \in Nat, e.count \in Nat, f.count \in Nat
  PROVE  Leaving(f, d)
<1>1. f.count >= d.count
  BY DEF Leaving
<1> QED  BY <1>1 DEF Leaving, SetAs

(* and all of them.                                                         *)
LEMMA ScanLeaves ==
  ASSUME NEW X, NEW d, Good(d, X), d.behind > 0
  PROVE  Leaving(Scan(d), d)
<1> DEFINE now == d.behind
           h == Turns(FirstTurn(d), now)
           S == Turning(X, d.num, now)
           R == {s \in S : Leaving(s.doc, d)}
           start == FirstTurn(d)
<1>1. h \in [Nat -> S] /\ h[0] = start
  BY TurnsKept
<1>2. start \in R
  <2>1. start \in S /\ start.doc = d /\ d.count \in Nat
    <3>1. h[0] \in S
      BY <1>1
    <3> HIDE DEF h, S
    <3> QED  BY <1>1, <3>1, DocAssumption DEF FirstTurn, Good, Docs
  <2>2. Leaving(d, d)
    BY <2>1 DEF Leaving, SetAs
  <2> QED  BY <2>1, <2>2
<1>3. ASSUME NEW s \in R PROVE Turn(s, now) \in R
  <2> DEFINE t == Turn(s, now)
  <2>1. t \in S /\ TurnKind(s, t, d.num, now) /\ s \in S
    BY <1>3, TurnIs, TurnKeeps
  <2>2. /\ s.doc \in Docs /\ t.doc \in Docs /\ s.doc.num = d.num /\ d.count \in Nat
        /\ s.doc.count \in Nat
        /\ t.doc.count \in Nat
        /\ Good(s.doc, X) /\ s.doc.behind = now /\ s.o \in 0..NumOscs /\ s.idle \in BOOLEAN
        /\ s = [doc |-> s.doc, o |-> s.o, idle |-> s.idle] /\ NumOscs \in Nat /\ now \in Int
           /\ d.num \in 1..NumOscs
    BY <2>1, DocAssumption DEF Turning, Docs, Good
  <2> HIDE DEF t, S
  <2>3. CASE t.doc = s.doc
    BY <2>1, <2>3, <1>3 DEF t
  <2>4. CASE s.o < d.num /\ ~Asleep(s, now) /\ t.doc = PlayOne(s.doc, s.o, now)
    <3>1. s.o \in Oscs /\ s.doc.osc[s.o] \in Osc
      BY <2>2, <2>4 DEF Oscs, Docs
    <3>2. s.doc.osc[s.o].running /\ s.doc.osc[s.o].at < now
      BY <2>2, <2>4, <3>1 DEF Asleep, Osc
    <3>3. PlayOf(t.doc, s.doc, s.o, now)
      BY <2>2, <2>4, <3>1, <3>2, PlayKeeps
    <3>4. Leaving(t.doc, s.doc)
      BY <2>2, <2>4, <3>1, <3>3, PlayLeaves
    <3>5. Leaving(s.doc, d)
      BY <1>3
    <3>6. Leaving(t.doc, d)
      BY <2>2, <3>4, <3>5, LeavingTwice
    <3> QED  BY <2>1, <3>6 DEF t
  <2>5. t.doc = s.doc \/ (s.o < d.num /\ ~Asleep(s, now) /\ t.doc = PlayOne(s.doc, s.o, now))
    <3>1. s.doc = [s EXCEPT !.o = 0, !.idle = TRUE].doc /\ s.doc = [s EXCEPT !.o = @ + 1].doc
      BY <2>2
    <3>2. ASSUME NEW again,
                 t = [doc |-> PlayOne(s.doc, s.o, now), o |-> IF again THEN s.o ELSE s.o + 1,
                                 idle |-> FALSE]
          PROVE  t.doc = PlayOne(s.doc, s.o, now)
      BY <3>2
    <3> QED  BY <2>1, <3>1, <3>2, Zenon DEF TurnKind
  <2> QED  BY <2>3, <2>4, <2>5
<1>4. Turns(start, now) \in [Nat -> R]
  <2> HIDE DEF R, start
  <2> QED  BY <1>2, <1>3, TurnsAre
<1> DEFINE k == Enough(d)
<1>5. k \in Nat
  <2>1. now \in Nat /\ d.num \in Nat
    BY DocAssumption DEF Good, Docs
  <2>2. d.num * (now + 1) \in Nat
    BY <2>1
  <2> QED  BY <2>1, <2>2 DEF Enough
<1>6. Scan(d) = Turns(start, now)[k].doc
  BY ScanIs
<1> HIDE DEF R, start, k
<1>7. Turns(start, now)[k] \in R
  BY <1>4, <1>5
<1> QED  BY <1>6, <1>7 DEF R

(* Between two calls no time has been played, and the event of one that is  *)
(* to interrupt is when it ends, except of those in X.                      *)
Settled(d, X) ==
  \A i \in Oscs : LET c == d.osc[i] IN
    /\ c.at = 0
    /\ c.running /\ c.ie /\ i \notin X => c.event = {c.left - d.behind}

(* e is d after sound_play.                                                 *)
UpToDate(e, d, X) ==
  Good(e, X) /\ Settled(e, X) /\ e.num = d.num /\ e.behind = 0 /\ Leaving(e, d)

(* c with another time,                                                     *)
AtOf(e, c, x) ==
  /\ e \in Osc
  /\ e.halt = c.halt /\ e.mode = c.mode /\ e.ie = c.ie /\ e.running = c.running
  /\ e.wave = c.wave /\ e.silent = c.silent /\ e.pos = c.pos /\ e.at = x
  /\ e.left = c.left /\ e.event = c.event /\ e.rank = c.rank

(* which is all that changes.                                               *)
LEMMA AtIs ==
  ASSUME NEW c \in Osc, NEW x \in Int
  PROVE  AtOf([c EXCEPT !.at = x], c, x)
  BY DEF Osc, AtOf

(* e is d, with now as the new last time,                                   *)
RestedOf(e, d) ==
  /\ e \in Docs
  /\ \A i \in Oscs : AtOf(e.osc[i], d.osc[i], 0)
  /\ e.behind = 0 /\ e.num = d.num /\ e.e0 = d.e0 /\ e.count = d.count /\ e.irq = d.irq
  /\ e.halted = d.halted

(* which is what SoundPlay makes of what Scan has played.                   *)
LEMMA PlayedIs ==
  ASSUME NEW d, d.behind # 0, Scan(d) \in Docs
  PROVE  RestedOf(SoundPlay(d), Scan(d))
<1> DEFINE s == Scan(d)
           osc == [i \in Oscs |-> [s.osc[i] EXCEPT !.at = 0]]
           e == [s EXCEPT !.behind = 0, !.osc = osc]
<1>1. SoundPlay(d) = e
  <2>1. SoundPlay(d) = [s EXCEPT !.behind = 0, !.osc = [i \in Oscs |-> [@[i] EXCEPT !.at = 0]]]
    BY DEF SoundPlay
  <2>2. [s EXCEPT !.behind = 0].osc = s.osc
    BY DEF Docs
  <2> QED  BY <2>1, <2>2
<1> HIDE DEF s
<1>2. s \in Docs /\ 0 \in 0..MaxBehind
  BY DocAssumption DEF s
<1>3. \A i \in Oscs : AtOf(osc[i], s.osc[i], 0)
  BY <1>2, AtIs DEF Docs
<1>4. osc \in [Oscs -> Osc]
  BY <1>3 DEF AtOf
<1> HIDE DEF osc
<1>5. e \in Docs /\ e.osc = osc /\ e.behind = 0 /\ e.num = s.num /\ e.e0 = s.e0 /\ e.count = s.count
      /\ e.irq = s.irq /\ e.halted = s.halted
  BY <1>2, <1>4 DEF Docs
<1> HIDE DEF e
<1> QED  BY <1>1, <1>3, <1>5 DEF RestedOf, s

(* sound_play brings everything up to date, and forgets no end: an event is *)
(* on the list for each oscillator that is to interrupt.                    *)
LEMMA SoundPlayIs ==
  ASSUME NEW X, NEW d, Good(d, X), \A i \in Oscs : d.osc[i].at = 0
  PROVE  UpToDate(SoundPlay(d), d, X)
<1>0. d \in Docs /\ d.behind \in Nat /\ d.num \in Nat /\ d.count \in Nat
      /\ \A i \in Oscs : d.osc[i] \in Osc
  BY DocAssumption DEF Good, Docs
<1>1. CASE d.behind = 0
  <2>1. SoundPlay(d) = d
    BY <1>1 DEF SoundPlay
  <2>2. Leaving(d, d)
    BY <1>0 DEF Leaving, SetAs
  <2>3. ASSUME NEW i \in Oscs, d.osc[i].running, d.osc[i].ie, i \notin X
        PROVE  d.osc[i].event = {d.osc[i].left - d.behind}
    <3> DEFINE c == d.osc[i]
    <3>1. c \in Osc /\ OscOK(c, i, d.num, 0, X) /\ c.at = 0
      BY <1>0, <1>1 DEF Good
    <3>2. LengthOf(c)
      BY <2>3, <3>1, LengthIs DEF OscOK
    <3>3. c.event = {c.at + c.left - 0} \/ c.at + c.left <= 0
      BY <2>3, <3>1 DEF OscOK
    <3>4. ~(c.at + c.left <= 0) /\ c.at + c.left - 0 = c.left - 0
      BY <3>1, <3>2 DEF LengthOf
    <3> QED  BY <1>1, <3>3, <3>4
  <2> QED  BY <1>1, <2>1, <2>2, <2>3 DEF UpToDate, Settled
<1>2. CASE d.behind # 0
  <2> DEFINE s == Scan(d)
             e == SoundPlay(d)
  <2>1. PlayedUp(s, d, X) /\ Leaving(s, d)
    <3>1. d.behind > 0
      BY <1>0, <1>2
    <3> QED  BY <3>1, ScanEnds, ScanLeaves
  <2>2. s \in Docs
    BY <2>1 DEF PlayedUp, Good
  <2>3. RestedOf(e, s)
    BY <1>2, <2>2, PlayedIs
  <2> HIDE DEF e, s
  <2>4. e \in Docs /\ e.halted = FALSE /\ e.num = d.num /\ e.behind = 0
    BY <2>1, <2>3 DEF RestedOf, PlayedUp, Good
  <2>5. RankOK(e)
    <3>1. \A i \in Oscs : e.osc[i].rank = s.osc[i].rank
      BY <2>3 DEF RestedOf, AtOf
    <3>2. RankOK(s) /\ e.count = s.count /\ e.irq = s.irq /\ e.e0 = s.e0 /\ e.num = s.num
      BY <2>1, <2>3 DEF RestedOf, PlayedUp, Good
    <3> QED  BY <3>1, <3>2 DEF RankOK
  <2>6. ASSUME NEW i \in Oscs
        PROVE  /\ OscOK(e.osc[i], i, e.num, 0, X) /\ e.osc[i].at = 0
               /\ e.osc[i].running /\ e.osc[i].ie /\ i \notin X
                  => e.osc[i].event = {e.osc[i].left - 0}
    <3> DEFINE c == s.osc[i]
               f == e.osc[i]
    <3>1. AtOf(f, c, 0) /\ OscOK(c, i, d.num, d.behind, X) /\ c \in Osc
      BY <2>1, <2>2, <2>3 DEF RestedOf, PlayedUp, Good, Docs
    <3>2. i < d.num /\ c.running => c.at = d.behind
      BY <2>1 DEF PlayedUp
    <3> HIDE DEF c, f
    <3>3. f.running = ~f.halt /\ f.pos < f.wave.size /\ (\E t \in Int : f.event \subseteq {t})
          /\ f.at = 0
      BY <3>1 DEF AtOf, OscOK
    <3>4. ASSUME f.running
          PROVE  /\ (i < d.num \/ i \in X) /\ Shape(f)
                 /\ f.ie /\ i \notin X => f.event = {f.left - 0} /\ f.event = {f.at + f.left - 0}
      <4>1. c.running /\ (i < d.num \/ i \in X) /\ Shape(c) /\ c.pos < c.wave.size
        BY <3>1, <3>4 DEF AtOf, OscOK
      <4>2. Shape(f)
        BY <3>1, <4>1 DEF AtOf, Shape, MeetsZero
      <4>3. LengthOf(c)
        BY <3>1, <4>1, LengthIs
      <4>4. ASSUME f.ie, i \notin X PROVE f.event = {f.left - 0} /\ f.event = {f.at + f.left - 0}
        <5>1. c.at = d.behind /\ c.ie
          BY <3>1, <3>2, <4>1, <4>4 DEF AtOf
        <5>2. c.event = {c.at + c.left - d.behind} \/ c.at + c.left <= d.behind
          BY <3>1, <4>1, <4>4, <5>1 DEF OscOK
        <5>3. c.event = {c.left}
          <6>1. ~(c.at + c.left <= d.behind) /\ c.at + c.left - d.behind = c.left
            BY <1>0, <4>3, <5>1 DEF LengthOf
          <6> QED  BY <5>2, <6>1
        <5>4. f.event = {c.left} /\ f.left = c.left /\ f.at = 0 /\ c.left \in Int
          BY <3>1, <4>3, <5>3 DEF AtOf, LengthOf
        <5>5. f.left - 0 = c.left /\ f.at + f.left - 0 = c.left
          BY <5>4
        <5> QED  BY <5>4, <5>5
      <4> QED  BY <4>1, <4>2, <4>4
    <3> QED  BY <2>4, <3>3, <3>4 DEF OscOK, f
  <2>7. Leaving(e, d)
    <3>1. \A i \in Oscs : SetAs(e.osc[i], d.osc[i])
      BY <2>1, <2>3 DEF Leaving, SetAs, RestedOf, AtOf
    <3>2. \A i \in Oscs : i >= d.num => e.osc[i] = d.osc[i]
      <4> SUFFICES ASSUME NEW i \in Oscs, i >= d.num PROVE e.osc[i] = d.osc[i]
        OBVIOUS
      <4>1. s.osc[i] = d.osc[i] /\ d.osc[i] \in Osc /\ d.osc[i].at = 0
        BY <1>0, <2>1 DEF Leaving
      <4>2. AtOf(e.osc[i], d.osc[i], 0)
        BY <2>3, <4>1 DEF RestedOf
      <4> QED  BY <4>1, <4>2 DEF AtOf, Osc
    <3> QED  BY <2>1, <2>3, <3>1, <3>2 DEF Leaving, RestedOf
  <2>8. Good(e, X) /\ Settled(e, X)
    BY <2>4, <2>5, <2>6 DEF Good, Settled
  <2> QED  BY <2>4, <2>7, <2>8 DEF UpToDate, e
<1> QED  BY <1>1, <1>2

-----------------------------------------------------------------------------
(* What is played does not depend on the events and the queue.              *)

(* c and e play alike.                                                      *)
SameFlow(c, e) ==
  /\ c.halt = e.halt /\ c.running = e.running /\ c.pos = e.pos /\ c.left = e.left /\ c.at = e.at
  /\ SetAs(c, e)

(* Two states with the same oscillators, and if full is true, the same      *)
(* queue                                                                    *)
Twins(a, b, full) ==
  /\ a.num = b.num /\ a.behind = b.behind
  /\ \A i \in Oscs : SameFlow(a.osc[i], b.osc[i])
  /\ full => a.count = b.count /\ \A i \in Oscs : a.osc[i].rank = b.osc[i].rank

(* Playing an oscillator keeps two states alike,                            *)
LEMMA PlayTwins ==
  ASSUME NEW a, NEW b, NEW full, Twins(a, b, full), NEW o \in Oscs, NEW now,
         NEW e, NEW f, PlayOf(e, a, o, now), PlayOf(f, b, o, now)
  PROVE  Twins(e, f, full)
<1> DEFINE c == a.osc[o]
           d == b.osc[o]
           p == Partner(o)
<1>0. p \in Oscs /\ p # o
  BY PartnerIs
<1>1. /\ e.num = f.num /\ e.behind = f.behind
      /\ \A i \in Oscs : i # o /\ i # p => SameFlow(e.osc[i], f.osc[i])
      /\ \A i \in Oscs : i # o /\ i # p => e.osc[i] = a.osc[i] /\ f.osc[i] = b.osc[i]
      /\ a.num = b.num
  BY DEF Twins, PlayOf
<1>2. SameFlow(c, d) /\ SameFlow(a.osc[p], b.osc[p])
  BY <1>0 DEF Twins
<1>3. Length(c) = Length(d) /\ c.at = d.at /\ Whole(c) = Whole(d)
  BY <1>2 DEF SameFlow, SetAs, Length, Stop, MeetsZero, Whole
<1>4. full => JoinsQueue(c) = JoinsQueue(d) /\ a.count = b.count /\ c.rank = d.rank
  BY <1>2 DEF SameFlow, SetAs, JoinsQueue, Twins
<1>5. /\ SameFlow(e.osc[o], f.osc[o]) /\ SameFlow(e.osc[p], f.osc[p])
      /\ full => e.count = f.count /\ e.osc[o].rank = f.osc[o].rank /\ e.osc[p].rank = f.osc[p].rank
  <2>1. CASE ~(Length(c) <= now - c.at)
    <3>1. /\ PlayedOnOf(e.osc[o], c, now) /\ e.osc[p] = a.osc[p] /\ QueueAs(e, a, o, FALSE)
          /\ PlayedOnOf(f.osc[o], d, now) /\ f.osc[p] = b.osc[p] /\ QueueAs(f, b, o, FALSE)
      BY <1>3, <2>1 DEF PlayOf
    <3>2. SameFlow(e.osc[o], f.osc[o])
      BY <1>2, <3>1 DEF PlayedOnOf, SameFlow, SetAs
    <3>3. full => e.count = f.count /\ e.osc[o].rank = f.osc[o].rank
          /\ e.osc[p].rank = f.osc[p].rank
      BY <1>0, <1>4, <3>1 DEF QueueAs, Twins
    <3> QED  BY <1>2, <3>1, <3>2, <3>3
  <2>2. CASE Length(c) <= now - c.at
    <3> DEFINE w == c.ie \/ a.osc[p].ie
               v == d.ie \/ b.osc[p].ie
               eff == c.at + Length(c)
    <3>1. EndOf(e, a, o, w, eff, now, Whole(c)) /\ EndOf(f, b, o, v, eff, now, Whole(d))
      BY <1>3, <2>2 DEF PlayOf
    <3>2. w <=> v
      BY <1>2 DEF SameFlow, SetAs
    <3>3. Whole(c) <=> Whole(d)
      BY <1>3
    <3>4. (Repeats(a, o, Whole(c)) <=> Repeats(b, o, Whole(d)))
          /\ (TakesOver(a, o, Whole(c)) <=> TakesOver(b, o, Whole(d)))
      BY <1>1, <1>2, <3>3 DEF Repeats, TakesOver, SameFlow, SetAs
    <3> HIDE DEF w, v, eff
    <3>5. SameFlow(e.osc[o], f.osc[o])
      <4>1. SetAs(e.osc[o], f.osc[o]) /\ e.osc[o].pos = f.osc[o].pos
        BY <1>2, <3>1 DEF EndOf, SetAs, SameFlow
      <4>2. CASE Repeats(a, o, Whole(c))
        <5>1. StartsOf(e.osc[o], w, eff, now) /\ StartsOf(f.osc[o], v, eff, now)
          BY <3>1, <3>4, <4>2 DEF EndOf
        <5> QED  BY <3>2, <4>1, <5>1 DEF StartsOf, Waits, MeetsZero, SameFlow, SetAs
      <4>3. CASE ~Repeats(a, o, Whole(c))
        <5>1. /\ e.osc[o].running = FALSE /\ e.osc[o].halt = TRUE
              /\ f.osc[o].running = FALSE /\ f.osc[o].halt = TRUE
              /\ e.osc[o].left = 0 /\ e.osc[o].at = now /\ f.osc[o].left = 0 /\ f.osc[o].at = now
          BY <3>1, <3>4, <4>3 DEF EndOf
        <5> QED  BY <4>1, <5>1 DEF SameFlow
      <4> QED  BY <4>2, <4>3
    <3>6. SameFlow(e.osc[p], f.osc[p])
      <4>2. CASE TakesOver(a, o, Whole(c))
        <5>1. /\ StartsOf(e.osc[p], w, eff, now) /\ StartsOf(f.osc[p], v, eff, now)
              /\ SetAs(e.osc[p], a.osc[p]) /\ SetAs(f.osc[p], b.osc[p])
              /\ e.osc[p].pos = a.osc[p].pos /\ f.osc[p].pos = b.osc[p].pos
          BY <3>1, <3>4, <4>2 DEF EndOf
        <5>2. SetAs(e.osc[p], f.osc[p]) /\ e.osc[p].pos = f.osc[p].pos
          BY <1>2, <5>1 DEF SetAs, SameFlow
        <5> QED  BY <3>2, <5>1, <5>2, ZenonT(40) DEF StartsOf, Waits, MeetsZero, SameFlow, SetAs
      <4>3. CASE ~TakesOver(a, o, Whole(c))
        <5>1. e.osc[p] = a.osc[p] /\ f.osc[p] = b.osc[p]
          BY <3>1, <3>4, <4>3 DEF EndOf
        <5> QED  BY <1>2, <5>1
      <4> QED  BY <4>2, <4>3
    <3>7. ASSUME full PROVE e.count = f.count /\ e.osc[o].rank = f.osc[o].rank
                 /\ e.osc[p].rank = f.osc[p].rank
      <4>1. QueueAs(e, a, o, JoinsQueue(c)) /\ QueueAs(f, b, o, JoinsQueue(d))
        BY <3>1 DEF EndOf
      <4>2. e.osc[p].rank = a.osc[p].rank /\ f.osc[p].rank = b.osc[p].rank
        BY <3>1 DEF EndOf
      <4>3. a.osc[p].rank = b.osc[p].rank
        BY <1>0, <3>7 DEF Twins
      <4>4. (JoinsQueue(c) <=> JoinsQueue(d)) /\ a.count = b.count /\ c.rank = d.rank
        BY <1>4, <3>7
      <4> QED  BY <4>1, <4>2, <4>3, <4>4 DEF QueueAs
    <3> QED  BY <3>5, <3>6, <3>7
  <2> QED  BY <2>1, <2>2
<1>6. \A i \in Oscs : SameFlow(e.osc[i], f.osc[i])
  BY <1>1, <1>5
<1>7. ASSUME full PROVE e.count = f.count /\ \A i \in Oscs : e.osc[i].rank = f.osc[i].rank
  <2>1. \A i \in Oscs : a.osc[i].rank = b.osc[i].rank
    BY <1>7 DEF Twins
  <2> QED  BY <1>1, <1>5, <1>7, <2>1
<1> QED  BY <1>1, <1>6, <1>7 DEF Twins

(* and so does a turn                                                       *)
TwinTurns(s, t, full) == s.o = t.o /\ s.idle = t.idle /\ Twins(s.doc, t.doc, full)

(* in each of them,                                                         *)
LEMMA TurnTwins ==
  ASSUME NEW X, NEW Y, NEW num, NEW now, NEW s \in Turning(X, num, now),
         NEW t \in Turning(Y, num, now),
         NEW full, TwinTurns(s, t, full)
  PROVE  TwinTurns(Turn(s, now), Turn(t, now), full)
<1>1. /\ s.doc \in Docs /\ s.o \in 0..NumOscs /\ s.idle \in BOOLEAN /\ num \in 1..NumOscs
      /\ now \in Nat
      /\ Good(s.doc, X) /\ s.doc.num = num /\ s.doc.behind = now /\ s.o <= num
      /\ s = [doc |-> s.doc, o |-> s.o, idle |-> s.idle]
      /\ t.doc \in Docs /\ Good(t.doc, Y) /\ t.doc.num = num /\ t.doc.behind = now
      /\ t = [doc |-> t.doc, o |-> s.o, idle |-> s.idle]
      /\ NumOscs \in Nat
  BY DocAssumption DEF Turning, Docs, TwinTurns
<1>2. Twins(s.doc, t.doc, full)
  BY DEF TwinTurns
<1> DEFINE Again(z) == (z.doc.osc[z.o].silent \/ z.doc.osc[z.o].left = 0)
                          /\ z.doc.osc[z.o].left <= now - z.doc.osc[z.o].at
           Turned(z) == IF z.o = num THEN IF z.idle THEN z ELSE [z EXCEPT !.o = 0, !.idle = TRUE]
                        ELSE IF Asleep(z, now) THEN [z EXCEPT !.o = @ + 1]
                        ELSE [doc |-> PlayOne(z.doc, z.o, now),
                              o |-> IF Again(z) THEN z.o ELSE z.o + 1, idle |-> FALSE]
<1>3. Turn(s, now) = Turned(s) /\ Turn(t, now) = Turned(t)
  BY <1>1, Zenon DEF Turn, Asleep
<1>4. CASE s.o = num
  <2>1. CASE s.idle
    BY <1>1, <1>2, <1>3, <1>4, <2>1 DEF TwinTurns
  <2>2. CASE ~s.idle
    <3>1. Turned(s) = [doc |-> s.doc, o |-> 0, idle |-> TRUE]
          /\ Turned(t) = [doc |-> t.doc, o |-> 0, idle |-> TRUE]
      <4>1. t.o = num /\ ~t.idle
        BY <1>4, <2>2 DEF TwinTurns
      <4> QED  BY <1>1, <1>4, <2>2, <4>1
    <3> HIDE DEF Turned
    <3> QED  BY <1>2, <1>3, <3>1 DEF TwinTurns
  <2> QED  BY <2>1, <2>2
<1>5. CASE s.o # num
  <2>1. s.o \in Oscs /\ s.o < num /\ t.o = s.o
    BY <1>1, <1>5 DEF Oscs
  <2> DEFINE c == s.doc.osc[s.o]
             e == t.doc.osc[s.o]
  <2>2. SameFlow(c, e) /\ c \in Osc /\ e \in Osc
    BY <1>1, <1>2, <2>1 DEF Twins, Docs
  <2>3. (Asleep(s, now) <=> Asleep(t, now)) /\ (Again(s) <=> Again(t))
    BY <2>1, <2>2 DEF SameFlow, SetAs, Asleep
  <2>4. CASE Asleep(s, now)
    <3>1. Turned(s) = [doc |-> s.doc, o |-> s.o + 1, idle |-> s.idle]
          /\ Turned(t) = [doc |-> t.doc, o |-> s.o + 1, idle |-> s.idle]
      BY <1>1, <1>5, <2>1, <2>3, <2>4
    <3> HIDE DEF Turned
    <3> QED  BY <1>2, <1>3, <3>1 DEF TwinTurns
  <2>5. CASE ~Asleep(s, now)
    <3>1. c.running /\ c.at < now /\ e.running /\ e.at < now
      <4>1. c.running /\ ~(c.at >= now)
        BY <2>5 DEF Asleep
      <4> QED  BY <1>1, <2>2, <4>1 DEF Osc, SameFlow
    <3>2. PlayOf(PlayOne(s.doc, s.o, now), s.doc, s.o, now)
          /\ PlayOf(PlayOne(t.doc, s.o, now), t.doc, s.o, now)
      BY <1>1, <2>1, <3>1, PlayKeeps
    <3>3. Twins(PlayOne(s.doc, s.o, now), PlayOne(t.doc, s.o, now), full)
      BY <1>2, <2>1, <3>2, PlayTwins
    <3> DEFINE n == IF Again(s) THEN s.o ELSE s.o + 1
    <3>4. Turned(s) = [doc |-> PlayOne(s.doc, s.o, now), o |-> n, idle |-> FALSE]
          /\ Turned(t) = [doc |-> PlayOne(t.doc, s.o, now), o |-> n, idle |-> FALSE]
      <4> HIDE DEF Again
      <4> QED  BY <1>5, <2>1, <2>3, <2>5
    <3> HIDE DEF n, Turned
    <3> QED  BY <1>3, <3>3, <3>4 DEF TwinTurns
  <2> QED  BY <2>4, <2>5
<1> QED  BY <1>4, <1>5

(* and Scan.                                                                *)
LEMMA ScanTwins ==
  ASSUME NEW X, NEW Y, NEW a, NEW b, Good(a, X), Good(b, Y), a.behind > 0, NEW full,
         Twins(a, b, full)
  PROVE  Twins(Scan(a), Scan(b), full)
<1> DEFINE now == a.behind
           num == a.num
           h == Turns(FirstTurn(a), now)
           g == Turns(FirstTurn(b), now)
           S == Turning(X, num, now)
           R == Turning(Y, num, now)
<1>1. b.behind = now /\ b.num = num /\ now \in Nat /\ num \in Nat
  BY DocAssumption DEF Twins, Good, Docs
<1>2. /\ h \in [Nat -> S] /\ h[0] = FirstTurn(a)
      /\ \A n \in Nat \ {0} : h[n] = Turn(h[n - 1], now)
  BY TurnsKept
<1>3. /\ g \in [Nat -> R] /\ g[0] = FirstTurn(b)
      /\ \A n \in Nat \ {0} : g[n] = Turn(g[n - 1], now)
  BY <1>1, TurnsKept
<1> HIDE DEF h, g
<1>4. \A n \in Nat : TwinTurns(h[n], g[n], full)
  <2> DEFINE T == {n \in Nat : ~TwinTurns(h[n], g[n], full)}
  <2>1. SUFFICES ASSUME T # {} PROVE FALSE
    OBVIOUS
  <2>2. PICK t \in T : \A y \in T : ~(y < t)
    BY <2>1, LeastOf
  <2>3. TwinTurns(h[0], g[0], full)
    BY <1>2, <1>3 DEF FirstTurn, TwinTurns
  <2>4. t \in Nat /\ ~TwinTurns(h[t], g[t], full)
    OBVIOUS
  <2> DEFINE m == t - 1
  <2>5. t # 0
    BY <2>3, <2>4
  <2>6. m \in Nat /\ t = m + 1 /\ TwinTurns(h[m], g[m], full)
    <3>1. m \in Nat /\ m < t
      BY <2>4, <2>5
    <3>2. m \notin T
      BY <3>1, <2>2
    <3> QED  BY <3>1, <3>2
  <2>7. h[t] = Turn(h[m], now) /\ h[m] \in S /\ g[t] = Turn(g[m], now) /\ g[m] \in R
    BY <1>2, <1>3, <2>4, <2>5, <2>6
  <2> HIDE DEF m, T
  <2>8. TwinTurns(Turn(h[m], now), Turn(g[m], now), full)
    BY <2>6, <2>7, TurnTwins
  <2> QED  BY <2>4, <2>7, <2>8
<1> DEFINE k == Enough(a)
<1>5. k \in Nat /\ Enough(b) = k
  <2>1. num * (now + 1) \in Nat
    BY <1>1
  <2> QED  BY <1>1, <2>1 DEF Enough
<1> HIDE DEF k
<1>6. Scan(a) = h[k].doc /\ Scan(b) = g[k].doc
  BY <1>1, <1>5, ScanIs DEF h, g, k
<1> QED  BY <1>4, <1>5, <1>6 DEF TwinTurns

(* The same oscillators stop and start, and the queue is as long.           *)
PlayedAlike(a, b, full) ==
  /\ \A i \in Oscs : /\ SoundPlay(a).osc[i].halt = SoundPlay(b).osc[i].halt
                     /\ SoundPlay(a).osc[i].running = SoundPlay(b).osc[i].running
  /\ full => SoundPlay(a).count = SoundPlay(b).count

(* So what ends and starts, and who joins the queue, is the same in both.   *)
LEMMA PlayedTwins ==
  ASSUME NEW X, NEW Y, NEW a, NEW b, Good(a, X), Good(b, Y), NEW full, Twins(a, b, full)
  PROVE  PlayedAlike(a, b, full)
<1>1. a.behind = b.behind /\ a.behind \in Nat
  BY DEF Twins, Good, Docs
<1>2. CASE a.behind = 0
  BY <1>1, <1>2 DEF SoundPlay, Twins, SameFlow, PlayedAlike
<1>3. CASE a.behind # 0
  <2>1. Twins(Scan(a), Scan(b), full)
    BY <1>1, <1>3, ScanTwins
  <2>2. Scan(a) \in Docs /\ Scan(b) \in Docs
    <3>1. PlayedUp(Scan(a), a, X) /\ PlayedUp(Scan(b), b, Y)
      <4>1. a.behind > 0 /\ b.behind > 0
        BY <1>1, <1>3
      <4> QED  BY <4>1, ScanEnds
    <3> QED  BY <3>1 DEF PlayedUp, Good
  <2>3. RestedOf(SoundPlay(a), Scan(a)) /\ RestedOf(SoundPlay(b), Scan(b))
    BY <1>1, <1>3, <2>2, PlayedIs
  <2> QED  BY <2>1, <2>3 DEF Twins, SameFlow, RestedOf, AtOf, PlayedAlike
<1> QED  BY <1>2, <1>3

-----------------------------------------------------------------------------
(* The operations                                                           *)

(* e differs from d in the queue alone.                                     *)
Requeued(e, d) ==
  /\ e \in Docs /\ e.num = d.num /\ e.behind = d.behind /\ e.halted = d.halted
  /\ \A i \in Oscs : RankedOf(e.osc[i], d.osc[i], e.osc[i].rank)

(* A rank is of no importance to an oscillator,                             *)
LEMMA RequeuedOsc ==
  ASSUME NEW c, NEW f, NEW r, RankedOf(f, c, r), NEW i, NEW num, NEW now, NEW X
  PROVE  /\ OscOK(c, i, num, now, X) => OscOK(f, i, num, now, X)
         /\ SameFlow(f, c)
  BY DEF RankedOf, OscOK, Shape, MeetsZero, SameFlow, SetAs

(* so that nothing but the queue changes.                                   *)
LEMMA RequeuedOK ==
  ASSUME NEW d, NEW e, NEW X, Good(d, X), Requeued(e, d), RankOK(e)
  PROVE  /\ Good(e, X) /\ Twins(e, d, FALSE)
         /\ Settled(d, X) => Settled(e, X)
<1>1. \A i \in Oscs : OscOK(e.osc[i], i, e.num, e.behind, X)
  BY RequeuedOsc DEF Good, Requeued
<1>2. \A i \in Oscs : SameFlow(e.osc[i], d.osc[i])
  BY RequeuedOsc DEF Requeued
<1>3. Settled(d, X) => Settled(e, X)
  BY DEF Settled, Requeued, RankedOf
<1> QED  BY <1>1, <1>2, <1>3 DEF Good, Requeued, Twins

(* Leaving the queue                                                        *)
LeaveOf(e, d, o) ==
  LET r == d.osc[o].rank
  IN  /\ Requeued(e, d)
      /\ \A i \in Oscs :
           e.osc[i].rank = IF i = o THEN 0
                           ELSE IF i < d.num /\ d.osc[i].rank > r THEN d.osc[i].rank - 1
                           ELSE d.osc[i].rank
      /\ e.count = d.count - 1 /\ (e.irq <=> d.irq /\ d.count > 1)
      /\ LET firsts == {i \in 0..d.num - 1 : e.osc[i].rank = 1}
         IN  e.e0 = IF r # 1 THEN d.e0 ELSE IF firsts = {} THEN NoOsc ELSE Max(firsts)

(* Those behind one that leaves move up, and $E0 is the new first.          *)
LEMMA LeavesIs ==
  ASSUME NEW d \in Docs, RankOK(d), NEW o \in Oscs, d.osc[o].rank > 0
  PROVE  LeaveOf(Leaves(d, o), d, o)
<1> DEFINE r == d.osc[o].rank
           New(i) == IF i = o THEN 0 ELSE IF i < d.num /\ d.osc[i].rank > r THEN d.osc[i].rank - 1
                                          ELSE d.osc[i].rank
           osc == [i \in Oscs |-> [d.osc[i] EXCEPT !.rank = New(i)]]
           moved == [d EXCEPT !.osc = osc]
           firsts == {i \in 0..d.num - 1 : moved.osc[i].rank = 1}
           e == [moved EXCEPT !.count = @ - 1, !.irq = @ /\ d.count > 1,
                              !.e0 = IF r # 1 THEN @ ELSE IF firsts = {} THEN NoOsc
                                ELSE Max(firsts)]
<1>1. Leaves(d, o) = e
  <2>2. moved = [d EXCEPT !.osc = [i \in Oscs |->
                 [d.osc[i] EXCEPT !.rank = IF i = o THEN 0
                                       ELSE IF i < d.num /\ @ > r THEN @ - 1 ELSE @]]]
    OBVIOUS
  <2> HIDE DEF osc, moved, New
  <2> QED  BY <2>2, Zenon DEF Leaves, e, firsts
<1>2. /\ d.count \in Nat /\ d.count <= NumOscs /\ d.num \in Nat /\ d.num <= NumOscs
      /\ NumOscs \in Nat
      /\ \A i \in Oscs : d.osc[i].rank \in Nat /\ d.osc[i].rank <= d.count /\ i \in Nat
         /\ d.osc[i] \in Osc
      /\ d.count >= 1
  <2>1. d.count \in 0..NumOscs /\ d.num \in 1..NumOscs /\ NumOscs \in Nat
    BY DocAssumption DEF Docs
  <2>2. \A i \in Oscs : d.osc[i] \in Osc /\ d.osc[i].rank \in Nat /\ i \in Nat
    <3>1. \A i \in Oscs : d.osc[i] \in Osc
      BY DEF Docs
    <3>2. \A i \in Oscs : d.osc[i].rank \in Nat
      BY <2>1, <3>1 DEF Osc
    <3> QED  BY <2>1, <3>1, <3>2 DEF Oscs
  <2>3. \A i \in Oscs : d.osc[i].rank <= d.count
    BY DEF RankOK
  <2> QED  BY <2>1, <2>2, <2>3
<1>3. \A i \in Oscs : New(i) \in 0..NumOscs
  BY <1>2
<1> HIDE DEF New
<1>4. \A i \in Oscs : RankedOf(osc[i], d.osc[i], New(i))
  BY <1>2, <1>3, RankedIs
<1>5. osc \in [Oscs -> Osc]
  BY <1>4 DEF RankedOf
<1> HIDE DEF osc
<1>6. moved \in Docs /\ moved.osc = osc /\ moved.num = d.num /\ moved.behind = d.behind
      /\ moved.halted = d.halted
      /\ moved.count = d.count /\ moved.irq = d.irq /\ moved.e0 = d.e0
  BY <1>5 DEF Docs
<1> HIDE DEF moved
<1> DEFINE e0 == IF r # 1 THEN d.e0 ELSE IF firsts = {} THEN NoOsc ELSE Max(firsts)
<1>7. \A i \in Oscs : osc[i].rank = New(i)
  BY <1>4 DEF RankedOf
<1>8. \A i, j \in firsts : i = j
  <2> SUFFICES ASSUME NEW i \in firsts, NEW j \in firsts PROVE i = j
    OBVIOUS
  <2>1. i \in Oscs /\ j \in Oscs /\ New(i) = 1 /\ New(j) = 1
    <3>1. i \in 0..d.num - 1 /\ j \in 0..d.num - 1 /\ osc[i].rank = 1 /\ osc[j].rank = 1
      BY <1>6
    <3>2. i \in Oscs /\ j \in Oscs
      BY <1>2, <3>1 DEF Oscs
    <3> QED  BY <1>7, <3>1, <3>2
  <2>2. i < d.num /\ j < d.num /\ i # o /\ j # o
    BY <2>1, <1>2 DEF New
  <2>3. d.osc[i].rank # r /\ d.osc[j].rank # r
    BY <2>1, <2>2 DEF RankOK
  <2>4. d.osc[i].rank = d.osc[j].rank /\ d.osc[i].rank > 0
    BY <2>1, <2>2, <2>3, <1>2 DEF New, RankOK
  <2> QED  BY <2>1, <2>4 DEF RankOK
<1>9. firsts # {} => Max(firsts) \in firsts
  <2> SUFFICES ASSUME NEW x \in firsts PROVE Max(firsts) \in firsts
    OBVIOUS
  <2>1. \A y \in firsts : x >= y
    <3> SUFFICES ASSUME NEW y \in firsts PROVE x >= y
      OBVIOUS
    <3>1. x = y /\ x \in 0..d.num - 1
      BY <1>8
    <3> QED  BY <3>1, <1>2
  <2> HIDE DEF firsts
  <2> QED  BY <2>1 DEF Max
<1>10. e0 \in 0..NumOscs
  <2>1. firsts \subseteq 0..NumOscs
    BY <1>2
  <2>2. d.e0 \in 0..NumOscs /\ NoOsc \in 0..NumOscs
    BY <1>2 DEF Docs, NoOsc
  <2> QED  BY <1>9, <2>1, <2>2
<1>11. e = [moved EXCEPT !.count = d.count - 1, !.irq = d.irq /\ d.count > 1, !.e0 = e0]
  BY <1>6
<1> HIDE DEF e0, e
<1>12. /\ e \in Docs /\ e.osc = osc /\ e.num = d.num /\ e.behind = d.behind /\ e.halted = d.halted
       /\ e.count = d.count - 1 /\ (e.irq <=> d.irq /\ d.count > 1) /\ e.e0 = e0
  <2>1. d.count - 1 \in 0..NumOscs /\ (d.irq /\ d.count > 1) \in BOOLEAN
    BY <1>2
  <2> QED  BY <1>6, <1>10, <1>11, <2>1 DEF Docs
<1>13. Requeued(e, d)
  BY <1>4, <1>7, <1>12 DEF Requeued
<1>14. firsts = {i \in 0..d.num - 1 : e.osc[i].rank = 1}
  BY <1>6, <1>12
<1> HIDE DEF firsts
<1> QED  BY <1>1, <1>7, <1>12, <1>13, <1>14 DEF LeaveOf, New, e0

(* One that leaves leaves no gap.                                           *)
LEMMA LeaveKeeps ==
  ASSUME NEW d \in Docs, RankOK(d), NEW o \in Oscs, d.osc[o].rank > 0, NEW e, LeaveOf(e, d, o)
  PROVE  RankOK(e)
<1> DEFINE r == d.osc[o].rank
           firsts == {i \in 0..d.num - 1 : e.osc[i].rank = 1}
<1>1. /\ d.count \in Nat /\ d.num \in Nat /\ NumOscs \in Nat /\ d.num <= NumOscs
      /\ d.irq \in BOOLEAN
      /\ \A i \in Oscs : d.osc[i].rank \in Nat /\ d.osc[i].rank <= d.count /\ i \in Nat
                         /\ (d.osc[i].rank > 0 => i < d.num)
      /\ d.count >= 1 /\ r >= 1 /\ r <= d.count
  <2>1. d.count \in 0..NumOscs /\ d.num \in 1..NumOscs /\ NumOscs \in Nat /\ d.irq \in BOOLEAN
    BY DocAssumption DEF Docs
  <2>2. \A i \in Oscs : d.osc[i] \in Osc /\ d.osc[i].rank \in Nat /\ i \in Nat
    <3>1. \A i \in Oscs : d.osc[i] \in Osc
      BY DEF Docs
    <3>2. \A i \in Oscs : d.osc[i].rank \in Nat
      BY <2>1, <3>1 DEF Osc
    <3> QED  BY <2>1, <3>1, <3>2 DEF Oscs
  <2>3. \A i \in Oscs : d.osc[i].rank <= d.count /\ (d.osc[i].rank > 0 => i < d.num)
    BY DEF RankOK
  <2> QED  BY <2>1, <2>2, <2>3
<1>2. /\ \A i \in Oscs :
           e.osc[i].rank = IF i = o THEN 0
                           ELSE IF d.osc[i].rank > r THEN d.osc[i].rank - 1 ELSE d.osc[i].rank
      /\ e.count = d.count - 1 /\ (e.irq <=> d.irq /\ d.count > 1) /\ e.num = d.num
      /\ e.e0 = IF r # 1 THEN d.e0 ELSE IF firsts = {} THEN NoOsc ELSE Max(firsts)
  BY <1>1 DEF LeaveOf, Requeued
<1>3. \A i \in Oscs : i # o => d.osc[i].rank # r
  BY <1>1 DEF RankOK
<1>4. \A i \in Oscs : e.osc[i].rank <= e.count /\ (e.osc[i].rank > 0 => i < e.num)
  BY <1>1, <1>2, <1>3
<1>5. \A k \in 1..e.count : \E i \in Oscs : e.osc[i].rank = k
  <2> SUFFICES ASSUME NEW k \in 1..e.count PROVE \E i \in Oscs : e.osc[i].rank = k
    OBVIOUS
  <2>1. CASE k < r
    <3>1. k \in 1..d.count
      BY <1>1, <1>2
    <3>2. PICK i \in Oscs : d.osc[i].rank = k
      BY <3>1 DEF RankOK
    <3>3. e.osc[i].rank = k
      BY <1>1, <1>2, <2>1, <3>2
    <3> QED  BY <3>3
  <2>2. CASE ~(k < r)
    <3>1. k + 1 \in 1..d.count
      BY <1>1, <1>2
    <3>2. PICK i \in Oscs : d.osc[i].rank = k + 1
      BY <3>1 DEF RankOK
    <3>3. e.osc[i].rank = k
      BY <1>1, <1>2, <2>2, <3>2
    <3> QED  BY <3>3
  <2> QED  BY <2>1, <2>2
<1>6. \A i, j \in Oscs : e.osc[i].rank = e.osc[j].rank /\ e.osc[i].rank > 0 => i = j
  <2> SUFFICES ASSUME NEW i \in Oscs, NEW j \in Oscs, e.osc[i].rank = e.osc[j].rank,
                      e.osc[i].rank > 0
               PROVE  i = j
    OBVIOUS
  <2>1. i # o /\ j # o
    BY <1>2
  <2>2. d.osc[i].rank # r /\ d.osc[j].rank # r
    BY <1>3, <2>1
  <2>3. d.osc[i].rank = d.osc[j].rank /\ d.osc[i].rank > 0
    BY <1>1, <1>2, <2>1, <2>2
  <2> QED  BY <2>3 DEF RankOK
<1>7. e.irq <=> e.count > 0
  BY <1>1, <1>2 DEF RankOK
<1>8. CASE r # 1
  <2>1. e.e0 = d.e0 /\ d.e0 \in Oscs /\ d.osc[d.e0].rank = 1
    BY <1>1, <1>2, <1>8 DEF RankOK
  <2>2. e.osc[d.e0].rank = 1 /\ e.count > 0
    BY <1>1, <1>2, <1>8, <2>1
  <2> QED  BY <1>4, <1>5, <1>6, <1>7, <2>1, <2>2 DEF RankOK
<1>9. CASE r = 1
  <2>1. CASE d.count = 1
    <3>1. firsts = {}
      <4> SUFFICES ASSUME NEW i \in firsts PROVE FALSE
        OBVIOUS
      <4>1. i \in Oscs /\ e.osc[i].rank = 1
        BY <1>1 DEF Oscs
      <4> QED  BY <4>1, <1>2, <1>4, <2>1
    <3> HIDE DEF firsts
    <3> QED  BY <1>2, <1>4, <1>5, <1>6, <1>7, <1>9, <2>1, <3>1 DEF RankOK
  <2>2. CASE d.count # 1
    <3>1. e.count > 0 /\ 1 \in 1..e.count
      BY <1>1, <1>2, <2>2
    <3>2. PICK x \in Oscs : e.osc[x].rank = 1
      BY <1>5, <3>1
    <3>3. x \in firsts
      BY <1>1, <1>2, <1>4, <3>2
    <3>4. \A y \in firsts : y = x
      BY <1>1, <1>6, <3>2 DEF Oscs
    <3>5. x >= x
      BY <1>1, <3>2
    <3> HIDE DEF firsts
    <3>6. Max(firsts) = x
      BY <3>3, <3>4, <3>5 DEF Max
    <3>7. e.e0 = x
      BY <1>2, <1>9, <3>3, <3>6
    <3> QED  BY <1>4, <1>5, <1>6, <1>7, <3>1, <3>2, <3>7 DEF RankOK
  <2> QED  BY <2>1, <2>2
<1> QED  BY <1>8, <1>9

(* remove_sound_irq keeps the queue in order, and does not complain about   *)
(* one that is in it.                                                       *)
LEMMA RemoveKeeps ==
  ASSUME NEW X, NEW d, Good(d, X), NEW o \in Oscs, NEW must \in BOOLEAN, must => d.osc[o].rank > 0
  PROVE  LET e == RemoveSoundIrq(d, o, must)
         IN  /\ Requeued(e, d) /\ RankOK(e)
             /\ d.osc[o].rank = 0 => e = d
<1> DEFINE d1 == IF d.osc[o].rank = 0 THEN HaltIf(d, must) ELSE Leaves(d, o)
           e == RemoveSoundIrq(d, o, must)
<1>1. d \in Docs /\ RankOK(d) /\ d.osc[o].rank \in Nat
  BY DocAssumption DEF Good, Docs, Osc
<1>2. Requeued(d1, d) /\ RankOK(d1) /\ (d.osc[o].rank = 0 => d1 = d)
  <2>1. CASE d.osc[o].rank = 0
    <3>1. d1 = d
      BY <2>1 DEF HaltIf
    <3>2. Requeued(d, d)
      BY <1>1 DEF Requeued, RankedOf, Docs
    <3> QED  BY <1>1, <3>1, <3>2
  <2>2. CASE d.osc[o].rank # 0
    <3>1. d1 = Leaves(d, o) /\ d.osc[o].rank > 0
      BY <1>1, <2>2
    <3>2. LeaveOf(d1, d, o)
      BY <1>1, <3>1, LeavesIs
    <3>3. RankOK(d1)
      BY <1>1, <3>1, <3>2, LeaveKeeps
    <3> QED  BY <2>2, <3>2, <3>3 DEF LeaveOf
  <2> QED  BY <2>1, <2>2
<1>3. e = HaltIf(d1, d1.e0 = NoOsc /\ \E i \in Oscs : d1.osc[i].rank > 0)
  BY DEF RemoveSoundIrq
<1> HIDE DEF d1
<1>4. ~(d1.e0 = NoOsc /\ \E i \in Oscs : d1.osc[i].rank > 0)
  <2> SUFFICES ASSUME NEW i \in Oscs, d1.osc[i].rank > 0, d1.e0 = NoOsc PROVE FALSE
    OBVIOUS
  <2>1. d1.count \in Nat /\ d1.osc[i].rank \in Nat /\ d1.osc[i].rank <= d1.count
    BY <1>2, DocAssumption DEF Requeued, Docs, Osc, RankOK
  <2>2. d1.e0 \in Oscs
    BY <1>2, <2>1 DEF RankOK
  <2> QED  BY <2>2, DocAssumption DEF Oscs, NoOsc
<1>5. e = d1
  BY <1>3, <1>4 DEF HaltIf
<1> QED  BY <1>2, <1>5

(* The inductive invariant                                                  *)
DocInv(d) == Good(d, {}) /\ Settled(d, {})

(* A register of an oscillator changes, or it is stopped.                   *)
LEMMA PutKeeps ==
  ASSUME NEW X, NEW Y, NEW d, Good(d, X), Settled(d, X), NEW o \in Oscs, NEW c \in Osc,
         c.rank = d.osc[o].rank, OscOK(c, o, d.num, d.behind, Y), c.at = 0,
         c.running /\ c.ie /\ o \notin Y => c.event = {c.left - d.behind},
         \A i \in Oscs : i # o /\ i \in X => i \in Y
  PROVE  LET e == Put(d, o, c)
         IN  /\ Good(e, Y) /\ Settled(e, Y) /\ PutOf(e, d, o, c)
<1> DEFINE e == Put(d, o, c)
<1>1. PutOf(e, d, o, c)
  BY PutIs DEF Good
<1> HIDE DEF e
<1>2. e \in Docs /\ e.num = d.num /\ e.behind = d.behind /\ e.halted = FALSE
  BY <1>1 DEF PutOf, Good
<1>3. RankOK(e)
  <2>1. \A i \in Oscs : e.osc[i].rank = d.osc[i].rank
    BY <1>1 DEF PutOf
  <2> QED  BY <1>1, <2>1 DEF PutOf, Good, RankOK
<1>4. ASSUME NEW i \in Oscs
      PROVE  OscOK(e.osc[i], i, d.num, d.behind, Y) /\ e.osc[i].at = 0
             /\ (e.osc[i].running /\ e.osc[i].ie /\ i \notin Y =>
                   e.osc[i].event = {e.osc[i].left - d.behind})
  <2>1. CASE i = o
    BY <1>1, <2>1 DEF PutOf
  <2>2. CASE i # o
    <3>1. e.osc[i] = d.osc[i] /\ OscOK(d.osc[i], i, d.num, d.behind, X)
      BY <1>1, <2>2 DEF PutOf, Good
    <3>2. i \in X => i \in Y
      BY <2>2
    <3>3. OscOK(d.osc[i], i, d.num, d.behind, Y)
      BY <3>1, <3>2 DEF OscOK
    <3> QED  BY <3>1, <3>2, <3>3 DEF Settled
  <2> QED  BY <2>1, <2>2
<1>5. Good(e, Y)
  BY <1>2, <1>3, <1>4 DEF Good
<1>6. Settled(e, Y)
  BY <1>2, <1>4 DEF Settled
<1> QED  BY <1>1, <1>5, <1>6 DEF e

(* What such a state says of one oscillator                                 *)
LEMMA GoodOsc ==
  ASSUME NEW X, NEW d, Good(d, X), NEW i \in Oscs
  PROVE  /\ d \in Docs /\ d.osc[i] \in Osc /\ OscOK(d.osc[i], i, d.num, d.behind, X)
         /\ d.behind \in Nat /\ d.num \in Nat /\ d.halted = FALSE /\ RankOK(d)
         /\ d.osc[i].halt \in BOOLEAN /\ d.osc[i].ie \in BOOLEAN /\ d.osc[i].running \in BOOLEAN
         /\ d.osc[i].running = ~d.osc[i].halt
  BY DocAssumption DEF Good, Docs, Osc, OscOK

(* Fewer oscillators need to be on the list.                                *)
LEMMA ForgetKeeps ==
  ASSUME NEW X, NEW d, Good(d, X), Settled(d, X), NEW o \in Oscs
  PROVE  LET e == [d EXCEPT !.osc[o].event = {}]
         IN  /\ Good(e, X \cup {o}) /\ Settled(e, X \cup {o}) /\ Twins(e, d, TRUE)
             /\ e = Put(d, o, [d.osc[o] EXCEPT !.event = {}])
<1> DEFINE c == d.osc[o]
           f == [c EXCEPT !.event = {}]
           e == Put(d, o, f)
<1>1. /\ d \in Docs /\ c \in Osc /\ OscOK(c, o, d.num, d.behind, X)
  BY GoodOsc
<1>2. [d EXCEPT !.osc[o].event = {}] = e
  BY <1>1 DEF Put, Docs
<1>3. /\ f \in Osc /\ f.event = {} /\ f.rank = c.rank /\ f.at = c.at /\ SameFlow(f, c)
  BY <1>1 DEF Osc, SameFlow, SetAs
<1> HIDE DEF f
<1>4. OscOK(f, o, d.num, d.behind, X \cup {o})
  <2>1. \E t \in Int : f.event \subseteq {t}
    BY <1>3
  <2> QED  BY <1>1, <1>3, <2>1 DEF OscOK, SameFlow, SetAs, Shape, MeetsZero
<1>5. c.at = 0
  BY DEF Settled
<1>6. Good(e, X \cup {o}) /\ Settled(e, X \cup {o}) /\ PutOf(e, d, o, f)
  BY <1>3, <1>4, <1>5, PutKeeps
<1>7. Twins(e, d, TRUE)
  <2>1. \A i \in Oscs : SameFlow(e.osc[i], d.osc[i]) /\ e.osc[i].rank = d.osc[i].rank
    BY <1>3, <1>6 DEF PutOf, SameFlow, SetAs
  <2> QED  BY <1>6, <2>1 DEF PutOf, Twins
<1> QED  BY <1>2, <1>6, <1>7 DEF f

(* Time passes.                                                             *)
PassedOf(e, d, n) ==
  /\ e \in Docs /\ e.num = d.num /\ e.behind = d.behind + n /\ e.e0 = d.e0 /\ e.count = d.count
  /\ e.irq = d.irq /\ e.halted = d.halted
  /\ \A i \in Oscs :
       LET f == e.osc[i]
           c == d.osc[i]
       IN  /\ f \in Osc /\ SameFlow(f, c) /\ f.rank = c.rank /\ f.event = {t - n : t \in c.event}

(* Everything is later by n samples,                                        *)
LEMMA PassedIs ==
  ASSUME doc \in Docs, NEW n \in Nat, doc.behind + n <= MaxBehind
  PROVE  PassedOf(DocPassed(n), doc, n)
<1> DEFINE ev(i) == {t - n : t \in doc.osc[i].event}
           osc == [i \in Oscs |-> [doc.osc[i] EXCEPT !.event = ev(i)]]
           e == [doc EXCEPT !.behind = @ + n, !.osc = osc]
<1>1. DocPassed(n) = e
  BY DEF DocPassed
<1>2. ASSUME NEW i \in Oscs
      PROVE  /\ osc[i] \in Osc /\ SameFlow(osc[i], doc.osc[i]) /\ osc[i].rank = doc.osc[i].rank
             /\ osc[i].event = ev(i)
  <2>1. doc.osc[i] \in Osc /\ ev(i) \in SUBSET Int
    BY DEF Docs, Osc
  <2> DEFINE c == doc.osc[i]
             v == ev(i)
             f == [c EXCEPT !.event = v]
  <2>2. osc[i] = f /\ c \in Osc /\ v \in SUBSET Int
    BY <2>1
  <2> HIDE DEF c, v, osc
  <2>3. f \in Osc /\ f.event = v /\ f.rank = c.rank /\ SameFlow(f, c)
    BY <2>2 DEF Osc, SameFlow, SetAs
  <2> HIDE DEF f
  <2> QED  BY <2>2, <2>3 DEF c, v
<1>3. osc \in [Oscs -> Osc]
  BY <1>2
<1> HIDE DEF osc
<1>4. doc.behind + n \in 0..MaxBehind
  BY DocAssumption DEF Docs
<1>5. /\ e \in Docs /\ e.osc = osc /\ e.num = doc.num /\ e.behind = doc.behind + n /\ e.e0 = doc.e0
      /\ e.count = doc.count /\ e.irq = doc.irq /\ e.halted = doc.halted
  BY <1>3, <1>4 DEF Docs
<1> HIDE DEF e
<1> QED  BY <1>1, <1>2, <1>5 DEF PassedOf

(* and an event comes no later or earlier for that.                         *)
LEMMA PassedKeeps ==
  ASSUME NEW n \in Nat, DocInv(doc), doc.behind + n <= MaxBehind
  PROVE  DocInv(DocPassed(n)) /\ PassedOf(DocPassed(n), doc, n)
<1> DEFINE e == DocPassed(n)
<1>1. PassedOf(e, doc, n)
  BY PassedIs DEF DocInv, Good
<1> HIDE DEF e
<1>2. RankOK(e)
  <2>1. \A i \in Oscs : e.osc[i].rank = doc.osc[i].rank
    BY <1>1 DEF PassedOf
  <2> QED  BY <1>1, <2>1 DEF PassedOf, DocInv, Good, RankOK
<1>3. ASSUME NEW i \in Oscs
      PROVE  /\ OscOK(e.osc[i], i, e.num, e.behind, {}) /\ e.osc[i].at = 0
             /\ e.osc[i].running /\ e.osc[i].ie => e.osc[i].event = {e.osc[i].left - e.behind}
  <2> DEFINE c == doc.osc[i]
             f == e.osc[i]
  <2>1. /\ OscOK(c, i, doc.num, doc.behind, {}) /\ c.at = 0 /\ c \in Osc /\ f \in Osc
        /\ doc.behind \in Nat
        /\ c.running /\ c.ie => c.event = {c.left - doc.behind}
    BY <1>1, GoodOsc DEF DocInv, Settled, PassedOf
  <2>2. SameFlow(f, c) /\ f.event = {t - n : t \in c.event} /\ e.behind = doc.behind + n
        /\ e.num = doc.num
    BY <1>1 DEF PassedOf
  <2> HIDE DEF c, f
  <2>3. f.running = ~f.halt /\ f.pos < f.wave.size /\ f.at = 0
    BY <2>1, <2>2 DEF SameFlow, SetAs, OscOK
  <2>4. \E t \in Int : f.event \subseteq {t}
    <3>1. PICK t \in Int : c.event \subseteq {t}
      BY <2>1 DEF OscOK
    <3>2. f.event \subseteq {t - n} /\ t - n \in Int
      BY <2>2, <3>1
    <3> QED  BY <3>2
  <2>5. f.running /\ f.ie => f.event = {f.left - e.behind}
    <3> SUFFICES ASSUME f.running, f.ie PROVE f.event = {f.left - e.behind}
      OBVIOUS
    <3>1. c.event = {c.left - doc.behind} /\ f.left = c.left /\ c.left \in Int
      BY <2>1, <2>2 DEF SameFlow, SetAs, Osc
    <3>2. f.event = {c.left - doc.behind - n}
      BY <2>2, <3>1
    <3>3. (c.left - doc.behind) - n = c.left - (doc.behind + n)
      BY <2>1, <3>1
    <3>4. f.event = {(c.left - doc.behind) - n}
      BY <2>2, <3>1
    <3> QED  BY <2>2, <3>1, <3>3, <3>4
  <2>6. f.running => (i < e.num /\ Shape(f))
    BY <2>1, <2>2 DEF SameFlow, SetAs, OscOK, Shape, MeetsZero
  <2>7. f.at + f.left - e.behind = f.left - e.behind /\ 0 <= e.behind
    <3>1. f.left \in Int /\ e.behind \in Nat
      BY <2>1, <2>2 DEF Osc
    <3> QED  BY <2>3, <3>1
  <2>8. OscOK(f, i, e.num, e.behind, {})
    BY <2>3, <2>4, <2>5, <2>6, <2>7 DEF OscOK
  <2> QED  BY <2>3, <2>5, <2>8 DEF f
<1>4. Good(e, {}) /\ Settled(e, {})
  BY <1>1, <1>2, <1>3 DEF Good, Settled, PassedOf, DocInv
<1> QED  BY <1>1, <1>4 DEF DocInv, e

-----------------------------------------------------------------------------
(* Writing the control register                                             *)

(* One that is stopped                                                      *)
HaltedOsc(c, free, m, ie) ==
  [c EXCEPT !.running = FALSE, !.pos = IF free THEN @ ELSE 0, !.halt = TRUE, !.mode = m, !.ie = ie]

(* e is b with o stopped,                                                   *)
HaltedAs(e, b, o, X) ==
  /\ Good(e, X) /\ Settled(e, X) /\ e.num = b.num /\ e.behind = b.behind
  /\ e.count = b.count /\ e.osc[o].running = FALSE
  /\ \A i \in Oscs : i # o => e.osc[i] = b.osc[i]

(* does not play, whatever else it does.                                    *)
LEMMA HaltedKeeps ==
  ASSUME NEW X, NEW b, NEW o \in Oscs, Good(b, X \cup {o}), Settled(b, X \cup {o}),
         NEW free \in BOOLEAN, NEW m \in DocModes, NEW ie \in BOOLEAN
  PROVE  HaltedAs(Put(b, o, HaltedOsc(b.osc[o], free, m, ie)), b, o, X)
<1> DEFINE c == b.osc[o]
           f == HaltedOsc(c, free, m, ie)
           e == Put(b, o, f)
<1>1. c \in Osc /\ OscOK(c, o, b.num, b.behind, X \cup {o}) /\ c.at = 0
  BY GoodOsc DEF Settled
<1>2. 0 \in 0..MaxSize - 1 /\ c.wave.size > 0
  BY <1>1, DocAssumption DEF Osc, Waves
<1>3. /\ f \in Osc /\ f.running = FALSE /\ f.halt = TRUE /\ f.rank = c.rank /\ f.at = 0
      /\ f.event = c.event /\ f.pos < f.wave.size
  BY <1>1, <1>2, ZenonT(40) DEF HaltedOsc, Osc, OscOK
<1> HIDE DEF f
<1>4. OscOK(f, o, b.num, b.behind, X)
  BY <1>1, <1>3 DEF OscOK
<1>5. \A i \in Oscs : i # o /\ i \in X \cup {o} => i \in X
  OBVIOUS
<1>6. Good(e, X) /\ Settled(e, X) /\ PutOf(e, b, o, f)
  BY <1>3, <1>4, <1>5, PutKeeps
<1> QED  BY <1>3, <1>6 DEF PutOf, f, HaltedAs

(* As many interrupt once what is due has been played                       *)
AsMany(a, b) == SoundPlay(a).count = SoundPlay(b).count

(* in two states that play alike.                                           *)
LEMMA CountTwins ==
  ASSUME NEW X, NEW Y, NEW a, NEW b, Good(a, X), Good(b, Y), Twins(a, b, TRUE)
  PROVE  AsMany(a, b)
<1>1. PlayedAlike(a, b, TRUE)
  BY PlayedTwins
<1> QED  BY <1>1 DEF PlayedAlike, AsMany

(* Oscillator o is stopped.                                                 *)
StopsOf(e, d, o, X) ==
  /\ Good(e, X) /\ Settled(e, X) /\ e.num = d.num
  /\ e.osc[o].running = FALSE
  /\ \A i \in Oscs : i >= d.num /\ i # o => e.osc[i].running = d.osc[i].running
  /\ ~d.osc[o].halt => e.behind = 0
  /\ (d.count = 0 /\ SoundPlay(d).count = 0) => e.count = 0

(* Stopping one by its control register plays up to now first, then takes   *)
(* its event off the list.                                                  *)
LEMMA StopKeeps ==
  ASSUME NEW X, NEW d, Good(d, X), Settled(d, X), NEW o \in Oscs,
         NEW m \in DocModes, NEW ie \in BOOLEAN, NEW other \in BOOLEAN
  PROVE  StopsOf(WriteCtl(d, o, TRUE, m, ie, other), d, o, X)
<1> DEFINE c == d.osc[o]
           d1 == RemoveSoundIrq(d, o, FALSE)
           d2 == [d1 EXCEPT !.osc[o].event = {}]
           b == IF c.halt THEN d2 ELSE SoundPlay(d2)
           free == c.mode = "free"
           e == Put(b, o, HaltedOsc(b.osc[o], free, m, ie))
           x == WriteCtl(d, o, TRUE, m, ie, other)
           Y == X \cup {o}
<1>0. /\ d \in Docs /\ c \in Osc /\ c.running = ~c.halt /\ c.rank \in Nat /\ c.rank <= d.count
      /\ c.halt \in BOOLEAN /\ d.count \in Nat
  BY GoodOsc, DocAssumption DEF Docs, Osc, RankOK, Good, OscOK
<1>1. CASE <<c.halt, c.mode, c.ie>> = <<TRUE, m, ie>> /\ ~other
  <2>1. x = d
    BY <1>1 DEF WriteCtl
  <2>2. c.running = FALSE /\ c.halt
    BY <1>0, <1>1
  <2> HIDE DEF x
  <2>3. StopsOf(x, d, o, X)
    BY <2>1, <2>2 DEF StopsOf
  <2> QED  BY <2>3 DEF x
<1>2. CASE ~(<<c.halt, c.mode, c.ie>> = <<TRUE, m, ie>> /\ ~other)
  <2>1. /\ Requeued(d1, d) /\ RankOK(d1) /\ (c.rank = 0 => d1 = d)
    BY RemoveKeeps
  <2>2. Good(d1, X) /\ Settled(d1, X)
    BY <2>1, RequeuedOK
  <2>3. Good(d2, Y) /\ Settled(d2, Y) /\ Twins(d2, d1, TRUE)
    BY <2>2, ForgetKeeps
  <2>4. x = [[b EXCEPT !.osc[o].running = FALSE, !.osc[o].pos = IF free THEN @ ELSE 0]
               EXCEPT !.osc[o].halt = TRUE, !.osc[o].mode = m, !.osc[o].ie = ie]
    BY <1>2 DEF WriteCtl
  <2> HIDE DEF d1, d2, x
  <2>5. /\ d1.num = d.num /\ d1.behind = d.behind
        /\ \A i \in Oscs : d1.osc[i].running = d.osc[i].running
    BY <2>1 DEF Requeued, RankedOf
  <2>6. /\ d2.num = d.num /\ d2.behind = d.behind
        /\ \A i \in Oscs : d2.osc[i].running = d.osc[i].running
        /\ d2.count = d1.count
    BY <2>3, <2>5 DEF Twins, SameFlow
  <2>7. ~c.halt => UpToDate(b, d2, Y)
    <3>1. \A i \in Oscs : d2.osc[i].at = 0
      BY <2>3 DEF Settled
    <3> QED  BY <2>3, <3>1, SoundPlayIs
  <2>8. /\ Good(b, Y) /\ Settled(b, Y) /\ b.num = d.num
        /\ \A i \in Oscs : i >= d.num => b.osc[i].running = d.osc[i].running
        /\ ~c.halt => b.behind = 0
    <3>1. CASE c.halt
      BY <2>3, <2>6, <3>1
    <3>2. CASE ~c.halt
      BY <2>6, <2>7, <3>2 DEF UpToDate, Leaving
    <3> QED  BY <3>1, <3>2
  <2>9. (d.count = 0 /\ SoundPlay(d).count = 0) => b.count = 0
    <3> SUFFICES ASSUME d.count = 0, SoundPlay(d).count = 0 PROVE b.count = 0
      OBVIOUS
    <3>1. d1 = d
      BY <1>0, <2>1
    <3>2. Twins(d2, d, TRUE)
      BY <2>3, <3>1
    <3>3. AsMany(d2, d)
      BY <2>3, <3>2, CountTwins
    <3> QED  BY <2>6, <3>1, <3>3 DEF AsMany
  <2>10. b \in Docs /\ b.osc[o] \in Osc
    BY <2>8, GoodOsc
  <2> HIDE DEF b
  <2>11. x = e
    <3> DEFINE f == b.osc[o]
    <3>1. b = [b EXCEPT !.osc[o] = f]
      BY <2>10 DEF Docs
    <3>2. [[f EXCEPT !.running = FALSE, !.pos = IF free THEN @ ELSE 0]
             EXCEPT !.halt = TRUE, !.mode = m, !.ie = ie] = HaltedOsc(f, free, m, ie)
      BY <2>10 DEF HaltedOsc, Osc
    <3>3. x = Put(b, o, [[f EXCEPT !.running = FALSE, !.pos = IF free THEN @ ELSE 0]
                           EXCEPT !.halt = TRUE, !.mode = m, !.ie = ie])
      <4> DEFINE pos == IF free THEN f.pos ELSE 0
      <4>1. x = [[b EXCEPT !.osc[o].running = FALSE, !.osc[o].pos = pos]
                   EXCEPT !.osc[o].halt = TRUE, !.osc[o].mode = m, !.osc[o].ie = ie]
        <5> HIDE DEF free
        <5> QED  BY <2>4, <2>10 DEF Docs
      <4>2. [f EXCEPT !.running = FALSE, !.pos = IF free THEN @ ELSE 0]
              = [f EXCEPT !.running = FALSE, !.pos = pos]
        BY <2>10 DEF Osc
      <4> DEFINE f1 == [f EXCEPT !.running = FALSE, !.pos = pos]
                 f2 == [f1 EXCEPT !.halt = TRUE, !.mode = m, !.ie = ie]
      <4> HIDE DEF pos, free, x, f
      <4>3. [b EXCEPT !.osc[o].running = FALSE, !.osc[o].pos = pos] = Put(b, o, f1)
        BY <2>10 DEF Put, Docs, f
      <4> HIDE DEF f1
      <4>4. [Put(b, o, f1) EXCEPT !.osc[o].halt = TRUE, !.osc[o].mode = m,
            !.osc[o].ie = ie] = Put(b, o, f2)
        BY <2>10 DEF Put, Docs
      <4>5. x = Put(b, o, f2)
        BY <4>1, <4>3, <4>4
      <4> QED  BY <4>2, <4>5 DEF f1
    <3> QED  BY <3>2, <3>3
  <2>12. free \in BOOLEAN
    OBVIOUS
  <2> HIDE DEF free
  <2>13. HaltedAs(e, b, o, X)
    BY <2>8, <2>12, HaltedKeeps
  <2> HIDE DEF e
  <2>14. StopsOf(e, d, o, X)
    BY <2>8, <2>9, <2>13 DEF StopsOf, HaltedAs
  <2> QED  BY <2>11, <2>14 DEF x
<1> QED  BY <1>1, <1>2

(* An oscillator of a state that is up to date                              *)
FineOsc(f, i, num, now) ==
  /\ f \in Osc /\ OscOK(f, i, num, now, {}) /\ f.at = 0
  /\ f.running /\ f.ie => f.event = {f.left - now}

(* An oscillator in order may take the place of another,                    *)
LEMMA FinePut ==
  ASSUME NEW d, DocInv(d), NEW o \in Oscs, NEW f, FineOsc(f, o, d.num, d.behind),
         f.rank = d.osc[o].rank
  PROVE  DocInv(Put(d, o, f)) /\ PutOf(Put(d, o, f), d, o, f)
<1>1. Good(Put(d, o, f), {}) /\ Settled(Put(d, o, f), {}) /\ PutOf(Put(d, o, f), d, o, f)
  BY PutKeeps DEF DocInv, FineOsc
<1> QED  BY <1>1 DEF DocInv

(* and every oscillator is.                                                 *)
LEMMA FineIs ==
  ASSUME NEW d, DocInv(d), NEW o \in Oscs
  PROVE  /\ FineOsc(d.osc[o], o, d.num, d.behind) /\ d \in Docs
         /\ d.num \in Nat /\ d.num <= NumOscs /\ d.behind \in Nat
         /\ d.osc[o].halt \in BOOLEAN /\ d.osc[o].running = ~d.osc[o].halt
         /\ d.osc[o].pos < d.osc[o].wave.size
<1>1. Good(d, {}) /\ Settled(d, {})
  BY DEF DocInv
<1>2. d.osc[o] \in Osc /\ OscOK(d.osc[o], o, d.num, d.behind, {}) /\ d \in Docs
  BY <1>1, GoodOsc
<1>3. d.num \in Nat /\ d.num <= NumOscs /\ d.behind \in Nat
  BY <1>2, DocAssumption DEF Docs
<1> QED  BY <1>1, <1>2, <1>3 DEF FineOsc, OscOK, Osc, Settled

(* What the program may set of an oscillator                                *)
SetOf(f, c, h, m, e) ==
  /\ f \in Osc /\ f.halt = h /\ f.mode = m /\ f.ie = e /\ f.running = c.running
  /\ f.wave = c.wave /\ f.silent = c.silent /\ f.pos = c.pos /\ f.left = c.left
  /\ f.at = c.at /\ f.event = c.event /\ f.rank = c.rank

(* Setting it changes nothing else.                                         *)
LEMMA SetsIs ==
  ASSUME NEW c \in Osc, NEW h \in BOOLEAN, NEW m \in DocModes, NEW e \in BOOLEAN
  PROVE  SetOf([c EXCEPT !.halt = h, !.mode = m, !.ie = e], c, h, m, e)
  BY DEF Osc, SetOf

(* Starting at the last time, which is now,                                 *)
NowStarts(d, o) ==
  StartOne(d, o, 0, 0) =
    Put(d, o, IF o >= d.num THEN StoppedOsc(d.osc[o])
              ELSE Started(d.osc[o], d.osc[o].ie \/ d.osc[Partner(o)].ie, 0, 0))

(* one that is stopped                                                      *)
LEMMA StartsNow ==
  ASSUME NEW d \in Docs, NEW o \in Oscs, d.osc[o].running = FALSE, d.osc[o].halt = FALSE
  PROVE  NowStarts(d, o)
<1> DEFINE t == 0
<1>1. t \in Int
  OBVIOUS
<1> HIDE DEF t
<1>2. StartOne(d, o, t, t) =
        Put(d, o, IF o >= d.num THEN StoppedOsc(d.osc[o])
                  ELSE Started(d.osc[o], d.osc[o].ie \/ d.osc[Partner(o)].ie, t, t))
  BY <1>1, StartOneIs
<1> QED  BY <1>2 DEF t, NowStarts

(* One that has just been started is in order,                              *)
LEMMA StartsFine ==
  ASSUME NEW c \in Osc, NEW i \in Oscs, NEW num \in Int, NEW w \in BOOLEAN, c.pos < c.wave.size,
         i < num, c.ie => w
  PROVE  /\ FineOsc(Started(c, w, 0, 0), i, num, 0)
         /\ Started(c, w, 0, 0).rank = c.rank /\ Started(c, w, 0, 0).ie = c.ie
<1> DEFINE f == Started(c, w, 0, 0)
<1>1. StartOf(f, c, w, 0, 0)
  BY StartedIs
<1> HIDE DEF f
<1>2. f \in Osc /\ StartsOf(f, w, 0, 0) /\ SetAs(f, c) /\ f.pos = c.pos /\ f.rank = c.rank
  BY <1>1, StartsIs
<1>3. f.pos < f.wave.size /\ (f.ie => w)
  BY <1>2 DEF SetAs
<1>4. OscOK(f, i, num, 0, {})
  BY <1>2, <1>3, StartsOK
<1>5. f.left \in Int
  BY <1>2, DocAssumption DEF Osc
<1>6. f.at = 0 /\ (f.ie => f.event = {f.left - 0})
  BY <1>2, <1>3, <1>5 DEF StartsOf
<1> QED  BY <1>2, <1>4, <1>6 DEF FineOsc, SetAs, f

(* and one that has just been stopped.                                      *)
LEMMA StopsFine ==
  ASSUME NEW d, DocInv(d), NEW o \in Oscs, NEW c, SetAs(c, c), c \in Osc, c.pos < c.wave.size,
         c.at = 0,
         c.event = d.osc[o].event
  PROVE  FineOsc(StoppedOsc(c), o, d.num, d.behind) /\ StoppedOsc(c).rank = c.rank
<1> DEFINE f == StoppedOsc(c)
<1>1. StopOf(f, c)
  BY StoppedIs
<1> HIDE DEF f
<1>2. \E t \in Int : c.event \subseteq {t}
  BY FineIs DEF FineOsc, OscOK
<1>3. OscOK(f, o, d.num, d.behind, {})
  BY <1>1, <1>2 DEF StopOf, OscOK
<1> QED  BY <1>1, <1>3 DEF StopOf, FineOsc, f

(* A stopped oscillator that is to play is started, and perhaps its partner *)
(* with it.                                                                 *)
StartFrom(b, o, m, e) ==
  StartSound([b EXCEPT !.osc[o].halt = FALSE, !.osc[o].mode = m, !.osc[o].ie = e], o, 0, 0)

(* Started from its control register, one that was stopped plays if it is   *)
(* enabled, and its partner is stopped or goes on as it was.                *)
LEMMA StartKeeps ==
  ASSUME NEW b, DocInv(b), b.behind = 0, NEW o \in Oscs, b.osc[o].halt, NEW m \in DocModes,
         NEW e \in BOOLEAN
  PROVE  DocInv(StartFrom(b, o, m, e))
<1> DEFINE c == b.osc[o]
           p == Partner(o)
           pc == b.osc[p]
           a == [c EXCEPT !.halt = FALSE, !.mode = m, !.ie = e]
           g == Put(b, o, a)
           along == /\ o < g.num /\ o % 2 = 0 /\ g.osc[o].mode = "sync"
                    /\ g.osc[p].halt /\ g.osc[p].mode = "sync"
           pa == [pc EXCEPT !.halt = FALSE]
           gp == [g EXCEPT !.osc[p].halt = FALSE]
           g1 == IF along THEN StartOne(gp, p, 0, 0) ELSE g
<1>0. p \in Oscs /\ p # o /\ Partner(p) = o
  BY PartnerIs
<1>1. /\ b \in Docs /\ c \in Osc /\ pc \in Osc /\ b.num \in Nat /\ c.running = FALSE
      /\ pc.running = ~pc.halt /\ c.pos < c.wave.size /\ pc.pos < pc.wave.size
      /\ c.at = 0 /\ pc.at = 0
  BY <1>0, FineIs DEF FineOsc
<1>2. /\ a \in Osc /\ a.halt = FALSE /\ a.ie = e /\ a.running = FALSE /\ a.mode = m
      /\ a.pos < a.wave.size
      /\ a.rank = c.rank /\ a.event = c.event /\ a.at = 0
  <2>1. SetOf(a, c, FALSE, m, e)
    BY <1>1, SetsIs
  <2> HIDE DEF a
  <2> QED  BY <1>1, <2>1 DEF SetOf
<1>3. [b EXCEPT !.osc[o].halt = FALSE, !.osc[o].mode = m, !.osc[o].ie = e] = g
  BY <1>1 DEF Put, Docs
<1> HIDE DEF a
<1>4. PutOf(g, b, o, a)
  BY <1>1, <1>2, PutIs
<1>5. StartSound(g, o, 0, 0) = StartOne(g1, o, 0, 0)
  BY DEF StartSound
<1>6. \A f : Put(g, o, f) = Put(b, o, f)
  BY <1>1 DEF Put, Docs
<1> HIDE DEF g
<1>7. g \in Docs /\ g.osc[o] = a /\ g.osc[p] = pc /\ g.num = b.num
  BY <1>0, <1>4 DEF PutOf
<1> DEFINE w == e \/ pc.ie
           fo == IF o >= b.num THEN StoppedOsc(a) ELSE Started(a, w, 0, 0)
           fp == IF p >= b.num THEN StoppedOsc(pa) ELSE Started(pa, w, 0, 0)
<1>8. w \in BOOLEAN /\ (pc.ie => w)
  BY <1>1 DEF Osc
<1>9. FineOsc(fo, o, b.num, 0) /\ fo.rank = c.rank
  <2>1. CASE o >= b.num
    BY <1>2, <2>1, StopsFine DEF SetAs
  <2>2. CASE ~(o >= b.num)
    <3>1. o < b.num /\ (a.ie => w)
      BY <1>1, <1>2, <2>2 DEF Oscs
    <3> HIDE DEF w
    <3> QED  BY <1>1, <1>2, <1>8, <2>2, <3>1, StartsFine
  <2> QED  BY <2>1, <2>2
<1>10. CASE ~along
  <2>1. StartOne(g, o, 0, 0) = Put(g, o, fo)
    <3>1. g.osc[o].running = FALSE /\ g.osc[o].halt = FALSE
      BY <1>2, <1>7
    <3>2. NowStarts(g, o)
      BY <1>7, <3>1, StartsNow
    <3> QED  BY <1>2, <1>7, <3>2 DEF NowStarts
  <2>2. StartSound(g, o, 0, 0) = Put(b, o, fo)
    BY <1>5, <1>6, <1>10, <2>1
  <2> HIDE DEF fo
  <2>3. DocInv(Put(b, o, fo))
    BY <1>9, FinePut
  <2> QED  BY <1>3, <2>2, <2>3 DEF StartFrom
<1>11. CASE along
  <2>0. pc.halt /\ pc.running = FALSE
    BY <1>1, <1>7, <1>11
  <2>1. /\ pa \in Osc /\ pa.halt = FALSE /\ pa.running = FALSE /\ pa.ie = pc.ie /\ pa.rank = pc.rank
        /\ pa.event = pc.event /\ pa.pos < pa.wave.size /\ pa.at = 0
    BY <1>1, <2>0 DEF Osc
  <2>2. gp = Put(g, p, pa)
    BY <1>0, <1>7 DEF Put, Docs
  <2> HIDE DEF pa, gp
  <2>3. PutOf(gp, g, p, pa)
    BY <1>0, <1>7, <2>1, <2>2, PutIs
  <2>4. gp \in Docs /\ gp.osc[p] = pa /\ gp.osc[o] = a /\ gp.num = b.num
    BY <1>0, <1>7, <2>3 DEF PutOf
  <2>5. StartOne(gp, p, 0, 0) = Put(gp, p, fp)
    <3>1. gp.osc[p].running = FALSE /\ gp.osc[p].halt = FALSE
      BY <2>1, <2>4
    <3>2. NowStarts(gp, p)
      BY <1>0, <2>4, <3>1, StartsNow
    <3>5. (pa.ie \/ a.ie) = w
      BY <1>1, <1>2, <2>1 DEF Osc
    <3> HIDE DEF p, w
    <3> QED  BY <1>0, <2>4, <3>2, <3>5 DEF w, NowStarts
  <2>6. FineOsc(fp, p, b.num, 0) /\ fp.rank = pc.rank
    <3>1. CASE p >= b.num
      BY <1>0, <2>1, <3>1, StopsFine DEF SetAs
    <3>2. CASE ~(p >= b.num)
      <4>1. p < b.num /\ (pa.ie => w)
        BY <1>0, <1>1, <2>1, <3>2 DEF Oscs
      <4> HIDE DEF w
      <4> QED  BY <1>0, <1>1, <2>1, <1>8, <3>2, <4>1, StartsFine
    <3> QED  BY <3>1, <3>2
  <2>7. fp.ie = pc.ie
    <3>1. CASE p >= b.num
      BY <2>1, <3>1, StoppedIs DEF StopOf
    <3>2. CASE ~(p >= b.num)
      <4>1. StartOf(Started(pa, w, 0, 0), pa, w, 0, 0)
        <5> HIDE DEF w
        <5> QED  BY <2>1, <1>8, StartedIs
      <4> QED  BY <2>1, <3>2, <4>1 DEF StartOf
    <3> QED  BY <3>1, <3>2
  <2> HIDE DEF fp
  <2>8. Put(gp, p, fp) = Put(g, p, fp)
    BY <1>0, <1>7, <2>2 DEF Put, Docs
  <2>9. PutOf(Put(g, p, fp), g, p, fp)
    BY <1>0, <1>7, <2>6, PutIs DEF FineOsc
  <2> DEFINE y == Put(g, p, fp)
  <2>10. y \in Docs /\ y.osc[o] = a /\ y.osc[p] = fp /\ y.num = b.num
    BY <1>0, <1>7, <2>9 DEF PutOf
  <2>11. g1 = y
    BY <1>11, <2>5, <2>8
  <2>12. Put(y, o, fo) = Put(Put(b, p, fp), o, fo)
    <3>1. g = Put(b, o, a)
      BY DEF g
    <3> HIDE DEF fo, p
    <3> QED  BY <1>0, <1>1, <3>1 DEF Put, Docs
  <2> HIDE DEF y, g1
  <2>13. StartOne(y, o, 0, 0) = Put(y, o, fo)
    <3>1. y.osc[o].running = FALSE /\ y.osc[o].halt = FALSE
      BY <1>2, <2>10
    <3>2. NowStarts(y, o)
      BY <2>10, <3>1, StartsNow
    <3> QED  BY <1>2, <2>7, <2>10, <3>2 DEF NowStarts
  <2> HIDE DEF fo, p
  <2>14. DocInv(Put(b, p, fp)) /\ PutOf(Put(b, p, fp), b, p, fp)
    BY <1>0, <2>6, FinePut
  <2> DEFINE z == Put(b, p, fp)
  <2>15. z.num = b.num /\ z.behind = 0 /\ z.osc[o] = c
    BY <1>0, <2>14 DEF PutOf
  <2> HIDE DEF z
  <2>16. DocInv(Put(z, o, fo))
    BY <1>9, <2>14, <2>15, FinePut DEF z
  <2> QED  BY <1>3, <1>5, <2>11, <2>12, <2>13, <2>16 DEF z, StartFrom
<1> QED  BY <1>10, <1>11

(* An oscillator that plays is to interrupt now.                            *)
LEMMA EstimateKeeps ==
  ASSUME NEW c \in Osc, NEW i \in Oscs, NEW num \in Int, NEW w \in BOOLEAN, c.pos < c.wave.size,
         c.running = TRUE, c.halt = FALSE, c.at = 0, i < num, c.ie => w
  PROVE  /\ FineOsc(Estimated(c, w, 0, 0), i, num, 0)
         /\ Estimated(c, w, 0, 0).rank = c.rank
<1> DEFINE f == Estimated(c, w, 0, 0)
<1>1. EstimateOf(f, c, w, 0, 0)
  BY EstimatedIs
<1> HIDE DEF f
<1>2. StartsOf(f, w, 0, 0) /\ f \in Osc /\ f.pos < f.wave.size /\ (f.ie => w)
  BY <1>1 DEF EstimateOf, StartsOf, Waits, MeetsZero
<1>3. OscOK(f, i, num, 0, {})
  BY <1>2, StartsOK
<1>4. f.left \in Int
  BY <1>2, DocAssumption DEF Osc
<1>5. f.at = 0 /\ (f.ie => f.event = {f.left - 0})
  BY <1>2, <1>4 DEF StartsOf
<1> QED  BY <1>1, <1>2, <1>3, <1>5 DEF FineOsc, EstimateOf, f

(* sound_play keeps the invariant.                                          *)
LEMMA UpdateKeeps ==
  ASSUME NEW d, DocInv(d)
  PROVE  DocInv(SoundPlay(d)) /\ UpToDate(SoundPlay(d), d, {})
<1>1. UpToDate(SoundPlay(d), d, {})
  BY SoundPlayIs DEF DocInv, Settled
<1> QED  BY <1>1 DEF UpToDate, DocInv

(* The program knows whether the oscillator plays.                          *)
KnownOf(d, o) ==
  LET c == SoundPlay(d).osc[o]
  IN  c.halt = d.osc[o].halt /\ c.running = d.osc[o].running

(* Any write of a control register keeps it, if the program knows what it   *)
(* stops or starts.                                                         *)
LEMMA WriteKeeps ==
  ASSUME NEW d, DocInv(d), NEW o \in Oscs, KnownOf(d, o),
         NEW h \in BOOLEAN, NEW m \in DocModes, NEW e \in BOOLEAN, NEW other \in BOOLEAN
  PROVE  DocInv(WriteCtl(d, o, h, m, e, other))
<1> DEFINE c == d.osc[o]
           d1 == RemoveSoundIrq(d, o, FALSE)
           b == SoundPlay(d1)
           a == [b.osc[o] EXCEPT !.halt = h, !.mode = m, !.ie = e]
           g == [b EXCEPT !.osc[o].halt = h, !.osc[o].mode = m, !.osc[o].ie = e]
           x == WriteCtl(d, o, h, m, e, other)
<1>1. CASE h
  <2>1. StopsOf(WriteCtl(d, o, TRUE, m, e, other), d, o, {})
    BY StopKeeps DEF DocInv
  <2>2. h = TRUE
    BY <1>1
  <2> QED  BY <2>1, <2>2 DEF StopsOf, DocInv
<1>2. CASE ~h /\ <<c.halt, c.mode, c.ie>> = <<h, m, e>> /\ ~other
  BY <1>2 DEF WriteCtl
<1>3. CASE ~h /\ ~(<<c.halt, c.mode, c.ie>> = <<h, m, e>> /\ ~other)
  <2>0. h = FALSE
    BY <1>3
  <2>1. x = IF c.halt THEN StartSound(g, o, 0, 0)
            ELSE IF e /\ ~c.ie THEN WaveEndEstimate(g, o, 0, 0) ELSE g
    BY <1>3 DEF WriteCtl
  <2>2. Requeued(d1, d) /\ RankOK(d1)
    BY RemoveKeeps DEF DocInv
  <2>3. DocInv(d1) /\ Twins(d1, d, FALSE)
    BY <2>2, RequeuedOK DEF DocInv
  <2>4. PlayedAlike(d1, d, FALSE)
    BY <2>3, PlayedTwins DEF DocInv
  <2>5. SetAs(d1.osc[o], c)
    BY <2>3 DEF Twins, SameFlow
  <2> HIDE DEF d1, x
  <2>6. DocInv(b) /\ UpToDate(b, d1, {})
    BY <2>3, UpdateKeeps
  <2>7. b.osc[o].halt = c.halt /\ b.osc[o].running = c.running
    BY <2>4 DEF PlayedAlike, KnownOf
  <2>8. SetAs(b.osc[o], c) /\ b.behind = 0
    BY <2>5, <2>6 DEF UpToDate, Leaving, SetAs
  <2> HIDE DEF b
  <2>9. FineOsc(b.osc[o], o, b.num, 0) /\ b \in Docs /\ b.num \in Nat /\ b.osc[o].halt \in BOOLEAN
        /\ b.osc[o].running = ~b.osc[o].halt /\ b.osc[o].pos < b.osc[o].wave.size
    BY <2>6, <2>8, FineIs
  <2>10. CASE c.halt
    <3>1. x = StartFrom(b, o, m, e)
      BY <2>0, <2>1, <2>10 DEF StartFrom
    <3>2. DocInv(StartFrom(b, o, m, e))
      BY <2>6, <2>7, <2>8, <2>10, StartKeeps
    <3> QED  BY <3>1, <3>2 DEF x
  <2>11. CASE ~c.halt
    <3>1. b.osc[o].halt = FALSE /\ b.osc[o].running = TRUE /\ o < b.num
      BY <2>7, <2>9, <2>11 DEF FineOsc, OscOK
    <3>2. SetOf(a, b.osc[o], FALSE, m, e)
      BY <2>0, <2>9, SetsIs DEF FineOsc
    <3>3. g = Put(b, o, a)
      BY <2>9 DEF Put, Docs
    <3> HIDE DEF a, g
    <3>4. PutOf(g, b, o, a)
      BY <2>9, <3>2, <3>3, PutIs DEF SetOf
    <3>5. CASE e /\ ~c.ie
      <4> DEFINE p == Partner(o)
                 w == a.ie \/ b.osc[p].ie
                 f == Estimated(a, w, 0, 0)
      <4>1. p \in Oscs /\ p # o
        BY PartnerIs
      <4>2. w = TRUE /\ g.osc[p] = b.osc[p] /\ g.osc[o] = a /\ g \in Docs
        BY <3>2, <3>4, <3>5, <4>1 DEF SetOf, PutOf
      <4> HIDE DEF p
      <4>3. WaveEndEstimate(g, o, 0, 0) = Put(g, o, f)
        BY <4>2 DEF WaveEndEstimate, Put, Docs, p
      <4>4. Put(g, o, f) = Put(b, o, f)
        <5> HIDE DEF f
        <5> QED  BY <2>9, <3>3 DEF Put, Docs
      <4>5. /\ a \in Osc /\ a.pos < a.wave.size /\ a.running = TRUE /\ a.halt = FALSE /\ a.at = 0
            /\ a.rank = b.osc[o].rank
        BY <2>9, <3>1, <3>2 DEF SetOf, FineOsc
      <4> HIDE DEF w
      <4>6. FineOsc(f, o, b.num, 0) /\ f.rank = a.rank
        <5>1. w \in BOOLEAN /\ (a.ie => w)
          BY <4>2
        <5>2. b.num \in Int
          BY <2>9
        <5> QED  BY <3>1, <4>5, <5>1, <5>2, EstimateKeeps, Zenon
      <4> HIDE DEF f
      <4>7. DocInv(Put(b, o, f))
        BY <2>6, <2>8, <4>5, <4>6, FinePut
      <4>8. x = Put(b, o, f)
        BY <2>1, <2>11, <3>5, <4>3, <4>4 DEF f
      <4> QED  BY <4>7, <4>8 DEF x
    <3>6. CASE ~(e /\ ~c.ie)
      <4>1. FineOsc(a, o, b.num, 0) /\ a.rank = b.osc[o].rank
        <5>1. a.ie => b.osc[o].ie
          BY <2>8, <3>2, <3>6 DEF SetOf, SetAs
        <5>2. a.running = b.osc[o].running /\ a.halt = b.osc[o].halt
          BY <3>1, <3>2 DEF SetOf
        <5>3. OscOK(a, o, b.num, 0, {})
          BY <2>9, <3>2, <5>1, <5>2 DEF FineOsc, OscOK, SetOf, Shape, MeetsZero
        <5> QED  BY <2>9, <3>2, <5>1, <5>2, <5>3 DEF FineOsc, SetOf
      <4>2. DocInv(g)
        BY <2>6, <2>8, <3>3, <4>1, FinePut
      <4>3. x = g
        BY <2>1, <2>11, <3>6
      <4> QED  BY <4>2, <4>3 DEF x
    <3> QED  BY <3>5, <3>6
  <2> QED  BY <2>10, <2>11
<1> QED  BY <1>1, <1>2, <1>3

(* The other registers of an oscillator                                     *)
LEMMA RetuneKeeps ==
  ASSUME NEW d, DocInv(d), NEW o \in Oscs, ~d.osc[o].running, NEW w \in Waves
  PROVE  DocInv([Played(d, o) EXCEPT !.osc[o].wave = w, !.osc[o].pos = @ % w.size])
<1> DEFINE c == d.osc[o]
           pos == c.pos % w.size
           f == [c EXCEPT !.wave = w, !.pos = pos]
<1>1. FineOsc(c, o, d.num, d.behind) /\ c \in Osc /\ d \in Docs /\ c.running = ~c.halt
  BY FineIs DEF FineOsc
<1>2. Played(d, o) = d
  BY <1>1 DEF Played
<1>3. w.size \in 1..MaxSize /\ c.pos \in Nat /\ MaxSize \in Nat
  BY <1>1, DocAssumption DEF Waves, Osc
<1>4. pos \in 0..MaxSize - 1 /\ pos < w.size
  BY <1>3
<1>5. [d EXCEPT !.osc[o].wave = w, !.osc[o].pos = @ % w.size] = Put(d, o, f)
  BY <1>1 DEF Put, Docs
<1> HIDE DEF pos
<1>6. /\ f \in Osc /\ f.wave = w /\ f.pos = pos /\ f.running = c.running /\ f.halt = c.halt
      /\ f.event = c.event /\ f.rank = c.rank /\ f.at = c.at
  BY <1>1, <1>4 DEF Osc
<1> HIDE DEF f
<1>7. FineOsc(f, o, d.num, d.behind)
  BY <1>1, <1>4, <1>6 DEF FineOsc, OscOK
<1>8. DocInv(Put(d, o, f))
  BY <1>6, <1>7, FinePut
<1> QED  BY <1>2, <1>5, <1>8

(* A new volume keeps it, unless the oscillator waits for its end silently. *)
LEMMA VolumeKeeps ==
  ASSUME NEW d, DocInv(d), NEW o \in Oscs,
         ~(d.osc[o].running /\ d.osc[o].silent /\ d.osc[o].left = 1)
  PROVE  DocInv([d EXCEPT !.osc[o].silent = ~@])
<1> DEFINE c == d.osc[o]
           v == ~c.silent
           f == [c EXCEPT !.silent = v]
<1>1. FineOsc(c, o, d.num, d.behind) /\ c \in Osc /\ d \in Docs
  BY FineIs DEF FineOsc
<1>2. [d EXCEPT !.osc[o].silent = ~@] = Put(d, o, f)
  BY <1>1 DEF Put, Docs
<1> HIDE DEF v
<1>3. v \in BOOLEAN
  BY DEF v
<1>4. /\ f \in Osc /\ f.wave = c.wave /\ f.pos = c.pos /\ f.running = c.running /\ f.halt = c.halt
      /\ f.event = c.event /\ f.rank = c.rank /\ f.at = c.at /\ f.left = c.left /\ f.ie = c.ie
  BY <1>1, <1>3 DEF Osc
<1> HIDE DEF f
<1>5. c.running => Shape(f)
  BY <1>1, <1>4 DEF FineOsc, OscOK, Shape, MeetsZero
<1>6. FineOsc(f, o, d.num, d.behind)
  BY <1>1, <1>4, <1>5 DEF FineOsc, OscOK
<1>7. DocInv(Put(d, o, f))
  BY <1>4, <1>6, FinePut
<1> QED  BY <1>2, <1>7

(* A read of $E0 keeps it.                                                  *)
LEMMA RemovesKeeps ==
  ASSUME NEW d, DocInv(d), d.e0 # NoOsc
  PROVE  DocInv(RemoveSoundIrq(d, d.e0, TRUE))
<1>1. Good(d, {}) /\ RankOK(d) /\ d \in Docs /\ d.count \in Nat
  BY DocAssumption DEF DocInv, Good, Docs
<1>2. d.count > 0
  BY <1>1 DEF RankOK
<1>3. d.e0 \in Oscs /\ d.osc[d.e0].rank = 1
  BY <1>1, <1>2 DEF RankOK
<1> DEFINE o == d.e0
           e == RemoveSoundIrq(d, o, TRUE)
<1>4. o \in Oscs /\ d.osc[o].rank > 0
  BY <1>3
<1> HIDE DEF o
<1>5. Requeued(e, d) /\ RankOK(e)
  BY <1>1, <1>4, RemoveKeeps
<1> HIDE DEF e
<1>6. Good(e, {}) /\ Settled(e, {})
  BY <1>1, <1>5, RequeuedOK DEF DocInv
<1> QED  BY <1>6 DEF DocInv, e, o

(* An event comes when the oscillator has ended.                            *)
LEMMA EventKeeps ==
  ASSUME NEW d, DocInv(d), NEW o \in Oscs, NEW t \in d.osc[o].event, t <= 0
  PROVE  DocInv(SoundPlay([d EXCEPT !.osc[o].event = {}]))
<1> DEFINE c == d.osc[o]
           e == [d EXCEPT !.osc[o].event = {}]
<1>1. Good(d, {}) /\ Settled(d, {}) /\ FineOsc(c, o, d.num, d.behind) /\ d.behind \in Nat
      /\ c \in Osc
  BY FineIs DEF DocInv, FineOsc
<1>2. Good(e, {} \cup {o}) /\ Settled(e, {} \cup {o}) /\ Twins(e, d, TRUE)
  BY <1>1, ForgetKeeps
<1> HIDE DEF e
<1>3. SameFlow(e.osc[o], c) /\ e.num = d.num /\ e.behind = d.behind
  BY <1>2 DEF Twins
<1>4. c.running /\ c.ie => c.left <= d.behind
  <2> SUFFICES ASSUME c.running, c.ie PROVE c.left <= d.behind
    OBVIOUS
  <2>1. c.event = {c.left - d.behind} /\ c.left \in Int
    BY <1>1, DocAssumption DEF FineOsc, Osc
  <2>2. t = c.left - d.behind
    BY <2>1
  <2> QED  BY <1>1, <2>1, <2>2
<1>5. OscOK(e.osc[o], o, e.num, e.behind, {})
  <2> DEFINE f == e.osc[o]
  <2>1. OscOK(f, o, e.num, e.behind, {} \cup {o}) /\ OscOK(c, o, d.num, d.behind, {})
    BY <1>1, <1>2 DEF Good, FineOsc
  <2> HIDE DEF f
  <2>2. SameFlow(f, c) /\ c.at = 0 /\ c.left \in Int
    BY <1>1, <1>3, DocAssumption DEF f, FineOsc, Osc
  <2>3. f.running /\ f.ie => f.at + f.left <= e.behind
    BY <1>3, <1>4, <2>2 DEF SameFlow, SetAs
  <2>4. f.running => o < e.num
    BY <1>3, <2>1, <2>2 DEF OscOK, SameFlow
  <2>5. OscOK(f, o, e.num, e.behind, {})
    BY <2>1, <2>3, <2>4 DEF OscOK
  <2> QED  BY <2>5 DEF f
<1>6. Good(e, {})
  <2>1. ASSUME NEW i \in Oscs PROVE OscOK(e.osc[i], i, e.num, e.behind, {})
    <3>1. CASE i = o
      BY <1>5, <3>1
    <3>2. CASE i # o
      <4>1. OscOK(e.osc[i], i, e.num, e.behind, {} \cup {o}) /\ i \notin {o}
        BY <1>2, <3>2 DEF Good
      <4> QED  BY <4>1 DEF OscOK
    <3> QED  BY <3>1, <3>2
  <2> QED  BY <1>2, <2>1 DEF Good
<1>7. \A i \in Oscs : e.osc[i].at = 0
  BY <1>2 DEF Settled
<1>8. UpToDate(SoundPlay(e), e, {})
  BY <1>6, <1>7, SoundPlayIs
<1> QED  BY <1>8 DEF UpToDate, DocInv, e

(* Steps that differ, one after the other                                   *)
Series(f, start, step, a, b) ==
  f[a] = start /\ \A i \in a + 1..b : f[i] = step[i][f[i - 1]]

(* Steps that stay in S can be made one after the other.                    *)
LEMMA SeriesExists ==
  ASSUME NEW S, NEW start \in S, NEW a \in Int, NEW b \in Int, a <= b,
         NEW step \in [a..b -> [S -> S]]
  PROVE  \E f \in [a..b -> S] : Series(f, start, step, a, b)
<1> DEFINE P(m) == \E f \in [a..m -> S] : Series(f, start, step, a, m)
           T == {m \in Nat : a + m <= b /\ ~P(a + m)}
<1>1. SUFFICES ASSUME ~P(b) PROVE FALSE
  OBVIOUS
<1>2. T # {}
  <2>1. b - a \in Nat /\ a + (b - a) = b
    OBVIOUS
  <2> HIDE DEF P
  <2>2. ~P(a + (b - a))
    BY <1>1, <2>1, Zenon
  <2>3. a + (b - a) <= b
    OBVIOUS
  <2>4. b - a \in T
    BY <2>1, <2>2, <2>3
  <2> HIDE DEF T
  <2> QED  BY <2>4
<1>3. PICK t \in T : \A y \in T : ~(y < t)
  BY <1>2, LeastOf
<1>4. P(a)
  <2>1. [i \in a..a |-> start] \in [a..a -> S] /\ [i \in a..a |-> start][a] = start
    OBVIOUS
  <2>2. \A i \in a + 1..a : FALSE
    OBVIOUS
  <2> QED  BY <2>1, <2>2 DEF Series
<1>5. t \in Nat /\ a + t <= b /\ ~P(a + t) /\ t # 0
  <2>1. t \in Nat /\ a + t <= b /\ ~P(a + t)
    OBVIOUS
  <2> HIDE DEF P
  <2>2. ASSUME t = 0 PROVE FALSE
    <3>1. a + t = a
      BY <2>2
    <3> QED  BY <1>4, <2>1, <3>1
  <2> QED  BY <2>1, <2>2
<1> DEFINE m == a + (t - 1)
<1>6. m \in Int /\ a <= m /\ m + 1 = a + t /\ m + 1 <= b /\ t - 1 \in Nat /\ a + (t - 1) <= b
  BY <1>5
<1>7. P(m)
  <2> HIDE DEF P
  <2>1. t - 1 \notin T
    <3> HIDE DEF T
    <3>1. t - 1 < t
      BY <1>5
    <3> QED  BY <1>3, <3>1
  <2> QED  BY <1>6, <2>1
<1>8. P(m + 1)
  <2> HIDE DEF m
  <2>1. PICK f \in [a..m -> S] : Series(f, start, step, a, m)
    BY <1>7
  <2> DEFINE g == [i \in a..m + 1 |-> IF i = m + 1 THEN step[m + 1][f[m]] ELSE f[i]]
  <2>2. f[m] \in S /\ step[m + 1] \in [S -> S]
    BY <1>6, <2>1
  <2>3. g \in [a..m + 1 -> S]
    BY <1>6, <2>1, <2>2
  <2>4. g[a] = start
    BY <1>6, <2>1 DEF Series
  <2>5. ASSUME NEW i \in a + 1..m + 1 PROVE g[i] = step[i][g[i - 1]]
    <3>1. i - 1 \in a..m /\ i \in a..m + 1 /\ g[i - 1] = f[i - 1]
      BY <1>6
    <3>2. CASE i = m + 1
      BY <1>6, <3>1, <3>2
    <3>3. CASE i # m + 1
      <4>1. i \in a + 1..m /\ g[i] = f[i]
        BY <1>6, <3>3
      <4> QED  BY <4>1, <3>1, <2>1 DEF Series
    <3> QED  BY <3>2, <3>3
  <2>6. Series(g, start, step, a, m + 1)
    BY <2>4, <2>5 DEF Series
  <2> QED  BY <2>3, <2>6
<1> HIDE DEF P, m
<1> QED  BY <1>5, <1>6, <1>8

-----------------------------------------------------------------------------
(* A step for each oscillator, from k on                                    *)
StepOsc(d, o, reset) == IF reset THEN ResetOsc(d, o) ELSE HaltOsc(d, o)
OscSeries(start, k, reset) ==
  CHOOSE h : h = [o \in k..NumOscs |-> IF o = k THEN start ELSE StepOsc(h[o - 1], o - 1, reset)]

(* C is that series, and stays in S,                                        *)
IsSeries(C, S, start, k, reset) ==
  /\ C \in [k..NumOscs -> S] /\ C[k] = start
  /\ \A o \in k + 1..NumOscs : C[o] = StepOsc(C[o - 1], o - 1, reset)

(* as it does if no step leaves it.                                         *)
LEMMA OscSeriesIs ==
  ASSUME NEW S, NEW start \in S, NEW k \in Int, k <= NumOscs, NEW reset \in BOOLEAN,
         \A s \in S : \A i \in k..NumOscs - 1 : StepOsc(s, i, reset) \in S
  PROVE  IsSeries(OscSeries(start, k, reset), S, start, k, reset)
<1> DEFINE step == [o \in k..NumOscs |-> IF o = k THEN [s \in S |-> s]
           ELSE [s \in S |-> StepOsc(s, o - 1, reset)]]
           eq(f) == f = [o \in k..NumOscs |-> IF o = k THEN start
             ELSE StepOsc(f[o - 1], o - 1, reset)]
           c == CHOOSE f : eq(f)
<1>0. NumOscs \in Int
  BY DocAssumption
<1>1. step \in [k..NumOscs -> [S -> S]]
  <2>1. ASSUME NEW o \in k..NumOscs, o # k PROVE o - 1 \in k..NumOscs - 1
    BY <1>0, <2>1
  <2>2. ASSUME NEW o \in k..NumOscs PROVE step[o] \in [S -> S]
    BY <2>1
  <2> QED  BY <2>2
<1>2. PICK h \in [k..NumOscs -> S] : Series(h, start, step, k, NumOscs)
  <2> HIDE DEF step
  <2> QED  BY <1>0, <1>1, SeriesExists
<1>3. eq(h)
  <2>1. ASSUME NEW o \in k..NumOscs PROVE h[o] = IF o = k THEN start
               ELSE StepOsc(h[o - 1], o - 1, reset)
    <3>1. CASE o = k
      BY <1>2, <3>1 DEF Series
    <3>2. CASE o # k
      <4>1. o \in k + 1..NumOscs /\ o - 1 \in k..NumOscs
        BY <1>0, <3>2
      <4>2. h[o] = step[o][h[o - 1]] /\ h[o - 1] \in S
        BY <1>2, <4>1 DEF Series
      <4>3. step[o] = [s \in S |-> StepOsc(s, o - 1, reset)]
        BY <3>2
      <4> HIDE DEF step
      <4> QED  BY <3>2, <4>2, <4>3
    <3> QED  BY <3>1, <3>2
  <2> QED  BY <2>1
<1>4. eq(c)
  <2> HIDE DEF eq
  <2> QED  BY <1>3
<1> DEFINE C == OscSeries(start, k, reset)
<1>5. C = c
  BY DEF OscSeries
<1> HIDE DEF C, c, step
<1>6. C = [o \in k..NumOscs |-> IF o = k THEN start ELSE StepOsc(C[o - 1], o - 1, reset)]
  BY <1>4, <1>5
<1>7. \A o \in k..NumOscs : C[o] = IF o = k THEN start ELSE StepOsc(C[o - 1], o - 1, reset)
  BY <1>6, Zenon
<1>8. DOMAIN C = k..NumOscs /\ C = [o \in k..NumOscs |-> C[o]]
  BY <1>6
<1>9. C[k] = start /\ \A o \in k + 1..NumOscs : C[o] = StepOsc(C[o - 1], o - 1, reset)
  <2>1. C[k] = start
    BY <1>0, <1>7
  <2>2. ASSUME NEW o \in k + 1..NumOscs PROVE C[o] = StepOsc(C[o - 1], o - 1, reset)
    <3>1. o \in k..NumOscs /\ o # k
      BY <1>0
    <3> QED  BY <1>7, <3>1
  <2> QED  BY <2>1, <2>2
<1>10. \A o \in k..NumOscs : C[o] \in S
  <2> DEFINE T == {n \in Nat : k + n <= NumOscs /\ C[k + n] \notin S}
  <2>1. T = {}
    <3>1. SUFFICES ASSUME T # {} PROVE FALSE
      OBVIOUS
    <3>2. PICK t \in T : \A y \in T : ~(y < t)
      BY <3>1, LeastOf
    <3>3. t \in Nat /\ k + t <= NumOscs /\ C[k + t] \notin S
      OBVIOUS
    <3>4. t # 0
      <4>1. C[k] \in S
        BY <1>9
      <4>2. k + 0 = k
        OBVIOUS
      <4> QED  BY <3>3, <4>1, <4>2
    <3>5. t - 1 \in Nat /\ k + (t - 1) <= NumOscs /\ t - 1 < t
      BY <1>0, <3>3, <3>4
    <3>6. C[k + (t - 1)] \in S
      BY <3>2, <3>5
    <3> DEFINE o == k + t
    <3>7. o \in k + 1..NumOscs /\ o - 1 = k + (t - 1) /\ o - 1 \in k..NumOscs - 1
      BY <1>0, <3>3, <3>4
    <3>8. C[o] = StepOsc(C[o - 1], o - 1, reset)
      BY <1>9, <3>7
    <3> HIDE DEF o
    <3>9. C[o] \in S
      BY <3>6, <3>7, <3>8
    <3> QED  BY <3>3, <3>9 DEF o
  <2>2. ASSUME NEW o \in k..NumOscs PROVE C[o] \in S
    <3>1. o - k \in Nat /\ k + (o - k) = o /\ o <= NumOscs
      BY <1>0
    <3>2. o - k \notin T
      BY <2>1
    <3> QED  BY <3>1, <3>2
  <2> QED  BY <2>2
<1>11. C \in [k..NumOscs -> S]
  BY <1>8, <1>10
<1> QED  BY <1>9, <1>11 DEF C, IsSeries

(* SetNumOscs is such a series,                                             *)
LEMMA NumIs ==
  ASSUME NEW d, NEW k
  PROVE  SetNumOscs(d, k) = OscSeries([d EXCEPT !.num = k], k, FALSE)[NumOscs]
  BY DEF SetNumOscs, OscSeries, StepOsc

(* and so is a reset.                                                       *)
LEMMA ResetIs ==
  ASSUME NEW d
  PROVE  AfterReset(d) = LET d1 == OscSeries(d, 0, TRUE)[NumOscs]
                         IN  [HaltIf(d1, d1.count > 0) EXCEPT !.count = 0, !.irq = FALSE]
  BY DEF AfterReset, OscSeries, StepOsc

(* Fewer oscillators are enabled.                                           *)
FewerOf(d, k) ==
  LET X == {i \in Oscs : i >= k}
  IN  {s \in Docs : Good(s, X) /\ Settled(s, X) /\ s.num = k}

(* At first those that are no longer enabled may still play,                *)
LEMMA FewerFirst ==
  ASSUME NEW d, DocInv(d), NEW k \in 1..NumOscs, \A o \in k..NumOscs - 1 : d.osc[o].rank = 0
  PROVE  [d EXCEPT !.num = k] \in FewerOf(d, k)
<1> DEFINE X == {i \in Oscs : i >= k}
           e == [d EXCEPT !.num = k]
<1>1. d \in Docs /\ RankOK(d) /\ d.halted = FALSE /\ d.behind \in Nat /\ k \in Nat
  BY DocAssumption DEF DocInv, Good, Docs
<1>2. /\ e \in Docs /\ e.num = k /\ e.osc = d.osc /\ e.e0 = d.e0 /\ e.count = d.count
      /\ e.irq = d.irq
      /\ e.behind = d.behind /\ e.halted = d.halted
  BY <1>1 DEF Docs
<1> HIDE DEF e
<1>3. \A i \in Oscs : e.osc[i].rank > 0 => i < k
  <2> SUFFICES ASSUME NEW i \in Oscs, d.osc[i].rank > 0, ~(i < k) PROVE FALSE
    BY <1>2
  <2>1. i \in k..NumOscs - 1
    BY DocAssumption DEF Oscs
  <2> QED  BY <2>1
<1>4. RankOK(e)
  BY <1>1, <1>2, <1>3 DEF RankOK
<1>5. ASSUME NEW i \in Oscs
      PROVE  OscOK(e.osc[i], i, k, e.behind, X)
  <2> DEFINE c == d.osc[i]
  <2>1. FineOsc(c, i, d.num, d.behind)
    BY FineIs
  <2>2. i < k \/ i \in X
    BY <1>1, DocAssumption DEF Oscs
  <2> HIDE DEF X, c
  <2>3. 0 <= c.at /\ c.at <= d.behind
    BY <1>1, <2>1 DEF FineOsc
  <2>4. OscOK(c, i, k, d.behind, X)
    BY <2>1, <2>2, <2>3 DEF FineOsc, OscOK
  <2> QED  BY <1>2, <2>4 DEF c
<1>6. Good(e, X)
  BY <1>1, <1>2, <1>4, <1>5 DEF Good
<1>7. Settled(e, X)
  BY <1>2, FineIs DEF Settled, FineOsc
<1> QED  BY <1>2, <1>6, <1>7 DEF FewerOf, e

(* until they are stopped, one by one,                                      *)
LEMMA HaltIs ==
  ASSUME NEW X, NEW d, Good(d, X), Settled(d, X), NEW o \in Oscs
  PROVE  StopsOf(HaltOsc(d, o), d, o, X) /\ (d.osc[o].halt => HaltOsc(d, o) = d)
<1>1. d.osc[o].mode \in DocModes /\ d.osc[o].ie \in BOOLEAN /\ d.osc[o].halt \in BOOLEAN
  BY GoodOsc DEF Osc
<1>2. StopsOf(HaltOsc(d, o), d, o, X)
  BY <1>1, StopKeeps DEF HaltOsc
<1>3. d.osc[o].halt => HaltOsc(d, o) = d
  BY <1>1 DEF HaltOsc, WriteCtl
<1> QED  BY <1>2, <1>3

(* which is when the invariant is back.                                     *)
LEMMA FewerKeeps ==
  ASSUME NEW d, DocInv(d), NEW k \in 1..NumOscs, \A o \in k..NumOscs - 1 : d.osc[o].rank = 0
  PROVE  DocInv(SetNumOscs(d, k))
<1> DEFINE X == {i \in Oscs : i >= k}
           F == FewerOf(d, k)
           start == [d EXCEPT !.num = k]
           C == OscSeries(start, k, FALSE)
<1>0. NumOscs \in Nat /\ k \in Nat /\ k <= NumOscs /\ k \in Int
  BY DocAssumption
<1>1. start \in F
  BY FewerFirst
<1>2. \A s \in F : Good(s, X) /\ Settled(s, X) /\ s.num = k
  BY DEF FewerOf
<1> HIDE DEF X, start
<1>3. ASSUME NEW s \in F, NEW i \in k..NumOscs - 1
      PROVE  StepOsc(s, i, FALSE) \in F /\ StepOsc(s, i, FALSE) = HaltOsc(s, i)
             /\ StopsOf(HaltOsc(s, i), s, i, X)
  <2>1. i \in Oscs
    BY <1>0 DEF Oscs
  <2>2. StopsOf(HaltOsc(s, i), s, i, X)
    BY <1>2, <2>1, HaltIs
  <2>3. HaltOsc(s, i) \in F
    BY <1>2, <2>2 DEF StopsOf, FewerOf, Good, X
  <2> QED  BY <2>2, <2>3 DEF StepOsc
<1> HIDE DEF F
<1>4. /\ C \in [k..NumOscs -> F]
      /\ \A o \in k + 1..NumOscs : C[o] = StepOsc(C[o - 1], o - 1, FALSE)
  <2> DEFINE no == FALSE
  <2>1. no \in BOOLEAN /\ \A s \in F : \A i \in k..NumOscs - 1 : StepOsc(s, i, no) \in F
    BY <1>3
  <2> HIDE DEF no
  <2>2. IsSeries(OscSeries(start, k, no), F, start, k, no)
    BY <1>0, <1>1, <2>1, OscSeriesIs
  <2> QED  BY <2>2 DEF IsSeries, no
<1> HIDE DEF C
<1>5. \A o \in k..NumOscs : \A j \in k..o - 1 : C[o].osc[j].running = FALSE
  <2> DEFINE Off(o) == \A j \in k..o - 1 : C[o].osc[j].running = FALSE
             T == {n \in Nat : k + n <= NumOscs /\ ~Off(k + n)}
  <2>1. T = {}
    <3>1. SUFFICES ASSUME T # {} PROVE FALSE
      OBVIOUS
    <3>2. PICK t \in T : \A y \in T : ~(y < t)
      BY <3>1, LeastOf
    <3>3. t \in Nat /\ k + t <= NumOscs /\ ~Off(k + t)
      OBVIOUS
    <3>4. t # 0
      BY <1>0, <3>3
    <3>5. t - 1 \in Nat /\ k + (t - 1) <= NumOscs /\ t - 1 < t
      BY <1>0, <3>3, <3>4
    <3>6. Off(k + (t - 1))
      <4> HIDE DEF Off
      <4> QED  BY <3>2, <3>5
    <3> DEFINE o == k + t
               q == k + (t - 1)
    <3>7. o \in k + 1..NumOscs /\ o - 1 = q /\ q \in k..NumOscs - 1 /\ q \in k..NumOscs
      BY <1>0, <3>3, <3>4
    <3>8. Off(q) /\ ~Off(o)
      BY <3>3, <3>6
    <3> HIDE DEF o, q
    <3>9. C[o] = HaltOsc(C[q], q) /\ StopsOf(HaltOsc(C[q], q), C[q], q, X) /\ C[q].num = k
      <4>1. C[q] \in F
        BY <1>4, <3>7
      <4>2. C[o] = StepOsc(C[q], q, FALSE)
        BY <1>4, <3>7
      <4> QED  BY <1>2, <1>3, <3>7, <4>1, <4>2
    <3>10. ASSUME NEW j \in k..o - 1 PROVE C[o].osc[j].running = FALSE
      <4>1. j \in Oscs /\ j >= k
        BY <1>0, <3>7 DEF Oscs
      <4>2. CASE j = q
        BY <3>9, <4>2 DEF StopsOf
      <4>3. CASE j # q
        <5>1. j \in k..q - 1
          BY <1>0, <3>7, <4>3
        <5> QED  BY <3>8, <3>9, <4>1, <4>3, <5>1 DEF StopsOf
      <4> QED  BY <4>2, <4>3
    <3> QED  BY <3>8, <3>10
  <2>2. ASSUME NEW o \in k..NumOscs PROVE Off(o)
    <3>1. o - k \in Nat /\ k + (o - k) = o /\ o <= NumOscs
      BY <1>0
    <3>2. o - k \notin T
      BY <2>1
    <3> HIDE DEF Off
    <3> QED  BY <3>1, <3>2
  <2> QED  BY <2>2
<1> DEFINE e == C[NumOscs]
<1>6. Good(e, X) /\ Settled(e, X) /\ e.num = k
  BY <1>0, <1>2, <1>4
<1>7. \A i \in Oscs : i >= k => e.osc[i].running = FALSE
  <2>1. \A i \in Oscs : i >= k => i \in k..NumOscs - 1
    BY <1>0 DEF Oscs
  <2>2. NumOscs \in k..NumOscs
    BY <1>0
  <2> QED  BY <1>5, <2>1, <2>2
<1> HIDE DEF e
<1>8. \A i \in X : i >= k
  BY DEF X
<1>9. ASSUME NEW i \in Oscs
      PROVE  OscOK(e.osc[i], i, e.num, e.behind, {})
             /\ (e.osc[i].running /\ e.osc[i].ie => e.osc[i].event = {e.osc[i].left - e.behind})
  <2>1. OscOK(e.osc[i], i, e.num, e.behind, X)
    BY <1>6 DEF Good
  <2>2. e.osc[i].running => i \notin X
    BY <1>7, <1>8
  <2> QED  BY <1>6, <2>1, <2>2 DEF OscOK, Settled
<1>10. Good(e, {}) /\ Settled(e, {})
  BY <1>6, <1>9 DEF Good, Settled
<1>11. SetNumOscs(d, k) = e
  BY NumIs DEF e, C, start
<1> QED  BY <1>10, <1>11 DEF DocInv

(* A reset when nobody interrupts, then or once what is due has been played *)
Quiet == {s \in Docs : DocInv(s) /\ s.count = 0 /\ SoundPlay(s).count = 0}

(* Nobody is in the queue then,                                             *)
LEMMA QuietIs ==
  ASSUME NEW s \in Quiet
  PROVE  /\ s \in Docs /\ s.e0 = NoOsc /\ s.irq = FALSE /\ s.count = 0
         /\ \A i \in Oscs : s.osc[i] \in Osc /\ s.osc[i].rank = 0
<1>1. s \in Docs /\ RankOK(s) /\ s.count = 0 /\ s.irq \in BOOLEAN
  BY DEF Quiet, DocInv, Good, Docs
<1>2. \A i \in Oscs : s.osc[i] \in Osc
  BY <1>1 DEF Docs
<1>3. \A i \in Oscs : s.osc[i].rank \in Nat
  BY <1>2, DocAssumption DEF Osc
<1>4. \A i \in Oscs : s.osc[i].rank <= 0
  BY <1>1 DEF RankOK
<1>5. \A i \in Oscs : s.osc[i].rank = 0
  BY <1>3, <1>4
<1> QED  BY <1>1, <1>2, <1>5 DEF RankOK

(* and nobody joins when one is stopped                                     *)
LEMMA QuietHalts ==
  ASSUME NEW s \in Quiet, NEW o \in Oscs
  PROVE  HaltOsc(s, o) \in Quiet
<1> DEFINE e == HaltOsc(s, o)
<1>1. s \in Docs /\ DocInv(s) /\ s.count = 0 /\ SoundPlay(s).count = 0
  BY DEF Quiet
<1>2. StopsOf(e, s, o, {}) /\ (s.osc[o].halt => e = s)
  BY <1>1, HaltIs DEF DocInv
<1> HIDE DEF e
<1>3. DocInv(e) /\ e.count = 0 /\ e \in Docs
  BY <1>1, <1>2 DEF StopsOf, DocInv, Good
<1>4. CASE s.osc[o].halt
  BY <1>2, <1>4 DEF e
<1>5. CASE ~s.osc[o].halt
  <2>1. e.behind = 0
    BY <1>2, <1>5 DEF StopsOf
  <2>2. SoundPlay(e) = e
    BY <2>1 DEF SoundPlay
  <2> QED  BY <1>3, <2>2 DEF Quiet, e
<1> QED  BY <1>4, <1>5

(* or reset,                                                                *)
LEMMA QuietResets ==
  ASSUME NEW s \in Quiet, NEW o \in Oscs
  PROVE  ResetOsc(s, o) \in Quiet
<1> DEFINE e == HaltOsc(s, o)
<1>1. e \in Quiet
  BY QuietHalts
<1>2. ResetOsc(s, o) = LET d1 == [e EXCEPT !.e0 = NoOsc]
                       IN  [HaltIf(d1, d1.osc[o].rank > 0) EXCEPT !.osc[o].rank = 0]
  BY DEF ResetOsc
<1> HIDE DEF e
<1>3. e \in Docs /\ e.e0 = NoOsc /\ e.osc[o] \in Osc /\ e.osc[o].rank = 0
  BY <1>1, QuietIs
<1>4. [e EXCEPT !.e0 = NoOsc] = e
  BY <1>3 DEF Docs
<1>5. HaltIf(e, e.osc[o].rank > 0) = e
  BY <1>3 DEF HaltIf
<1>6. [e EXCEPT !.osc[o].rank = 0] = e
  <2>1. [e.osc[o] EXCEPT !.rank = 0] = e.osc[o]
    BY <1>3 DEF Osc
  <2>2. [e.osc EXCEPT ![o] = e.osc[o]] = e.osc
    BY <1>3 DEF Docs
  <2> QED  BY <1>3, <2>1, <2>2 DEF Docs
<1> QED  BY <1>1, <1>2, <1>4, <1>5, <1>6

(* so that a reset has nobody to complain about.                            *)
LEMMA ResetKeeps ==
  ASSUME NEW d, DocInv(d), SoundPlay(d).count = 0
  PROVE  DocInv(AfterReset(d))
<1>1. d \in Quiet
  <2>1. UpToDate(SoundPlay(d), d, {}) /\ d \in Docs
    BY UpdateKeeps DEF DocInv, Good
  <2>2. d.count \in Nat /\ d.count <= 0
    BY <2>1, DocAssumption DEF UpToDate, Leaving, Docs
  <2> QED  BY <2>1, <2>2 DEF Quiet
<1> DEFINE C == OscSeries(d, 0, TRUE)
           e == C[NumOscs]
<1>2. ASSUME NEW s \in Quiet, NEW i \in 0..NumOscs - 1 PROVE StepOsc(s, i, TRUE) \in Quiet
  BY QuietResets DEF StepOsc, Oscs
<1>3. IsSeries(C, Quiet, d, 0, TRUE)
  <2> DEFINE yes == TRUE
             first == 0
  <2>1. \A s \in Quiet : \A i \in first..NumOscs - 1 : StepOsc(s, i, yes) \in Quiet
    BY <1>2
  <2>2. yes \in BOOLEAN /\ first \in Int /\ first <= NumOscs
    BY DocAssumption
  <2> HIDE DEF yes, first
  <2>3. IsSeries(OscSeries(d, first, yes), Quiet, d, first, yes)
    BY <1>1, <2>1, <2>2, OscSeriesIs
  <2> QED  BY <2>3 DEF yes, first
<1>4. AfterReset(d) = [HaltIf(e, e.count > 0) EXCEPT !.count = 0, !.irq = FALSE]
  BY ResetIs
<1> HIDE DEF C
<1>5. e \in Quiet
  BY <1>3, DocAssumption DEF IsSeries
<1> HIDE DEF e
<1>6. e \in Docs /\ e.count = 0 /\ e.irq = FALSE /\ DocInv(e)
  BY <1>5, QuietIs DEF Quiet
<1>7. HaltIf(e, e.count > 0) = e
  BY <1>6 DEF HaltIf
<1>8. [e EXCEPT !.count = 0, !.irq = FALSE] = e
  <2>1. e.irq = FALSE /\ e.count = 0
    BY <1>6
  <2>2. [e EXCEPT !.count = 0, !.irq = FALSE] = [e EXCEPT !.count = e.count, !.irq = e.irq]
    BY <2>1, Zenon
  <2>3. [e EXCEPT !.count = e.count, !.irq = e.irq] = e
    BY <1>6 DEF Docs
  <2> QED  BY <2>2, <2>3
<1> QED  BY <1>4, <1>6, <1>7, <1>8

-----------------------------------------------------------------------------
(* After power-up nothing plays.                                            *)
LEMMA DocStarts ==
  ASSUME DocInit
  PROVE  DocInv(doc)
<1>1. PICK w \in Waves :
        doc = [osc |-> [o \in Oscs |-> FreshOsc(w)], num |-> NumOscs, e0 |-> NoOsc, count |-> 0,
               irq |-> FALSE, behind |-> 0, halted |-> FALSE]
  BY DEF DocInit
<1>2. 0 \in 0..MaxSize - 1 /\ 0 \in 0..MaxSize + 1 /\ w.size \in 1..MaxSize /\ 0 \in 0..NumOscs
      /\ NumOscs \in 1..NumOscs /\ NumOscs \in 0..NumOscs /\ 0 \in 0..MaxBehind
  BY DocAssumption DEF Waves
<1>3. /\ FreshOsc(w) \in Osc /\ FreshOsc(w).running = FALSE /\ FreshOsc(w).halt = TRUE
      /\ FreshOsc(w).event = {} /\ FreshOsc(w).rank = 0 /\ FreshOsc(w).at = 0
      /\ FreshOsc(w).pos < FreshOsc(w).wave.size
  BY <1>2 DEF FreshOsc, Osc, DocModes
<1>4. /\ doc \in Docs /\ doc.num = NumOscs /\ doc.e0 = NoOsc /\ doc.count = 0 /\ doc.irq = FALSE
      /\ doc.behind = 0 /\ doc.halted = FALSE
      /\ \A i \in Oscs : doc.osc[i] = FreshOsc(w)
  <2> HIDE DEF FreshOsc
  <2> QED  BY <1>1, <1>2, <1>3 DEF Docs, NoOsc
<1> HIDE DEF FreshOsc
<1>5. RankOK(doc)
  BY <1>3, <1>4 DEF RankOK
<1>6. ASSUME NEW i \in Oscs PROVE OscOK(doc.osc[i], i, doc.num, doc.behind, {})
  <2>1. doc.osc[i].event \subseteq {0} /\ 0 \in Int
    BY <1>3, <1>4
  <2>2. \E t \in Int : doc.osc[i].event \subseteq {t}
    BY <2>1
  <2> QED  BY <1>3, <1>4, <2>2 DEF OscOK
<1> QED  BY <1>3, <1>4, <1>5, <1>6 DEF DocInv, Good, Settled

(* Each step keeps the invariant, if the program runs into none of the      *)
(* quirks.                                                                  *)
LEMMA DocStepsOn ==
  ASSUME Quirks = {}, DocInv(doc), DocNext
  PROVE  DocInv(doc')
<1>1. ASSUME NEW n \in 0..1, DocRuns(n)
      PROVE  DocInv(DocPassed(n)) /\ PassedOf(DocPassed(n), doc, n)
  <2>1. n \in Nat /\ doc.behind + n <= MaxBehind
    BY <1>1 DEF DocRuns
  <2> QED  BY <2>1, PassedKeeps
<1>2. ASSUME NEW n \in 0..1, DocIdle(n) PROVE DocInv(doc')
  BY <1>1, <1>2 DEF DocIdle
<1>3. ASSUME NEW n \in 0..1, ReadE0(n) PROVE DocInv(doc')
  <2>1. DocInv(DocPassed(n)) /\ DocPassed(n).e0 = doc.e0
    BY <1>1, <1>3 DEF ReadE0, PassedOf
  <2>2. CASE doc.e0 = NoOsc
    BY <1>3, <2>1, <2>2 DEF ReadE0
  <2>3. CASE doc.e0 # NoOsc
    <3>1. doc' = RemoveSoundIrq(DocPassed(n), DocPassed(n).e0, TRUE)
      BY <1>3, <2>1, <2>3 DEF ReadE0
    <3> QED  BY <2>1, <2>3, <3>1, RemovesKeeps
  <2> QED  BY <2>2, <2>3
<1>4. ASSUME NEW n \in 0..1, WriteE1(n) PROVE DocInv(doc')
  <2>1. PICK k \in 1..NumOscs : /\ \A o \in k..NumOscs - 1 : doc.osc[o].rank = 0
                                /\ doc' = SetNumOscs(DocPassed(n), k)
    BY <1>4 DEF WriteE1
  <2>2. DocInv(DocPassed(n)) /\ \A o \in Oscs : DocPassed(n).osc[o].rank = doc.osc[o].rank
    BY <1>1, <1>4 DEF WriteE1, PassedOf
  <2>3. \A o \in k..NumOscs - 1 : o \in Oscs
    BY DocAssumption DEF Oscs
  <2> QED  BY <2>1, <2>2, <2>3, FewerKeeps
<1>5. ASSUME NEW n \in 0..1, NEW o \in Oscs, Control(n, o, DocModes, BOOLEAN) PROVE DocInv(doc')
  <2>1. DocInv(DocPassed(n)) /\ KnownOf(DocPassed(n), o)
    BY <1>1, <1>5 DEF Control, Known, KnownOf
  <2>2. PICK h \in BOOLEAN, other \in BOOLEAN, m \in DocModes, e \in BOOLEAN :
          doc' = WriteCtl(DocPassed(n), o, h, m, e, other)
    BY <1>5 DEF Control
  <2> QED  BY <2>1, <2>2, WriteKeeps
<1>6. ASSUME NEW n \in 0..1, NEW o \in Oscs, Retune(n, o, Waves) PROVE DocInv(doc')
  <2>1. DocInv(DocPassed(n)) /\ ~doc.osc[o].running /\ SameFlow(DocPassed(n).osc[o], doc.osc[o])
    BY <1>1, <1>6 DEF Retune, PassedOf
  <2>2. ~DocPassed(n).osc[o].running
    BY <2>1 DEF SameFlow
  <2>3. PICK w \in Waves :
          doc' = [Played(DocPassed(n), o) EXCEPT !.osc[o].wave = w, !.osc[o].pos = @ % w.size]
    BY <1>6 DEF Retune
  <2> QED  BY <2>1, <2>2, <2>3, RetuneKeeps
<1>7. ASSUME NEW n \in 0..1, NEW o \in Oscs, Volume(n, o) PROVE DocInv(doc')
  <2> DEFINE d == Played(DocPassed(n), o)
  <2>1. DocInv(DocPassed(n))
    BY <1>1, <1>7 DEF Volume
  <2>2. DocInv(d)
    BY <2>1, UpdateKeeps DEF Played
  <2>3. ~(d.osc[o].running /\ d.osc[o].silent /\ d.osc[o].left = 1)
        /\ doc' = [d EXCEPT !.osc[o].silent = ~@]
    BY <1>7 DEF Volume
  <2> HIDE DEF d
  <2> QED  BY <2>2, <2>3, VolumeKeeps
<1>8. ASSUME NEW o \in Oscs, DocEvent(o) PROVE DocInv(doc')
  BY <1>8, EventKeeps DEF DocEvent
<1>9. ASSUME SoundUpdate PROVE DocInv(doc')
  BY <1>9, UpdateKeeps DEF SoundUpdate
<1>10. ASSUME DocReset PROVE DocInv(doc')
  BY <1>10, ResetKeeps DEF DocReset
<1> QED  BY <1>2, <1>3, <1>4, <1>5, <1>6, <1>7, <1>8, <1>9, <1>10 DEF DocNext, DocSteps

-----------------------------------------------------------------------------
(* With the invariant the ranks agree with $E0, the count and the line.     *)
LEMMA DocAgrees ==
  ASSUME DocInv(doc)
  PROVE  RanksAgree
<1>1. doc \in Docs /\ RankOK(doc) /\ doc.count \in Nat /\ doc.irq \in BOOLEAN
  BY DocAssumption DEF DocInv, Good, Docs
<1>2. ASSUME NEW o \in Oscs PROVE doc.osc[o] \in Osc /\ Cardinality(doc.osc[o].event) <= 1
  <2>1. doc.osc[o] \in Osc
    BY <1>1 DEF Docs
  <2>2. PICK t \in Int : doc.osc[o].event \subseteq {t}
    BY DEF DocInv, Good, OscOK
  <2>3. doc.osc[o].event = {} \/ doc.osc[o].event = {t}
    BY <2>2
  <2>4. CASE doc.osc[o].event = {}
    <3>1. Cardinality(doc.osc[o].event) = 0
      BY <2>4, FS_EmptySet, Zenon
    <3> QED  BY <2>1, <3>1
  <2>5. CASE doc.osc[o].event = {t}
    <3>1. Cardinality(doc.osc[o].event) = 1
      BY <2>5, FS_Singleton, Zenon
    <3> QED  BY <2>1, <3>1
  <2> QED  BY <2>3, <2>4, <2>5
<1>3. DocTypeOK
  BY <1>1, <1>2 DEF DocTypeOK, Docs
<1>4. RankedIn(doc) = Ranked
  BY DEF RankedIn, Ranked
<1>5. Cardinality(Ranked) = doc.count
  BY <1>1, <1>4, RankedCount
<1>6. \A i \in Oscs : doc.osc[i].rank \in Nat
  BY <1>2, DocAssumption DEF Osc
<1>7. {doc.osc[o].rank : o \in Ranked} = 1..doc.count
  <2>1. ASSUME NEW o \in Ranked PROVE doc.osc[o].rank \in 1..doc.count
    BY <1>1, <1>6 DEF Ranked, RankOK
  <2>2. ASSUME NEW k \in 1..doc.count PROVE \E o \in Ranked : doc.osc[o].rank = k
    <3>1. PICK o \in Oscs : doc.osc[o].rank = k
      BY <1>1 DEF RankOK
    <3> QED  BY <3>1 DEF Ranked
  <2> QED  BY <2>1, <2>2
<1>8. NoOsc \notin Oscs
  BY DocAssumption DEF Oscs, NoOsc
<1>9. CASE doc.count = 0
  <2>0. \A i \in Oscs : doc.osc[i].rank <= 0
    BY <1>1, <1>9 DEF RankOK
  <2>1. doc.e0 = NoOsc /\ Ranked = {}
    BY <1>1, <1>6, <1>9, <2>0 DEF RankOK, Ranked
  <2> QED  BY <1>1, <1>3, <1>5, <1>7, <1>9, <2>1 DEF RanksAgree, RankOK
<1>10. CASE doc.count # 0
  <2>1. doc.count > 0
    BY <1>1, <1>10
  <2>2. doc.e0 \in Oscs /\ doc.osc[doc.e0].rank = 1
    BY <1>1, <2>1 DEF RankOK
  <2>3. doc.e0 # NoOsc /\ doc.e0 \in Ranked
    BY <1>8, <2>2 DEF Ranked
  <2> QED  BY <1>1, <1>3, <1>5, <1>7, <2>1, <2>2, <2>3 DEF RanksAgree, RankOK
<1> QED  BY <1>9, <1>10

(* The invariant holds of the chip                                          *)
DocSound == DocInv(doc)

(* in every state a program without the quirks can bring it into.           *)
LEMMA DocAlways ==
  ASSUME Quirks = {}
  PROVE  DocSpec => []DocSound
<1>1. DocInit => DocSound
  BY DocStarts DEF DocSound
<1>2. DocSound /\ [DocNext]_doc => DocSound'
  <2>1. CASE DocNext
    BY <2>1, DocStepsOn DEF DocSound
  <2>2. CASE doc' = doc
    BY <2>2 DEF DocSound
  <2> QED  BY <2>1, <2>2
<1> QED  BY <1>1, <1>2, PTL DEF DocSpec

(* The oscillators that interrupt are numbered as they came, without a gap  *)
(* or a double, $E0 names the first and the IRQ line is up while there is   *)
(* one: whatever the program does but run into the quirks, for any number   *)
(* of oscillators and any waves.                                            *)
THEOREM QueueAlwaysOrdered ==
  ASSUME Quirks = {}
  PROVE  DocSpec => []RanksAgree
<1>1. DocSound => RanksAgree
  BY DocAgrees DEF DocSound
<1> QED  BY <1>1, DocAlways, PTL

(* No end of a wave that is to interrupt is missed: as long as it plays,    *)
(* there is exactly one event on the list for it, at the sample in which it *)
(* ends.                                                                    *)
THEOREM EndsAlwaysForeseen ==
  ASSUME Quirks = {}
  PROVE  DocSpec => []EndsForeseen
<1>1. DocSound => EndsForeseen
  BY DEF DocSound, DocInv, Settled, EndsForeseen
<1> QED  BY <1>1, DocAlways, PTL

(* None of the inconsistencies doc.c looks for, and halts the emulator for, *)
(* ever arises.                                                             *)
THEOREM NothingEverComplains ==
  ASSUME Quirks = {}
  PROVE  DocSpec => []NeverComplains
<1>1. DocSound => NeverComplains
  <2>1. ASSUME DocSound, NEW o \in Oscs PROVE doc.osc[o].running <=> ~doc.osc[o].halt
    BY <2>1, FineIs DEF DocSound
  <2> QED  BY <2>1 DEF DocSound, DocInv, Good, NeverComplains
<1> QED  BY <1>1, DocAlways, PTL

=============================================================================
