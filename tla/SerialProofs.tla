----------------------------- MODULE SerialProofs -----------------------------
(***************************************************************************)
(* Proofs about Serial: the chip, the port and the line, for every size of  *)
(* the buffers, every wiring and setting, and every set of characters,      *)
(* bytes and options.  What the operators on one channel preserve (ChanOK,  *)
(* RxOK) and do to its line of characters are lemmas, and so is what the    *)
(* operators on a port preserve (PortsOK) and what a message does to the    *)
(* phase of an option (Phase); the actions are compositions of those        *)
(* operators.                                                               *)
(***************************************************************************)
EXTENDS Serial, SequenceTheorems, WellFoundedInduction, TLAPS

(* What a channel always satisfies, even between the steps of a handler     *)
ChanOK(c) ==
  /\ c \in Channel
  /\ Len(c.rxQueue) <= Held
  /\ Len(c.inBuf) < InSize
  /\ \A k \in Kinds : c.queued[k] = IF c.pending[k] THEN 1 ELSE 0
  /\ ~c.txEmpty => c.pending["tx"]

(* ... and what holds when a handler has called scc_maybe_rx_int            *)
RxOK(c) == "RX" \in c.want => c.rxQueue # <<>>

LineOf(c) == c.rxQueue \o c.inBuf

-----------------------------------------------------------------------------
(* Operators on a channel                                                   *)

LEMMA RxIntLemma ==
  ASSUME NEW c, ChanOK(c)
  PROVE  /\ ChanOK(RxInt(c)) /\ RxOK(RxInt(c))
         /\ RxInt(c).mie = c.mie /\ LineOf(RxInt(c)) = LineOf(c)
         /\ CanPull(RxInt(c)) <=> CanPull(c)
         /\ RxInt(c).rxQueue = c.rxQueue /\ RxInt(c).inBuf = c.inBuf
<1>1. /\ RxInt(c) = [c EXCEPT !.want = RxInt(c).want]
      /\ RxInt(c).want \in SUBSET Lines
      /\ RxOK(RxInt(c))
  BY DEF RxInt, RxOK, ChanOK, Channel, Lines
<1> DEFINE w == RxInt(c).want
<1>2. RxInt(c) = [c EXCEPT !.want = w] /\ w \in SUBSET Lines
  BY <1>1
<1> HIDE DEF w
<1>3. ChanOK(RxInt(c))
  BY <1>2 DEF ChanOK, Channel
<1>4. /\ RxInt(c).mie = c.mie /\ LineOf(RxInt(c)) = LineOf(c)
      /\ CanPull(RxInt(c)) <=> CanPull(c)
      /\ RxInt(c).rxQueue = c.rxQueue /\ RxInt(c).inBuf = c.inBuf
  BY <1>2 DEF ChanOK, Channel, LineOf, CanPull
<1> QED BY <1>1, <1>3, <1>4

LEMMA ScheduleLemma ==
  ASSUME NEW c, ChanOK(c), NEW k \in Kinds, ~c.pending[k]
  PROVE  /\ ChanOK(Schedule(c, k)) /\ (RxOK(c) => RxOK(Schedule(c, k)))
         /\ Schedule(c, k).mie = c.mie
         /\ Schedule(c, k).want = c.want
         /\ Schedule(c, k).pending[k]
         /\ Schedule(c, k).rxQueue = c.rxQueue /\ Schedule(c, k).inBuf = c.inBuf
         /\ k # "rx" => Schedule(c, k).pending["rx"] = c.pending["rx"]
<1>1. c.pending \in [Kinds -> BOOLEAN] /\ c.queued \in [Kinds -> Nat]
  BY DEF ChanOK, Channel
<1>2. Schedule(c, k) = [c EXCEPT !.pending = [c.pending EXCEPT ![k] = TRUE],
                                 !.queued = [c.queued EXCEPT ![k] = @ + 1]]
  BY DEF Schedule
<1> DEFINE pe == [c.pending EXCEPT ![k] = TRUE]
           qu == [c.queued EXCEPT ![k] = @ + 1]
<1>3. /\ pe \in [Kinds -> BOOLEAN] /\ qu \in [Kinds -> Nat]
      /\ pe[k] /\ (k # "rx" => pe["rx"] = c.pending["rx"])
      /\ c.pending["tx"] => pe["tx"]
  <2>1. qu \in [Kinds -> Nat]
    BY <1>1
  <2>2. pe \in [Kinds -> BOOLEAN] /\ pe[k]
    BY <1>1
  <2>3. \A j \in Kinds : j # k => pe[j] = c.pending[j]
    BY <1>1
  <2>4. "rx" \in Kinds /\ "tx" \in Kinds
    BY DEF Kinds
  <2> HIDE DEF pe, qu
  <2>5. (k # "rx" => pe["rx"] = c.pending["rx"]) /\ (c.pending["tx"] => pe["tx"])
    BY <2>2, <2>3, <2>4
  <2> QED BY <2>1, <2>2, <2>5
<1>4. ASSUME NEW j \in Kinds PROVE qu[j] = IF pe[j] THEN 1 ELSE 0
  <2>1. c.queued[j] = IF c.pending[j] THEN 1 ELSE 0
    BY DEF ChanOK
  <2>2. CASE j = k
    BY <1>1, <2>1, <2>2
  <2>3. CASE j # k
    <3>1. pe[j] = c.pending[j] /\ qu[j] = c.queued[j]
      BY <1>1, <2>3
    <3> QED BY <2>1, <3>1
  <2> QED BY <2>2, <2>3
<1> HIDE DEF pe, qu
<1>5. Schedule(c, k) = [c EXCEPT !.pending = pe, !.queued = qu]
  BY <1>2 DEF pe, qu
<1> DEFINE d == [c EXCEPT !.pending = pe, !.queued = qu]
<1>6. /\ d \in Channel /\ d.pending = pe /\ d.queued = qu
      /\ d.rxQueue = c.rxQueue /\ d.inBuf = c.inBuf /\ d.txEmpty = c.txEmpty
      /\ d.mie = c.mie /\ d.want = c.want
  BY <1>1, <1>3 DEF ChanOK, Channel
<1> HIDE DEF d
<1>7. Schedule(c, k) = d
  BY <1>5 DEF d
<1>8. ChanOK(d)
  BY <1>3, <1>4, <1>6 DEF ChanOK
<1> QED BY <1>1, <1>3, <1>6, <1>7, <1>8 DEF RxOK

LEMMA MoveUp ==
  ASSUME NEW S, NEW s \in Seq(S), NEW t \in Seq(S), t # <<>>
  PROVE  /\ Append(s, Head(t)) \in Seq(S) /\ Tail(t) \in Seq(S)
         /\ Append(s, Head(t)) \o Tail(t) = s \o t
         /\ Len(Append(s, Head(t))) = Len(s) + 1
         /\ Len(Tail(t)) = Len(t) - 1
<1>1. /\ Head(t) \in S /\ Tail(t) \in Seq(S) /\ Len(Tail(t)) = Len(t) - 1
      /\ \A i \in 1..(Len(t) - 1) : Tail(t)[i] = t[i + 1]
  BY HeadTailProperties
<1>2. Append(s, Head(t)) \in Seq(S) /\ Len(Append(s, Head(t))) = Len(s) + 1
  BY <1>1
<1> DEFINE l == Append(s, Head(t)) \o Tail(t)
           r == s \o t
<1>3. l \in Seq(S) /\ r \in Seq(S) /\ Len(l) = Len(r)
  BY <1>1, <1>2, EmptySeq
<1>4. ASSUME NEW i \in 1..Len(l) PROVE l[i] = r[i]
  BY <1>1, <1>2, <1>3, EmptySeq
<1>5. l = r
  BY <1>3, <1>4, SeqEqual
<1> QED BY <1>1, <1>2, <1>5

LEMMA PullLemma ==
  ASSUME NEW c, ChanOK(c)
  PROVE  /\ ChanOK(Pull(c)) /\ (RxOK(c) => RxOK(Pull(c)))
         /\ Pull(c).mie = c.mie /\ LineOf(Pull(c)) = LineOf(c)
         /\ ~CanPull(Pull(c))
         /\ c.rxQueue # <<>> => Pull(c).rxQueue # <<>>
<1>1. CASE ~CanPull(c)
  BY <1>1 DEF Pull
<1>2. CASE CanPull(c)
  <2> DEFINE mm == [c EXCEPT !.rxQueue = Append(@, Head(c.inBuf)), !.inBuf = Tail(@)]
  <2>0. /\ c.rxQueue \in Seq(Chars) /\ c.inBuf \in Seq(Chars) /\ c.inBuf # <<>>
        /\ Len(c.rxQueue) < 3 /\ ~c.pending["rx"] /\ "rx" \in Kinds
    BY <1>2 DEF CanPull, ChanOK, Channel, Held, Kinds
  <2>1. /\ Append(c.rxQueue, Head(c.inBuf)) \in Seq(Chars) /\ Tail(c.inBuf) \in Seq(Chars)
        /\ Append(c.rxQueue, Head(c.inBuf)) \o Tail(c.inBuf) = LineOf(c)
        /\ Len(Append(c.rxQueue, Head(c.inBuf))) = Len(c.rxQueue) + 1
        /\ Len(Tail(c.inBuf)) = Len(c.inBuf) - 1
    BY <2>0, MoveUp DEF LineOf
  <2>2. Len(c.rxQueue) \in Nat /\ Len(c.inBuf) \in Nat
    BY <2>0, LenProperties
  <2>3. /\ mm.rxQueue = Append(c.rxQueue, Head(c.inBuf)) /\ mm.inBuf = Tail(c.inBuf)
        /\ mm \in Channel /\ mm.pending = c.pending /\ mm.queued = c.queued
        /\ mm.txEmpty = c.txEmpty /\ mm.mie = c.mie
    BY <2>1 DEF ChanOK, Channel
  <2> HIDE DEF mm
  <2>4. ChanOK(mm) /\ LineOf(mm) = LineOf(c)
    <3>1. ChanOK(mm)
      BY SccAssumption, <2>0, <2>1, <2>2, <2>3 DEF ChanOK, Held
    <3>2. LineOf(mm) = LineOf(c)
      BY <2>1, <2>3, Zenon DEF LineOf
    <3> QED BY <3>1, <3>2
  <2> DEFINE r == RxInt(mm)
  <2>5. /\ ChanOK(r) /\ RxOK(r) /\ r.mie = c.mie /\ LineOf(r) = LineOf(c)
        /\ r.rxQueue = mm.rxQueue
    BY <2>3, <2>4, RxIntLemma
  <2>6. r.pending = mm.pending
    BY <2>3 DEF RxInt, Channel
  <2> HIDE DEF r
  <2>7. ~r.pending["rx"]
    BY <2>0, <2>3, <2>6
  <2>8. Pull(c) = Schedule(r, "rx")
    BY <1>2 DEF Pull, r, mm
  <2>9. /\ ChanOK(Schedule(r, "rx")) /\ RxOK(Schedule(r, "rx"))
        /\ Schedule(r, "rx").mie = r.mie
        /\ Schedule(r, "rx").pending["rx"]
        /\ Schedule(r, "rx").rxQueue = r.rxQueue /\ Schedule(r, "rx").inBuf = r.inBuf
    BY <2>0, <2>5, <2>7, ScheduleLemma
  <2>10. mm.rxQueue # <<>>
    BY <2>1, <2>2, <2>3, EmptySeq
  <2> QED BY <2>5, <2>8, <2>9, <2>10 DEF CanPull, LineOf
<1> QED BY <1>1, <1>2

LEMMA LineAppend ==
  ASSUME NEW s \in Seq(Chars), NEW t \in Seq(Chars), NEW e \in Chars
  PROVE  s \o Append(t, e) = Append(s \o t, e)
<1>1. s \o t \in Seq(Chars) /\ <<e>> \in Seq(Chars)
  BY ConcatProperties
<1>2. s \o Append(t, e) = s \o (t \o <<e>>) /\ Append(s \o t, e) = (s \o t) \o <<e>>
  BY <1>1, AppendIsConcat
<1> QED BY <1>1, <1>2, ConcatAssociative

LEMMA LineTail ==
  ASSUME NEW s \in Seq(Chars), NEW t \in Seq(Chars), s # <<>>
  PROVE  /\ Tail(s) \o t = Tail(s \o t) /\ s \o t # <<>>
         /\ Tail(s) \in Seq(Chars) /\ Len(Tail(s)) = Len(s) - 1
<1> DEFINE u == s \o t
           l == Tail(s) \o t
           r == Tail(s \o t)
<1>1. /\ Tail(s) \in Seq(Chars) /\ Len(Tail(s)) = Len(s) - 1
      /\ \A i \in 1..Len(Tail(s)) : Tail(s)[i] = s[i + 1]
      /\ Len(s) \in Nat \ {0} /\ Len(t) \in Nat
  BY HeadTailProperties, EmptySeq, LenProperties
<1>2. /\ u \in Seq(Chars) /\ Len(u) = Len(s) + Len(t) /\ u # <<>>
      /\ \A i \in 1..(Len(s) + Len(t)) : u[i] = IF i <= Len(s) THEN s[i] ELSE t[i - Len(s)]
  BY <1>1, ConcatProperties, EmptySeq
<1>3. /\ r \in Seq(Chars) /\ Len(r) = Len(u) - 1
      /\ \A i \in 1..Len(r) : r[i] = u[i + 1]
  BY <1>2, HeadTailProperties
<1>4. /\ l \in Seq(Chars) /\ Len(l) = Len(Tail(s)) + Len(t)
      /\ \A i \in 1..(Len(Tail(s)) + Len(t)) :
           l[i] = IF i <= Len(Tail(s)) THEN Tail(s)[i] ELSE t[i - Len(Tail(s))]
  BY <1>1, ConcatProperties
<1> HIDE DEF l, r, u
<1>5. Len(l) = Len(r)
  BY <1>1, <1>2, <1>3, <1>4
<1>6. ASSUME NEW i \in 1..Len(l) PROVE l[i] = r[i]
  <2>1. i + 1 \in 1..(Len(s) + Len(t)) /\ r[i] = u[i + 1]
    BY <1>1, <1>2, <1>3, <1>4, <1>5
  <2>2. CASE i <= Len(s) - 1
    BY <1>1, <1>2, <1>4, <2>1, <2>2
  <2>3. CASE i > Len(s) - 1
    <3>1. l[i] = t[i - (Len(s) - 1)] /\ u[i + 1] = t[(i + 1) - Len(s)]
      BY <1>1, <1>2, <1>4, <2>1, <2>3
    <3>2. i - (Len(s) - 1) = (i + 1) - Len(s)
      BY <1>1
    <3> QED BY <2>1, <3>1, <3>2
  <2> QED BY <1>1, <2>2, <2>3
<1>7. l = r
  BY <1>3, <1>4, <1>5, <1>6, SeqEqual
<1> QED BY <1>1, <1>2, <1>7 DEF l, r, u

LEMMA AddLemma ==
  ASSUME NEW c, ChanOK(c), NEW e \in Chars
  PROVE  LET d == AddToReadbuf(c, e)
         IN  /\ ChanOK(d) /\ RxOK(d) /\ d.mie = c.mie /\ ~CanPull(d)
             /\ LineOf(d) \in {LineOf(c), Append(LineOf(c), e)}
<1> DEFINE mm == [c EXCEPT !.inBuf = IF Len(@) + 1 < InSize THEN Append(@, e) ELSE @]
<1>1. /\ c.inBuf \in Seq(Chars) /\ c.rxQueue \in Seq(Chars) /\ Len(c.inBuf) \in Nat
      /\ Append(c.inBuf, e) \in Seq(Chars) /\ Len(Append(c.inBuf, e)) = Len(c.inBuf) + 1
  BY LenProperties, AppendProperties DEF ChanOK, Channel
<1>2. /\ mm \in Channel /\ mm.rxQueue = c.rxQueue /\ mm.pending = c.pending
      /\ mm.queued = c.queued /\ mm.txEmpty = c.txEmpty /\ mm.mie = c.mie
      /\ mm.inBuf = IF Len(c.inBuf) + 1 < InSize THEN Append(c.inBuf, e) ELSE c.inBuf
  BY <1>1 DEF ChanOK, Channel
<1> HIDE DEF mm
<1>3. ChanOK(mm)
  BY <1>1, <1>2 DEF ChanOK
<1>4. LineOf(mm) \in {LineOf(c), Append(LineOf(c), e)}
  <2>1. c.rxQueue \o Append(c.inBuf, e) = Append(c.rxQueue \o c.inBuf, e)
    BY <1>1, LineAppend
  <2>2. mm.inBuf \in {c.inBuf, Append(c.inBuf, e)} /\ mm.rxQueue = c.rxQueue
    BY <1>2
  <2> QED BY <2>1, <2>2, Zenon DEF LineOf
<1>5. ChanOK(Pull(mm)) /\ Pull(mm).mie = mm.mie /\ LineOf(Pull(mm)) = LineOf(mm) /\ ~CanPull(Pull(mm))
  BY <1>3, PullLemma
<1> DEFINE d == RxInt(Pull(mm))
<1>6. ChanOK(d) /\ RxOK(d) /\ d.mie = mm.mie /\ ~CanPull(d) /\ LineOf(d) = LineOf(mm)
  BY <1>5, RxIntLemma
<1>7. AddToReadbuf(c, e) = d
  BY DEF AddToReadbuf, mm
<1> HIDE DEF d
<1> QED BY <1>2, <1>4, <1>6, <1>7

LEMMA TakeLemma ==
  ASSUME NEW c, ChanOK(c), c.rxQueue # <<>>
  PROVE  LET d == Take(c)
         IN  /\ ChanOK(d) /\ RxOK(d) /\ d.mie = c.mie /\ ~CanPull(d)
             /\ LineOf(d) = Tail(LineOf(c)) /\ LineOf(c) # <<>>
<1> DEFINE mm == [c EXCEPT !.rxQueue = Tail(@)]
<1>1. c.inBuf \in Seq(Chars) /\ c.rxQueue \in Seq(Chars) /\ Len(c.rxQueue) \in Nat
  BY LenProperties DEF ChanOK, Channel
<1>2. /\ Tail(c.rxQueue) \o c.inBuf = Tail(LineOf(c)) /\ LineOf(c) # <<>>
      /\ Tail(c.rxQueue) \in Seq(Chars) /\ Len(Tail(c.rxQueue)) = Len(c.rxQueue) - 1
  BY <1>1, LineTail DEF LineOf
<1>3. /\ mm \in Channel /\ mm.rxQueue = Tail(c.rxQueue) /\ mm.pending = c.pending
      /\ mm.queued = c.queued /\ mm.txEmpty = c.txEmpty /\ mm.mie = c.mie
      /\ mm.inBuf = c.inBuf
  BY <1>2 DEF ChanOK, Channel
<1> HIDE DEF mm
<1>4. ChanOK(mm) /\ LineOf(mm) = Tail(LineOf(c))
  <2>1. ChanOK(mm)
    BY <1>1, <1>2, <1>3 DEF ChanOK, Held
  <2>2. LineOf(mm) = Tail(LineOf(c))
    BY <1>2, <1>3, Zenon DEF LineOf
  <2> QED BY <2>1, <2>2
<1>5. ChanOK(Pull(mm)) /\ Pull(mm).mie = mm.mie /\ LineOf(Pull(mm)) = LineOf(mm) /\ ~CanPull(Pull(mm))
  BY <1>4, PullLemma
<1> DEFINE d == RxInt(Pull(mm))
<1>6. ChanOK(d) /\ RxOK(d) /\ d.mie = mm.mie /\ ~CanPull(d) /\ LineOf(d) = LineOf(mm)
  BY <1>5, RxIntLemma
<1>7. Take(c) = d
  BY DEF Take, mm
<1> HIDE DEF d
<1> QED BY <1>2, <1>3, <1>4, <1>6, <1>7

-----------------------------------------------------------------------------
(* Operators that leave the characters alone                                *)

(* What stays: the characters, the event that moves them, the enable.       *)
Same(c, d) ==
  /\ d.rxQueue = c.rxQueue /\ d.inBuf = c.inBuf /\ d.pending["rx"] = c.pending["rx"]
  /\ d.mie = c.mie

OK(c) == ChanOK(c) /\ RxOK(c)

LEMMA FullLemma ==
  ASSUME NEW b, OK(b), b.pending["tx"]
  PROVE  LET d == [b EXCEPT !.txEmpty = FALSE]
         IN  OK(d) /\ Same(b, d) /\ d.want = b.want
<1> DEFINE d == [b EXCEPT !.txEmpty = FALSE]
<1>1. /\ d \in Channel /\ d.rxQueue = b.rxQueue /\ d.inBuf = b.inBuf
      /\ d.pending = b.pending /\ d.queued = b.queued /\ d.mie = b.mie
      /\ d.want = b.want
  <2>1. b \in Channel
    BY DEF OK, ChanOK
  <2> QED BY ONLY <2>1 DEF Channel
<1> HIDE DEF d
<1>2. OK(d) /\ Same(b, d) /\ d.want = b.want
  BY <1>1 DEF OK, ChanOK, RxOK, Same
<1> QED BY <1>2 DEF d

LEMMA TxStartLemma ==
  ASSUME NEW c, OK(c)
  PROVE  OK(TxStart(c)) /\ Same(c, TxStart(c)) /\ TxStart(c).want = c.want
<1>0. "tx" \in Kinds /\ c \in Channel
  BY DEF Kinds, OK, ChanOK
<1> DEFINE f(b) == [b EXCEPT !.txEmpty = FALSE]
<1>1. ASSUME NEW b, OK(b), b.pending["tx"] PROVE OK(f(b)) /\ Same(b, f(b)) /\ f(b).want = b.want
  BY <1>1, FullLemma
<1>2. CASE c.pending["tx"]
  BY <1>1, <1>2 DEF TxStart
<1>3. CASE ~c.pending["tx"]
  <2> DEFINE s == Schedule(c, "tx")
  <2>1. OK(s) /\ Same(c, s) /\ s.want = c.want /\ s.pending["tx"]
    BY <1>0, <1>3, ScheduleLemma DEF OK, Same
  <2>2. TxStart(c) = f(s)
    <3> DEFINE pe == [c.pending EXCEPT !["tx"] = TRUE]
               qu == [c.queued EXCEPT !["tx"] = @ + 1]
               a == [c EXCEPT !.txEmpty = FALSE]
    <3>1. a.pending = c.pending /\ a.queued = c.queued
      BY <1>0 DEF Channel
    <3>2. TxStart(c) = [a EXCEPT !.pending = pe, !.queued = qu]
      BY <1>3, <3>1 DEF TxStart, Schedule
    <3>3. s = [c EXCEPT !.pending = pe, !.queued = qu]
      BY DEF Schedule
    <3> HIDE DEF pe, qu, s
    <3>4. [a EXCEPT !.pending = pe, !.queued = qu]
            = [[c EXCEPT !.pending = pe, !.queued = qu] EXCEPT !.txEmpty = FALSE]
      BY <1>0 DEF Channel
    <3> QED BY <3>2, <3>3, <3>4
  <2>3. OK(f(s)) /\ Same(s, f(s)) /\ f(s).want = s.want
    BY <1>1, <2>1
  <2> HIDE DEF s, f
  <2> QED BY <2>1, <2>2, <2>3 DEF Same
<1> QED BY <1>2, <1>3

LEMMA BrStartLemma ==
  ASSUME NEW c, OK(c)
  PROVE  OK(BrStart(c)) /\ Same(c, BrStart(c)) /\ BrStart(c).want = c.want
<1>1. CASE BrStart(c) = c
  BY <1>1 DEF Same
<1>2. CASE ~c.pending["br"] /\ BrStart(c) = Schedule(c, "br")
  <2>1. "br" \in Kinds
    BY DEF Kinds
  <2> QED BY <1>2, <2>1, ScheduleLemma DEF OK, Same
<1> QED BY <1>1, <1>2 DEF BrStart

LEMMA ResetPortLemma ==
  ASSUME NEW c, ChanOK(c)
  PROVE  LET d == ResetPort(c)
         IN  OK(d) /\ d.rxQueue = <<>> /\ d.inBuf = c.inBuf /\ d.pending = c.pending
             /\ d.mie = c.mie /\ d.want = {}
<1> DEFINE d == ResetPort(c)
<1>2. Len(<<>>) = 0 /\ <<>> \in Seq(Chars)
  BY EmptySeq
<1>1. /\ d \in Channel /\ d.rxQueue = <<>> /\ d.inBuf = c.inBuf /\ d.pending = c.pending
      /\ d.queued = c.queued /\ d.mie = c.mie /\ d.want = {} /\ d.txEmpty = TRUE
  BY <1>2 DEF ResetPort, ChanOK, Channel
<1> HIDE DEF d
<1>3. OK(d)
  BY <1>1, <1>2 DEF ChanOK, OK, RxOK, Held
<1> QED BY <1>1, <1>3 DEF d

LEMMA HardResetLemma ==
  ASSUME NEW ch \in [Ports -> Channel], NEW p \in Ports, \A q \in Ports : ChanOK(ch[q])
  PROVE  LET h == HardResetPort(ch, p)
         IN  /\ h \in [Ports -> Channel] /\ \A q \in Ports : ChanOK(h[q])
             /\ RxOK(h[p]) /\ \A q \in Ports : RxOK(ch[q]) => RxOK(h[q])
             /\ h[p].rxQueue = <<>> /\ h[p].inBuf = ch[p].inBuf /\ h[p].want = {}
             /\ h[p].pending["rx"] = ch[p].pending["rx"]
             /\ ~h[A].mie
             /\ \A q \in Ports \ {p} :
                  /\ h[q].rxQueue = ch[q].rxQueue /\ h[q].inBuf = ch[q].inBuf
                  /\ h[q].pending["rx"] = ch[q].pending["rx"] /\ h[q].want = ch[q].want
<1>0. A \in Ports
  BY DEF Ports
<1> DEFINE r == ResetPort(ch[p])
           d == [r EXCEPT !.brOn = FALSE, !.rxInt = FALSE, !.txInt = FALSE]
           g == [ch EXCEPT ![p] = d]
           a == [g[A] EXCEPT !.mie = FALSE]
           h == [g EXCEPT ![A] = a]
<1>1. OK(r) /\ r.rxQueue = <<>> /\ r.inBuf = ch[p].inBuf /\ r.pending = ch[p].pending /\ r.want = {}
  BY ResetPortLemma
<1> HIDE DEF r
<1>2. r \in Channel
  BY <1>1 DEF OK, ChanOK
<1>3. /\ d \in Channel /\ d.rxQueue = r.rxQueue /\ d.inBuf = r.inBuf /\ d.pending = r.pending
      /\ d.queued = r.queued /\ d.want = r.want /\ d.txEmpty = r.txEmpty
  BY ONLY <1>2 DEF Channel
<1> HIDE DEF d
<1>4. ChanOK(d) /\ RxOK(d)
  BY <1>1, <1>3 DEF OK, ChanOK, RxOK
<1>5. /\ g \in [Ports -> Channel] /\ g[p] = d /\ \A q \in Ports \ {p} : g[q] = ch[q]
  BY <1>3
<1> HIDE DEF g
<1>6. \A q \in Ports : ChanOK(g[q]) /\ g[q] \in Channel
  BY <1>4, <1>5
<1>7. g[A] \in Channel
  BY <1>0, <1>6
<1>8. /\ a \in Channel /\ a.rxQueue = g[A].rxQueue /\ a.inBuf = g[A].inBuf
      /\ a.pending = g[A].pending /\ a.queued = g[A].queued /\ a.want = g[A].want
      /\ a.txEmpty = g[A].txEmpty /\ a.mie = FALSE
  BY ONLY <1>7 DEF Channel
<1> HIDE DEF a
<1>9. ChanOK(a) /\ (RxOK(g[A]) => RxOK(a))
  BY <1>0, <1>6, <1>8 DEF ChanOK, RxOK
<1>10. /\ h \in [Ports -> Channel] /\ h[A] = a /\ \A q \in Ports \ {A} : h[q] = g[q]
  BY <1>0, <1>5, <1>8
<1> HIDE DEF h
<1>11. \A q \in Ports :
        /\ ChanOK(h[q]) /\ (RxOK(g[q]) => RxOK(h[q])) /\ h[q].rxQueue = g[q].rxQueue
        /\ h[q].inBuf = g[q].inBuf /\ h[q].pending = g[q].pending /\ h[q].want = g[q].want
  BY <1>6, <1>8, <1>9, <1>10
<1>12. HardResetPort(ch, p) = h
  <2>1. /\ [ch EXCEPT ![p] = [ResetPort(@) EXCEPT !.brOn = FALSE, !.rxInt = FALSE,
                                                !.txInt = FALSE]] = g
    BY DEF g, d, r
  <2> QED BY <2>1 DEF HardResetPort, h, a
<1>13. ~h[A].mie
  BY <1>8, <1>10
<1> QED BY <1>1, <1>3, <1>4, <1>5, <1>10, <1>11, <1>12, <1>13

-----------------------------------------------------------------------------
(* Interrupts, and the inductive invariant                                  *)

(* What scc_evaluate_ints makes true of its own port, and leaves of others  *)
LEMMA EvaluateLemma ==
  ASSUME NEW ch, NEW q \in SUBSET (Ports \X Lines), NEW p \in Ports,
         ch[p].want \in SUBSET Lines
  PROVE  LET e == Evaluate(ch, q, p)
         IN  /\ e \in SUBSET (Ports \X Lines)
             /\ ~ch[A].mie => e = {}
             /\ \A l \in Lines : <<p, l>> \in e => l \in ch[p].want
             /\ ch[A].mie /\ ch[p].want # {} => \E l \in Lines : <<p, l>> \in e
             /\ ch[A].mie => \A r \in Ports \ {p}, l \in Lines : <<r, l>> \in e <=> <<r, l>> \in q
<1> DEFINE e == Evaluate(ch, q, p)
           w == {p} \X ch[p].want
<1>1. CASE ~ch[A].mie
  BY <1>1 DEF Evaluate
<1>2. CASE ch[A].mie
  <2>1. e = AddIrq(q, w) \ (({p} \X Lines) \ w)
    BY <1>2 DEF Evaluate, Bits
  <2>2. \/ AddIrq(q, w) = q /\ q \cap w # {}
        \/ AddIrq(q, w) = q \cup w /\ q \cap w = {}
    <3> HIDE DEF w
    <3>1. CASE q \cap w = {}
      BY <3>1, Zenon DEF AddIrq
    <3>2. CASE q \cap w # {}
      BY <3>2, Zenon DEF AddIrq
    <3> QED BY <3>1, <3>2
  <2>3. w \in SUBSET ({p} \X Lines)
    OBVIOUS
  <2> HIDE DEF e
  <2>4. e \in SUBSET (Ports \X Lines)
    BY <2>1, <2>2, <2>3
  <2>5. ASSUME NEW l \in Lines, <<p, l>> \in e PROVE l \in ch[p].want
    BY <2>1, <2>5
  <2>6. ASSUME NEW l \in ch[p].want PROVE \E mm \in Lines : <<p, mm>> \in e
    <3>1. CASE q \cap w # {}
      <4>1. PICK x \in q \cap w : TRUE
        BY <3>1
      <4>2. PICK mm \in ch[p].want : x = <<p, mm>>
        BY <4>1
      <4> QED BY <2>1, <2>2, <4>1, <4>2
    <3>2. CASE q \cap w = {}
      <4>1. <<p, l>> \in w
        BY <2>6
      <4> QED BY <2>1, <2>2, <3>2, <4>1
    <3> QED BY <3>1, <3>2
  <2>7. ASSUME NEW r \in Ports \ {p}, NEW l \in Lines PROVE <<r, l>> \in e <=> <<r, l>> \in q
    BY <2>1, <2>2
  <2> QED BY <1>2, <2>4, <2>5, <2>6, <2>7 DEF e
<1> QED BY <1>1, <1>2

(* The inductive invariant: the types, the events and the interrupt lines   *)
IInv ==
  /\ chan \in [Ports -> Channel]
  /\ \A p \in Ports : OK(chan[p])
  /\ irq \in SUBSET (Ports \X Lines)
  /\ OnlyWantedRaised
  /\ NoChannelForgotten

(* A line of characters after a step of module SerialLine, or as it was     *)
LineStep(l, mm) ==
  \/ mm = l
  \/ \E c \in Chars : mm = Append(l, c)
  \/ \E more \in {<<>>} \cup {<<c>> : c \in Chars} : l \o more # <<>> /\ mm = Tail(l \o more)
  \/ \E n \in 0..Held : n <= Len(l) /\ mm = SubSeq(l, n + 1, Len(l))
  \/ mm = <<>>

(* What a step may do to the characters of a channel                        *)
Moves(c, d) ==
  /\ LineStep(LineOf(c), LineOf(d))
  /\ CanPull(d) /\ ~CanPull(c) => c.rxQueue # <<>> /\ d.rxQueue = <<>> /\ d.inBuf = c.inBuf

LEMMA SameMoves ==
  ASSUME NEW c, NEW d, Same(c, d)
  PROVE  Moves(c, d)
BY DEF Same, Moves, LineStep, LineOf, CanPull

LEMMA BecomeLemma ==
  ASSUME IInv, NEW p \in Ports, NEW c, OK(c), c.mie = chan[p].mie, Moves(chan[p], c),
         Become(p, c)
  PROVE  IInv' /\ \A r \in Ports : Moves(chan[r], chan'[r])
<1>1. /\ chan' \in [Ports -> Channel] /\ chan'[p] = c
      /\ \A r \in Ports \ {p} : chan'[r] = chan[r]
  BY DEF Become, IInv, OK, ChanOK
<1>2. \A r \in Ports : OK(chan'[r])
  BY <1>1 DEF IInv
<1>3. \A r \in Ports : Moves(chan[r], chan'[r])
  <2>1. ASSUME NEW r \in Ports \ {p} PROVE Moves(chan[r], chan'[r])
    BY <1>1, <2>1, SameMoves DEF Same
  <2> QED BY <1>1, <2>1
<1>4. A \in Ports /\ chan'[A].mie = chan[A].mie
  BY <1>1 DEF Ports
<1>5. chan'[p].want \in SUBSET Lines
  BY <1>1 DEF Channel
<1> DEFINE e == Evaluate(chan', irq, p)
<1>6. irq' = e
  BY DEF Become
<1>7. /\ e \in SUBSET (Ports \X Lines)
      /\ ~chan'[A].mie => e = {}
      /\ \A l \in Lines : <<p, l>> \in e => l \in chan'[p].want
      /\ chan'[A].mie /\ chan'[p].want # {} => \E l \in Lines : <<p, l>> \in e
      /\ chan'[A].mie => \A r \in Ports \ {p}, l \in Lines : <<r, l>> \in e <=> <<r, l>> \in irq
  BY <1>5, EvaluateLemma DEF IInv
<1> HIDE DEF e
<1>8. OnlyWantedRaised'
  <2> SUFFICES ASSUME NEW r \in Ports, NEW l \in Lines, <<r, l>> \in irq'
               PROVE  chan'[A].mie /\ l \in chan'[r].want
    BY DEF OnlyWantedRaised
  <2>1. chan'[A].mie
    BY <1>6, <1>7
  <2> QED BY <1>1, <1>6, <1>7, <2>1 DEF IInv, OnlyWantedRaised
<1>9. NoChannelForgotten'
  <2> SUFFICES ASSUME NEW r \in Ports, chan'[A].mie, chan'[r].want # {}
               PROVE  \E l \in Lines : <<r, l>> \in irq'
    BY DEF NoChannelForgotten
  <2>1. CASE r = p
    BY <1>6, <1>7, <2>1
  <2>2. CASE r # p
    <3>1. PICK l \in Lines : <<r, l>> \in irq
      BY <1>1, <1>4, <2>2 DEF IInv, NoChannelForgotten
    <3> QED BY <1>6, <1>7, <2>2, <3>1
  <2> QED BY <2>1, <2>2
<1> QED BY <1>1, <1>2, <1>3, <1>6, <1>7, <1>8, <1>9 DEF IInv

LEMMA SettleLemma ==
  ASSUME IInv, NEW p \in Ports, NEW c, OK(c), c.mie = chan[p].mie, c.want = chan[p].want,
         Moves(chan[p], c), Settle(p, c)
  PROVE  IInv' /\ \A r \in Ports : Moves(chan[r], chan'[r])
<1>1. /\ chan' \in [Ports -> Channel] /\ chan'[p] = c
      /\ \A r \in Ports \ {p} : chan'[r] = chan[r]
      /\ irq' = irq
  BY DEF Settle, IInv, OK, ChanOK
<1>2. \A r \in Ports : OK(chan'[r])
  BY <1>1 DEF IInv
<1>3. \A r \in Ports : Moves(chan[r], chan'[r])
  <2>1. ASSUME NEW r \in Ports \ {p} PROVE Moves(chan[r], chan'[r])
    BY <1>1, <2>1, SameMoves DEF Same
  <2> QED BY <1>1, <2>1
<1>4. A \in Ports /\ chan'[A].mie = chan[A].mie
  BY <1>1 DEF Ports
<1>5. \A r \in Ports : chan'[r].want = chan[r].want
  BY <1>1
<1> QED BY <1>1, <1>2, <1>3, <1>4, <1>5 DEF IInv, OnlyWantedRaised, NoChannelForgotten

-----------------------------------------------------------------------------
(* What the handlers do to the characters                                   *)

LEMMA AddMoves ==
  ASSUME NEW c, OK(c), NEW e \in Chars
  PROVE  LET d == AddToReadbuf(c, e) IN OK(d) /\ d.mie = c.mie /\ Moves(c, d)
<1> DEFINE d == AddToReadbuf(c, e)
<1>1. OK(d) /\ d.mie = c.mie /\ ~CanPull(d) /\ LineOf(d) \in {LineOf(c), Append(LineOf(c), e)}
  BY AddLemma DEF OK
<1> HIDE DEF d
<1>2. LineStep(LineOf(c), LineOf(d))
  BY <1>1 DEF LineStep
<1>3. OK(d) /\ d.mie = c.mie /\ Moves(c, d)
  BY <1>1, <1>2 DEF Moves
<1> QED BY <1>3 DEF d

LEMMA LineType ==
  ASSUME NEW c, ChanOK(c)
  PROVE  /\ LineOf(c) \in Seq(Chars)
         /\ Len(c.rxQueue) \in Nat /\ Len(c.inBuf) \in Nat
         /\ Len(LineOf(c)) = Len(c.rxQueue) + Len(c.inBuf)
         /\ c.rxQueue \in Seq(Chars) /\ c.inBuf \in Seq(Chars)
<1>1. c.rxQueue \in Seq(Chars) /\ c.inBuf \in Seq(Chars)
  BY DEF ChanOK, Channel
<1> QED BY <1>1, ConcatProperties, LenProperties DEF LineOf

LEMMA TakeMoves ==
  ASSUME NEW c, OK(c), NEW more \in {<<>>} \cup {<<e>> : e \in Chars}
  PROVE  LET d == Take(Fill(c, more)) IN OK(d) /\ d.mie = c.mie /\ Moves(c, d)
<1> DEFINE f == Fill(c, more)
           d == Take(f)
<1>1. /\ OK(f) /\ f.mie = c.mie /\ Moves(c, f)
      /\ LineOf(f) = LineOf(c) \/ (more # <<>> /\ LineOf(f) = LineOf(c) \o more)
  <2>1. CASE more = <<>>
    BY <2>1, SameMoves DEF Fill, Same
  <2>2. ASSUME NEW e \in Chars, more = <<e>>
        PROVE  /\ OK(f) /\ f.mie = c.mie /\ Moves(c, f)
               /\ LineOf(f) = LineOf(c) \/ (more # <<>> /\ LineOf(f) = LineOf(c) \o more)
    <3>1. more # <<>> /\ Head(more) = e
      BY <2>2
    <3>2. f = AddToReadbuf(c, e)
      BY <3>1 DEF Fill
    <3>3. LineOf(f) \in {LineOf(c), Append(LineOf(c), e)}
      BY <3>2, AddLemma DEF OK
    <3>4. Append(LineOf(c), e) = LineOf(c) \o <<e>>
      BY LineType, AppendIsConcat DEF OK
    <3> QED BY <2>2, <3>1, <3>2, <3>3, <3>4, AddMoves
  <2> QED BY <2>1, <2>2
<1> HIDE DEF f
<1>2. CASE f.rxQueue = <<>>
  <2>1. d = f
    BY <1>2 DEF Take
  <2> QED BY <1>1, <2>1 DEF f
<1>3. CASE f.rxQueue # <<>>
  <2>1. OK(d) /\ d.mie = f.mie /\ ~CanPull(d) /\ LineOf(d) = Tail(LineOf(f)) /\ LineOf(f) # <<>>
    BY <1>1, <1>3, TakeLemma DEF OK
  <2> HIDE DEF d
  <2>2. LineOf(c) \o <<>> = LineOf(c)
    BY LineType, ConcatEmptySeq DEF OK
  <2>3. \E mm \in {<<>>} \cup {<<e>> : e \in Chars} :
          LineOf(c) \o mm # <<>> /\ LineOf(d) = Tail(LineOf(c) \o mm)
    <3>1. CASE LineOf(f) = LineOf(c)
      <4>1. LineOf(c) \o <<>> # <<>> /\ LineOf(d) = Tail(LineOf(c) \o <<>>)
        BY <2>1, <2>2, <3>1, Zenon
      <4>2. <<>> \in {<<>>} \cup {<<e>> : e \in Chars}
        OBVIOUS
      <4> QED BY <4>1, <4>2, Zenon
    <3>2. CASE LineOf(f) = LineOf(c) \o more
      BY <2>1, <3>2
    <3> QED BY <1>1, <3>1, <3>2
  <2>4. OK(d) /\ d.mie = c.mie /\ Moves(c, d)
    BY <1>1, <2>1, <2>3 DEF Moves, LineStep
  <2> QED BY <2>4 DEF d, f
<1> QED BY <1>2, <1>3

LEMMA SelLemma ==
  ASSUME NEW c, OK(c), NEW n \in 0..NoReg
  PROVE  LET d == [c EXCEPT !.sel = n] IN OK(d) /\ Same(c, d) /\ d.want = c.want /\ Moves(c, d)
<1> DEFINE d == [c EXCEPT !.sel = n]
<1>0. c \in Channel
  BY DEF OK, ChanOK
<1>1. /\ d \in Channel /\ d.rxQueue = c.rxQueue /\ d.inBuf = c.inBuf
      /\ d.pending = c.pending /\ d.queued = c.queued /\ d.mie = c.mie
      /\ d.want = c.want /\ d.txEmpty = c.txEmpty
  BY ONLY <1>0, n \in 0..NoReg DEF Channel
<1> HIDE DEF d
<1>2. OK(d) /\ Same(c, d) /\ d.want = c.want /\ Moves(c, d)
  BY <1>1, SameMoves DEF OK, ChanOK, RxOK, Same
<1> QED BY <1>2 DEF d

LEMMA WantLemma ==
  ASSUME NEW c, OK(c), NEW w \in SUBSET (c.want \cup {"TX", "ZC"})
  PROVE  LET d == [c EXCEPT !.want = w] IN OK(d) /\ Same(c, d) /\ Moves(c, d)
<1> DEFINE d == [c EXCEPT !.want = w]
<1>0. c \in Channel /\ w \in SUBSET Lines
  BY DEF OK, ChanOK, Channel, Lines
<1>1. /\ d \in Channel /\ d.rxQueue = c.rxQueue /\ d.inBuf = c.inBuf
      /\ d.pending = c.pending /\ d.queued = c.queued /\ d.mie = c.mie
      /\ d.want = w /\ d.txEmpty = c.txEmpty
  BY ONLY <1>0 DEF Channel
<1> HIDE DEF d
<1>2. OK(d) /\ Same(c, d) /\ Moves(c, d)
  BY <1>1, SameMoves DEF OK, ChanOK, RxOK, Same
<1> QED BY <1>2 DEF d

-----------------------------------------------------------------------------
(* The actions                                                              *)

Kept == IInv' /\ \A r \in Ports : Moves(chan[r], chan'[r])

LEMMA RxEventStep ==
  ASSUME IInv, NEW p \in Ports, RxEvent(p) PROVE Kept
<1> DEFINE c == chan[p]
           pe == [c.pending EXCEPT !["rx"] = FALSE]
           qu == [c.queued EXCEPT !["rx"] = @ - 1]
           d == [c EXCEPT !.queued = qu, !.pending = pe]
           r == RxInt(Pull(d))
<1>1. OK(c) /\ c \in Channel /\ c.queued["rx"] > 0 /\ "rx" \in Kinds /\ "tx" \in Kinds
  BY DEF IInv, OK, ChanOK, RxEvent, Kinds
<1>2. c.pending \in [Kinds -> BOOLEAN] /\ c.queued \in [Kinds -> Nat]
  BY <1>1 DEF Channel
<1>3. c.queued["rx"] = 1
  BY <1>1 DEF OK, ChanOK
<1>4. /\ pe \in [Kinds -> BOOLEAN] /\ ~pe["rx"] /\ qu \in [Kinds -> Nat] /\ qu["rx"] = 0
      /\ \A k \in Kinds : k # "rx" => pe[k] = c.pending[k] /\ qu[k] = c.queued[k]
  <2>1. pe \in [Kinds -> BOOLEAN] /\ ~pe["rx"]
    BY <1>1, <1>2
  <2>2. qu \in [Kinds -> Nat] /\ qu["rx"] = 0
    BY <1>1, <1>2, <1>3
  <2>3. \A k \in Kinds : k # "rx" => pe[k] = c.pending[k] /\ qu[k] = c.queued[k]
    BY <1>1, <1>2
  <2> QED BY <2>1, <2>2, <2>3
<1> HIDE DEF pe, qu
<1>5. /\ d \in Channel /\ d.pending = pe /\ d.queued = qu /\ d.rxQueue = c.rxQueue
      /\ d.inBuf = c.inBuf /\ d.txEmpty = c.txEmpty /\ d.mie = c.mie
  <2>1. c \in Channel /\ pe \in [Kinds -> BOOLEAN] /\ qu \in [Kinds -> Nat]
    BY <1>1, <1>4
  <2> QED BY ONLY <2>1 DEF Channel
<1> HIDE DEF d, c
<1>6. ASSUME NEW k \in Kinds PROVE d.queued[k] = IF d.pending[k] THEN 1 ELSE 0
  <2>1. CASE k = "rx"
    BY <1>4, <1>5, <2>1
  <2>2. CASE k # "rx"
    <3>1. c.queued[k] = IF c.pending[k] THEN 1 ELSE 0
      BY <1>1 DEF OK, ChanOK
    <3>2. d.queued[k] = c.queued[k] /\ d.pending[k] = c.pending[k]
      BY <1>4, <1>5, <2>2
    <3> QED BY <3>1, <3>2
  <2> QED BY <2>1, <2>2
<1>7. ~d.txEmpty => d.pending["tx"]
  <2>1. d.pending["tx"] = c.pending["tx"]
    BY <1>1, <1>4, <1>5
  <2> QED BY <1>1, <1>5, <2>1 DEF OK, ChanOK
<1>8. ChanOK(d) /\ LineOf(d) = LineOf(c)
  BY <1>1, <1>5, <1>6, <1>7 DEF OK, ChanOK, LineOf
<1>9. OK(r) /\ r.mie = c.mie /\ LineOf(r) = LineOf(c) /\ ~CanPull(r)
  BY <1>5, <1>8, PullLemma, RxIntLemma DEF OK
<1> HIDE DEF r
<1>10. Moves(c, r)
  BY <1>9 DEF Moves, LineStep
<1>11. Become(p, r)
  BY DEF RxEvent, c, d, r, pe, qu
<1> QED BY <1>9, <1>10, <1>11, BecomeLemma DEF Kept, c

(* A transmit or a zero-count event that has come                           *)
LEMMA EventGone ==
  ASSUME NEW c, OK(c), NEW k \in {"tx", "br"}, c.queued[k] > 0, NEW b \in BOOLEAN,
         k = "tx" => b = TRUE, k # "tx" => b = c.txEmpty,
         NEW w \in SUBSET (c.want \cup {"TX", "ZC"})
  PROVE  LET d == [c EXCEPT !.queued[k] = @ - 1, !.pending[k] = FALSE, !.txEmpty = b, !.want = w]
         IN  OK(d) /\ Same(c, d)
<1> DEFINE pe == [c.pending EXCEPT ![k] = FALSE]
           qu == [c.queued EXCEPT ![k] = @ - 1]
           d == [c EXCEPT !.queued = qu, !.pending = pe, !.txEmpty = b, !.want = w]
<1>1. c \in Channel /\ k \in Kinds /\ "rx" \in Kinds /\ k # "rx" /\ "tx" \in Kinds /\ w \in SUBSET Lines
  <2>1. c \in Channel /\ k \in Kinds /\ "rx" \in Kinds /\ k # "rx" /\ "tx" \in Kinds
    BY DEF OK, ChanOK, Kinds
  <2>2. w \in SUBSET Lines
    BY <2>1 DEF Channel, Lines
  <2> QED BY <2>1, <2>2
<1>2. c.pending \in [Kinds -> BOOLEAN] /\ c.queued \in [Kinds -> Nat]
  BY <1>1 DEF Channel
<1>3. c.queued[k] = 1
  BY <1>1 DEF OK, ChanOK
<1>4. /\ pe \in [Kinds -> BOOLEAN] /\ ~pe[k] /\ qu \in [Kinds -> Nat] /\ qu[k] = 0
      /\ \A j \in Kinds : j # k => pe[j] = c.pending[j] /\ qu[j] = c.queued[j]
  <2>1. pe \in [Kinds -> BOOLEAN] /\ ~pe[k]
    BY <1>1, <1>2
  <2>2. qu \in [Kinds -> Nat] /\ qu[k] = 0
    BY <1>1, <1>2, <1>3
  <2>3. \A j \in Kinds : j # k => pe[j] = c.pending[j] /\ qu[j] = c.queued[j]
    BY <1>1, <1>2
  <2> QED BY <2>1, <2>2, <2>3
<1> HIDE DEF pe, qu
<1>5. /\ d \in Channel /\ d.pending = pe /\ d.queued = qu /\ d.rxQueue = c.rxQueue
      /\ d.inBuf = c.inBuf /\ d.txEmpty = b /\ d.mie = c.mie /\ d.want = w
  <2>1. /\ c \in Channel /\ pe \in [Kinds -> BOOLEAN] /\ qu \in [Kinds -> Nat]
        /\ b \in BOOLEAN /\ w \in SUBSET Lines
    BY <1>1, <1>4
  <2> QED BY ONLY <2>1 DEF Channel
<1> HIDE DEF d
<1>6. ASSUME NEW j \in Kinds PROVE d.queued[j] = IF d.pending[j] THEN 1 ELSE 0
  <2>1. CASE j = k
    BY <1>4, <1>5, <2>1
  <2>2. CASE j # k
    <3>1. c.queued[j] = IF c.pending[j] THEN 1 ELSE 0
      BY <1>1 DEF OK, ChanOK
    <3>2. d.queued[j] = c.queued[j] /\ d.pending[j] = c.pending[j]
      BY <1>4, <1>5, <2>2
    <3> QED BY <3>1, <3>2
  <2> QED BY <2>1, <2>2
<1>7. ~d.txEmpty => d.pending["tx"]
  <2>1. CASE k = "tx"
    BY <1>5, <2>1
  <2>2. CASE k # "tx"
    <3>1. d.pending["tx"] = c.pending["tx"]
      BY <1>1, <1>4, <1>5, <2>2
    <3> QED BY <1>5, <2>2, <3>1 DEF OK, ChanOK
  <2> QED BY <2>1, <2>2
<1>8. d.pending["rx"] = c.pending["rx"]
  BY <1>1, <1>4, <1>5
<1>9. OK(d) /\ Same(c, d)
  BY <1>5, <1>6, <1>7, <1>8 DEF OK, ChanOK, RxOK, Same
<1> QED BY <1>9 DEF d, pe, qu

LEMMA TxEventStep ==
  ASSUME IInv, NEW p \in Ports, TxEvent(p) PROVE Kept
<1> DEFINE c == chan[p]
           w == IF c.txInt THEN c.want \cup {"TX"} ELSE c.want
           d == [c EXCEPT !.queued["tx"] = @ - 1, !.pending["tx"] = FALSE, !.txEmpty = TRUE,
                          !.want = w]
<1>1. OK(c) /\ c.queued["tx"] > 0
  BY DEF IInv, TxEvent
<1>2. OK(d) /\ Same(c, d)
  BY <1>1, EventGone
<1>3. Become(p, d)
  BY DEF TxEvent
<1> HIDE DEF c, d
<1>4. d.mie = c.mie /\ Moves(c, d)
  BY <1>2, SameMoves DEF Same
<1> QED BY <1>2, <1>3, <1>4, BecomeLemma DEF Kept, c

LEMMA BrEventStep ==
  ASSUME IInv, NEW p \in Ports, BrEvent(p) PROVE Kept
<1> DEFINE c == chan[p]
           w == IF c.zcOn THEN c.want \cup {"ZC"} ELSE c.want
           d == [c EXCEPT !.queued["br"] = @ - 1, !.pending["br"] = FALSE, !.txEmpty = c.txEmpty,
                          !.want = w]
           r == [c EXCEPT !.queued["br"] = @ - 1, !.pending["br"] = FALSE, !.want = w]
<1>1. OK(c) /\ c.queued["br"] > 0 /\ c \in Channel /\ c.txEmpty \in BOOLEAN
  <2>1. OK(c) /\ c.queued["br"] > 0 /\ c \in Channel
    BY DEF IInv, BrEvent, OK, ChanOK
  <2> QED BY <2>1 DEF Channel
<1>2. OK(d) /\ Same(c, d)
  BY <1>1, EventGone
<1>3. d = r
  <2> DEFINE pe == [c.pending EXCEPT !["br"] = FALSE]
             qu == [c.queued EXCEPT !["br"] = @ - 1]
  <2>1. /\ d = [c EXCEPT !.queued = qu, !.pending = pe, !.txEmpty = c.txEmpty, !.want = w]
        /\ r = [c EXCEPT !.queued = qu, !.pending = pe, !.want = w]
    OBVIOUS
  <2> HIDE DEF pe, qu, w
  <2>2. [c EXCEPT !.queued = qu, !.pending = pe, !.txEmpty = c.txEmpty, !.want = w]
          = [c EXCEPT !.queued = qu, !.pending = pe, !.want = w]
    BY <1>1 DEF Channel
  <2> QED BY <2>1, <2>2
<1>4. Become(p, BrStart(r))
  BY DEF BrEvent
<1> HIDE DEF c, d, r
<1>5. OK(BrStart(d)) /\ Same(d, BrStart(d))
  BY <1>2, BrStartLemma
<1>6. Same(c, BrStart(d))
  BY <1>2, <1>5 DEF Same
<1>7. BrStart(d).mie = c.mie /\ Moves(c, BrStart(d))
  BY <1>6, SameMoves DEF Same
<1> QED BY <1>3, <1>4, <1>5, <1>7, BecomeLemma DEF Kept, c

LEMMA IncomingType ==
  ASSUME NEW p, NEW chars \in SUBSET Chars, NEW more \in Incoming(p, chars)
  PROVE  more \in {<<>>} \cup {<<e>> : e \in Chars}
BY DEF Incoming

LEMMA ReceiveStep ==
  ASSUME IInv, NEW p \in Ports, NEW chars \in SUBSET Chars, Receive(p, chars) PROVE Kept
<1>1. PICK more \in Incoming(p, chars) \ {<<>>} : Become(p, Fill(chan[p], more))
  BY DEF Receive
<1>2. PICK e \in Chars : more = <<e>>
  BY <1>1, IncomingType
<1>3. Fill(chan[p], more) = AddToReadbuf(chan[p], e)
  BY <1>1, <1>2 DEF Fill
<1>4. OK(chan[p])
  BY DEF IInv
<1> QED BY <1>1, <1>3, <1>4, AddMoves, BecomeLemma DEF Kept

LEMMA EchoStep ==
  ASSUME IInv, NEW p \in Ports, NEW e \in Chars, Echo(p, e) PROVE Kept
<1>1. OK(chan[p]) /\ Become(p, AddToReadbuf(chan[p], e))
  BY DEF IInv, Echo
<1> QED BY <1>1, AddMoves, BecomeLemma DEF Kept

LEMMA ReadDataStep ==
  ASSUME IInv, NEW p \in Ports, NEW chars \in SUBSET Chars, ReadData(p, chars) PROVE Kept
<1> DEFINE c == chan[p]
<1>1. PICK more \in Incoming(p, chars) :
        IF more = <<>> /\ Fill(c, more).rxQueue = <<>> THEN Settle(p, Fill(c, more))
        ELSE Become(p, Take(Fill(c, more)))
  BY DEF ReadData
<1>2. OK(c)
  BY DEF IInv
<1>3. CASE more = <<>> /\ Fill(c, more).rxQueue = <<>>
  <2>1. Settle(p, c) /\ Moves(c, c)
    BY <1>1, <1>3, SameMoves DEF Fill, Same
  <2> QED BY <1>2, <2>1, SettleLemma DEF Kept
<1>4. CASE ~(more = <<>> /\ Fill(c, more).rxQueue = <<>>)
  <2> DEFINE d == Take(Fill(c, more))
  <2>1. OK(d) /\ d.mie = c.mie /\ Moves(c, d)
    BY <1>2, TakeMoves, IncomingType
  <2>2. Become(p, d)
    BY <1>1, <1>4
  <2> HIDE DEF d
  <2> QED BY <2>1, <2>2, BecomeLemma DEF Kept
<1> QED BY <1>3, <1>4

(* scc_write_data, from the data port and from register 8                   *)
LEMMA SendMoves ==
  ASSUME NEW c, OK(c), NEW e \in Chars
  PROVE  LET d == Send(c, e)
         IN  /\ OK(d) /\ d.mie = c.mie /\ Moves(c, d)
             /\ ~c.loop => d.want = c.want
<1>1. CASE c.loop
  <2> DEFINE a == AddToReadbuf(c, e)
  <2>1. OK(a) /\ a.mie = c.mie /\ LineOf(a) \in {LineOf(c), Append(LineOf(c), e)} /\ ~CanPull(a)
    BY AddLemma DEF OK
  <2> HIDE DEF a
  <2>2. OK(TxStart(a)) /\ Same(a, TxStart(a))
    BY <2>1, TxStartLemma
  <2>3. Send(c, e) = TxStart(a)
    BY <1>1 DEF Send, a
  <2>4. Moves(c, TxStart(a))
    BY <2>1, <2>2 DEF Same, Moves, LineStep, LineOf, CanPull
  <2> QED BY <1>1, <2>1, <2>2, <2>3, <2>4 DEF Same
<1>2. CASE ~c.loop
  <2>1. Send(c, e) = TxStart(c)
    BY <1>2 DEF Send
  <2>2. OK(TxStart(c)) /\ Same(c, TxStart(c)) /\ TxStart(c).want = c.want
    BY TxStartLemma
  <2> QED BY <2>1, <2>2, SameMoves DEF Same
<1> QED BY <1>1, <1>2

LEMMA WriteDataStep ==
  ASSUME IInv, NEW p \in Ports, NEW e \in Chars, WriteData(p, e) PROVE Kept
<1> DEFINE c == chan[p]
           d == Send(c, e)
<1>1. OK(c)
  BY DEF IInv
<1>2. OK(d) /\ d.mie = c.mie /\ Moves(c, d) /\ (~c.loop => d.want = c.want)
  BY <1>1, SendMoves
<1>3. Become(p, d) \/ (~c.loop /\ Settle(p, d))
  BY DEF WriteData
<1> HIDE DEF d
<1> QED BY <1>2, <1>3, BecomeLemma, SettleLemma DEF Kept

LEMMA ReadRegStep ==
  ASSUME IInv, NEW p \in Ports, NEW chars \in SUBSET Chars, ReadReg(p, chars) PROVE Kept
<1> DEFINE c == [chan[p] EXCEPT !.sel = NoReg]
<1>1. OK(c) /\ Same(chan[p], c) /\ c.want = chan[p].want /\ Moves(chan[p], c)
  <2>1. NoReg \in 0..NoReg
    BY DEF NoReg
  <2>2. OK(chan[p])
    BY DEF IInv
  <2> QED BY <2>1, <2>2, SelLemma
<1>2. CASE chan[p].sel # 8
  <2>1. Settle(p, c)
    BY <1>2 DEF ReadReg
  <2> HIDE DEF c
  <2> QED BY <1>1, <2>1, SettleLemma DEF Kept, Same
<1>3. CASE chan[p].sel = 8
  <2>1. PICK more \in Incoming(p, chars) : Become(p, Take(Fill(c, more)))
    BY <1>3 DEF ReadReg
  <2> DEFINE d == Take(Fill(c, more))
  <2> HIDE DEF c
  <2>2. OK(d) /\ d.mie = c.mie /\ Moves(c, d)
    BY <1>1, TakeMoves, IncomingType
  <2>3. Become(p, d)
    BY <2>1
  <2> HIDE DEF d
  <2>4. Moves(chan[p], d) /\ d.mie = chan[p].mie
    BY <1>1, <2>2 DEF Moves, Same, LineOf, CanPull
  <2> QED BY <2>2, <2>3, <2>4, BecomeLemma DEF Kept
<1> QED BY <1>2, <1>3

(* The registers that StoreReg keeps something of                           *)
LEMMA StoreMoves ==
  ASSUME NEW c, OK(c), NEW reg, NEW v \in Nat
  PROVE  LET d == StoreReg(c, reg, v) IN OK(d) /\ Same(c, d) /\ d.want = c.want
<1>0. c \in Channel
  BY DEF OK, ChanOK
<1>1. ASSUME NEW x \in BOOLEAN, NEW y \in BOOLEAN
      PROVE  LET d == [c EXCEPT !.rxInt = x, !.txInt = y]
             IN  OK(d) /\ Same(c, d) /\ d.want = c.want
  <2> DEFINE d == [c EXCEPT !.rxInt = x, !.txInt = y]
  <2>1. /\ d \in Channel /\ d.rxQueue = c.rxQueue /\ d.inBuf = c.inBuf
        /\ d.pending = c.pending /\ d.queued = c.queued /\ d.mie = c.mie
        /\ d.want = c.want /\ d.txEmpty = c.txEmpty
    BY ONLY <1>0, x \in BOOLEAN, y \in BOOLEAN DEF Channel
  <2> HIDE DEF d
  <2>2. OK(d) /\ Same(c, d) /\ d.want = c.want
    BY <2>1 DEF OK, ChanOK, RxOK, Same
  <2> QED BY <2>2 DEF d
<1>2. ASSUME NEW x \in BOOLEAN, NEW y \in BOOLEAN
      PROVE  LET d == BrStart([c EXCEPT !.brOn = x, !.loop = y])
             IN  OK(d) /\ Same(c, d) /\ d.want = c.want
  <2> DEFINE d == [c EXCEPT !.brOn = x, !.loop = y]
  <2>1. /\ d \in Channel /\ d.rxQueue = c.rxQueue /\ d.inBuf = c.inBuf
        /\ d.pending = c.pending /\ d.queued = c.queued /\ d.mie = c.mie
        /\ d.want = c.want /\ d.txEmpty = c.txEmpty
    BY ONLY <1>0, x \in BOOLEAN, y \in BOOLEAN DEF Channel
  <2> HIDE DEF d
  <2>2. OK(d) /\ Same(c, d) /\ d.want = c.want
    BY <2>1 DEF OK, ChanOK, RxOK, Same
  <2>3. OK(BrStart(d)) /\ Same(c, BrStart(d)) /\ BrStart(d).want = c.want
    BY <2>2, BrStartLemma DEF Same
  <2> QED BY <2>3 DEF d
<1>3. ASSUME NEW x \in BOOLEAN
      PROVE  LET d == BrStart([c EXCEPT !.zcOn = x])
             IN  OK(d) /\ Same(c, d) /\ d.want = c.want
  <2> DEFINE d == [c EXCEPT !.zcOn = x]
  <2>1. /\ d \in Channel /\ d.rxQueue = c.rxQueue /\ d.inBuf = c.inBuf
        /\ d.pending = c.pending /\ d.queued = c.queued /\ d.mie = c.mie
        /\ d.want = c.want /\ d.txEmpty = c.txEmpty
    BY ONLY <1>0, x \in BOOLEAN DEF Channel
  <2> HIDE DEF d
  <2>2. OK(d) /\ Same(c, d) /\ d.want = c.want
    BY <2>1 DEF OK, ChanOK, RxOK, Same
  <2>3. OK(BrStart(d)) /\ Same(c, BrStart(d)) /\ BrStart(d).want = c.want
    BY <2>2, BrStartLemma DEF Same
  <2> QED BY <2>3 DEF d
<1>4. CASE reg = 1
  <2> DEFINE x == (v \div 8) % 4 \in {1, 2}
             y == Bit(v, 2)
  <2>1. x \in BOOLEAN /\ y \in BOOLEAN
    BY DEF Bit
  <2>2. StoreReg(c, reg, v) = [c EXCEPT !.rxInt = x, !.txInt = y]
    BY <1>4 DEF StoreReg
  <2> HIDE DEF x, y
  <2> QED BY <1>1, <2>1, <2>2
<1>5. CASE reg = 14
  <2> DEFINE x == Bit(v, 1)
             y == Bit(v, 16)
  <2>1. x \in BOOLEAN /\ y \in BOOLEAN
    BY DEF Bit
  <2>2. StoreReg(c, reg, v) = BrStart([c EXCEPT !.brOn = x, !.loop = y])
    BY <1>5 DEF StoreReg
  <2> HIDE DEF x, y
  <2> QED BY <1>2, <2>1, <2>2
<1>6. CASE reg = 15
  <2> DEFINE x == Bit(v, 2)
  <2>1. x \in BOOLEAN
    BY DEF Bit
  <2>2. StoreReg(c, reg, v) = BrStart([c EXCEPT !.zcOn = x])
    BY <1>6 DEF StoreReg
  <2> HIDE DEF x
  <2> QED BY <1>3, <2>1, <2>2
<1>7. CASE reg # 1 /\ reg # 14 /\ reg # 15
  BY <1>7 DEF StoreReg, Same
<1> QED BY <1>4, <1>5, <1>6, <1>7

(* What is left of a line when the queue is thrown away                     *)
LEMMA LineRest ==
  ASSUME NEW s \in Seq(Chars), NEW t \in Seq(Chars)
  PROVE  SubSeq(s \o t, Len(s) + 1, Len(s \o t)) = t /\ Len(s) <= Len(s \o t)
<1>1. Len(s) \in Nat /\ Len(t) \in Nat /\ Len(s \o t) = Len(s) + Len(t)
  BY ConcatProperties, LenProperties
<1>2. CASE Len(t) = 0
  <2>1. t = <<>>
    BY <1>1, <1>2, EmptySeq
  <2>2. Len(s) + 1 \in Int /\ Len(s \o t) \in Int /\ Len(s \o t) < Len(s) + 1
    BY <1>1, <1>2
  <2> QED BY <1>1, <1>2, <2>1, <2>2, SubSeqEmpty
<1>3. CASE Len(t) > 0
  <2> DEFINE mm == Len(s) + 1
             n == Len(s \o t)
  <2>1. /\ mm \in Len(s) + 1 .. Len(s) + Len(t) /\ n \in Len(s) + 1 .. Len(s) + Len(t)
        /\ mm - Len(s) = 1 /\ n - Len(s) = Len(t)
    BY <1>1, <1>3
  <2> HIDE DEF mm, n
  <2>2. SubSeq(s \o t, mm, n) = SubSeq(t, mm - Len(s), n - Len(s))
    BY <2>1, SubSeqOfConcat2
  <2>3. SubSeq(s \o t, mm, n) = t
    BY <2>1, <2>2, SubSeqFull
  <2> QED BY <1>1, <2>3 DEF mm, n
<1> QED BY <1>1, <1>2, <1>3

(* A channel whose queue was thrown away                                    *)
LEMMA ResetMoves ==
  ASSUME NEW c, OK(c), NEW d, d.rxQueue = <<>>, d.inBuf = c.inBuf,
         d.pending["rx"] = c.pending["rx"]
  PROVE  Moves(c, d)
<1> DEFINE s == c.rxQueue
           t == c.inBuf
           n == Len(s)
<1>1. /\ s \in Seq(Chars) /\ t \in Seq(Chars) /\ n \in Nat /\ n <= Held /\ Len(t) \in Nat
      /\ LineOf(c) = s \o t /\ Len(LineOf(c)) = n + Len(t)
  <2>1. ChanOK(c)
    BY DEF OK
  <2>2. n <= Held
    BY <2>1 DEF ChanOK
  <2> QED BY <2>1, <2>2, LineType DEF LineOf
<1>2. LineOf(d) = t
  <2>1. LineOf(d) = <<>> \o t
    BY DEF LineOf
  <2> QED BY <1>1, <2>1, ConcatEmptySeq
<1>3. SubSeq(s \o t, Len(s) + 1, Len(s \o t)) = t /\ Len(s) <= Len(s \o t)
  BY <1>1, LineRest
<1> HIDE DEF s, t
<1>4. /\ n \in 0..Held /\ n <= Len(LineOf(c))
      /\ LineOf(d) = SubSeq(LineOf(c), n + 1, Len(LineOf(c)))
  <2>1. n \in 0..Held
    <3>1. n \in Nat /\ n <= Held
      BY <1>1, Zenon
    <3> HIDE DEF n
    <3> QED BY <3>1 DEF Held
  <2>2. n <= Len(LineOf(c)) /\ LineOf(d) = SubSeq(LineOf(c), n + 1, Len(LineOf(c)))
    BY <1>1, <1>2, <1>3, Zenon
  <2> QED BY <2>1, <2>2
<1>5. CanPull(d) /\ ~CanPull(c) => c.rxQueue # <<>>
  BY DEF CanPull
<1> HIDE DEF n
<1>6. LineStep(LineOf(c), LineOf(d))
  BY <1>1, <1>4 DEF LineStep
<1> QED BY <1>5, <1>6 DEF Moves

(* Moves is kept by what leaves the characters alone, before or after.      *)
LEMMA MovesSame ==
  ASSUME NEW b, NEW c, NEW d
  PROVE  /\ Same(b, c) /\ Moves(c, d) => Moves(b, d)
         /\ Moves(b, c) /\ Same(c, d) => Moves(b, d)
BY DEF Same, Moves, LineOf, CanPull

(* Register 9: what it makes of the two channels                            *)
LEMMA Reg9Lemma ==
  ASSUME NEW ch \in [Ports -> Channel], \A q \in Ports : OK(ch[q]), NEW v \in Nat
  PROVE  LET h == WriteReg9(ch, v)
         IN  /\ h \in [Ports -> Channel] /\ \A q \in Ports : OK(h[q])
             /\ \A q \in Ports :
                  /\ h[q].rxQueue \in {<<>>, ch[q].rxQueue} /\ h[q].inBuf = ch[q].inBuf
                  /\ h[q].pending["rx"] = ch[q].pending["rx"]
<1> DEFINE Fine(g) ==
             /\ g \in [Ports -> Channel] /\ \A q \in Ports : OK(g[q])
             /\ \A q \in Ports :
                  /\ g[q].rxQueue \in {<<>>, ch[q].rxQueue} /\ g[q].inBuf = ch[q].inBuf
                  /\ g[q].pending["rx"] = ch[q].pending["rx"]
           ra == IF Bit(v, 128) THEN ResetPort(ch[A]) ELSE ch[A]
           rb == IF Bit(v, 64) THEN ResetPort(ch[B]) ELSE ch[B]
           one == [ch EXCEPT ![A] = ra, ![B] = rb]
           hb == HardResetPort(HardResetPort(one, A), B)
           two == IF Bit(v, 128) /\ Bit(v, 64) THEN hb ELSE one
           mm == Bit(v, 8)
           h == [two EXCEPT ![A] = [two[A] EXCEPT !.mie = mm]]
<1>0. Ports = {A, B} /\ A \in Ports /\ B \in Ports /\ A # B
  BY SccAssumption DEF Ports
<1>1. \A q \in Ports : ChanOK(ch[q])
  BY DEF OK
<1>2. \A q \in {A, B} : LET d == ResetPort(ch[q])
        IN  OK(d) /\ d.rxQueue = <<>> /\ d.inBuf = ch[q].inBuf /\ d.pending = ch[q].pending
  BY <1>0, <1>1, ResetPortLemma
<1>3. /\ OK(ra) /\ ra.rxQueue \in {<<>>, ch[A].rxQueue} /\ ra.inBuf = ch[A].inBuf
      /\ ra.pending = ch[A].pending
  BY <1>0, <1>2
<1>4. /\ OK(rb) /\ rb.rxQueue \in {<<>>, ch[B].rxQueue} /\ rb.inBuf = ch[B].inBuf
      /\ rb.pending = ch[B].pending
  BY <1>0, <1>2
<1> HIDE DEF ra, rb
<1>5. Fine(one)
  <2>1. one[A] = ra /\ one[B] = rb
    BY <1>0
  <2>2. ra \in Channel /\ rb \in Channel
    BY <1>3, <1>4 DEF OK, ChanOK
  <2>3. one \in [Ports -> Channel]
    BY <2>2
  <2> HIDE DEF one
  <2> QED BY <1>0, <1>3, <1>4, <2>1, <2>3
<1> HIDE DEF one
<1>6. ASSUME NEW g, Fine(g), NEW p \in Ports PROVE Fine(HardResetPort(g, p))
  <2> DEFINE k == HardResetPort(g, p)
  <2>1. \A q \in Ports : ChanOK(g[q]) /\ RxOK(g[q])
    BY <1>6 DEF OK
  <2>2. /\ k \in [Ports -> Channel] /\ \A q \in Ports : ChanOK(k[q])
        /\ \A q \in Ports : RxOK(g[q]) => RxOK(k[q])
        /\ k[p].rxQueue = <<>> /\ k[p].inBuf = g[p].inBuf
        /\ k[p].pending["rx"] = g[p].pending["rx"]
        /\ \A q \in Ports \ {p} :
             /\ k[q].rxQueue = g[q].rxQueue /\ k[q].inBuf = g[q].inBuf
             /\ k[q].pending["rx"] = g[q].pending["rx"]
    BY <1>6, <2>1, HardResetLemma
  <2> HIDE DEF k
  <2>3. \A q \in Ports : OK(k[q])
    BY <2>1, <2>2 DEF OK
  <2>4. ASSUME NEW q \in Ports
        PROVE  /\ k[q].rxQueue \in {<<>>, ch[q].rxQueue} /\ k[q].inBuf = ch[q].inBuf
               /\ k[q].pending["rx"] = ch[q].pending["rx"]
    BY <1>6, <2>2
  <2>5. Fine(k)
    BY <2>2, <2>3, <2>4
  <2> QED BY <2>5 DEF k
<1>7. Fine(hb)
  <2> HIDE DEF Fine
  <2>1. Fine(HardResetPort(one, A))
    BY <1>0, <1>5, <1>6
  <2> QED BY <1>0, <1>6, <2>1
<1>8. Fine(two)
  BY <1>5, <1>7
<1> HIDE DEF hb, two
<1>9. Fine(h)
  <2> DEFINE d == [two[A] EXCEPT !.mie = mm]
  <2>1. two[A] \in Channel /\ mm \in BOOLEAN
    BY <1>0, <1>8 DEF Bit
  <2> HIDE DEF mm
  <2>2. /\ d \in Channel /\ d.rxQueue = two[A].rxQueue /\ d.inBuf = two[A].inBuf
        /\ d.pending = two[A].pending /\ d.queued = two[A].queued
        /\ d.want = two[A].want /\ d.txEmpty = two[A].txEmpty
    BY ONLY <2>1 DEF Channel
  <2>3. h[A] = d /\ \A q \in Ports \ {A} : h[q] = two[q]
    BY <1>0, <1>8
  <2>4. h \in [Ports -> Channel]
    BY <1>8, <2>2
  <2> HIDE DEF d, h
  <2>5. OK(d)
    <3>1. OK(two[A])
      BY <1>0, <1>8
    <3> QED BY <2>2, <3>1 DEF OK, ChanOK, RxOK
  <2>6. \A q \in Ports : OK(h[q])
    BY <1>8, <2>3, <2>5
  <2>7. ASSUME NEW q \in Ports
        PROVE  /\ h[q].rxQueue \in {<<>>, ch[q].rxQueue} /\ h[q].inBuf = ch[q].inBuf
               /\ h[q].pending["rx"] = ch[q].pending["rx"]
    BY <1>8, <2>2, <2>3
  <2> QED BY <2>4, <2>6, <2>7
<1>10. WriteReg9(ch, v) = h
  <2>1. one = [ch EXCEPT ![A] = IF Bit(v, 128) THEN ResetPort(@) ELSE @,
                         ![B] = IF Bit(v, 64) THEN ResetPort(@) ELSE @]
    <3>1. [ch EXCEPT ![A] = ra][B] = ch[B]
      BY <1>0
    <3> QED BY <3>1 DEF one, ra, rb
  <2> QED BY <2>1 DEF WriteReg9, h, mm, two, hb
<1> HIDE DEF h
<1> QED BY <1>9, <1>10

LEMMA Reg9Step ==
  ASSUME IInv, NEW p \in Ports, NEW c, OK(c), Same(chan[p], c), NEW v \in Nat,
         chan' = WriteReg9([chan EXCEPT ![p] = c], v),
         irq' = Evaluate(chan', Evaluate(chan', irq, A), B)
  PROVE  Kept
<1> DEFINE ch == [chan EXCEPT ![p] = c]
           e == Evaluate(chan', irq, A)
           f == Evaluate(chan', e, B)
<1>0. Ports = {A, B} /\ A \in Ports /\ B \in Ports /\ A # B
  BY SccAssumption DEF Ports
<1>1. ch \in [Ports -> Channel] /\ ch[p] = c /\ \A q \in Ports \ {p} : ch[q] = chan[q]
  BY DEF IInv, OK, ChanOK
<1> HIDE DEF ch
<1>2. \A q \in Ports : OK(ch[q]) /\ Same(chan[q], ch[q])
  BY <1>1 DEF IInv, Same
<1>3. /\ chan' \in [Ports -> Channel] /\ \A q \in Ports : OK(chan'[q])
      /\ \A q \in Ports :
           /\ chan'[q].rxQueue \in {<<>>, ch[q].rxQueue} /\ chan'[q].inBuf = ch[q].inBuf
           /\ chan'[q].pending["rx"] = ch[q].pending["rx"]
  BY <1>1, <1>2, Reg9Lemma DEF ch
<1>4. ASSUME NEW q \in Ports PROVE Moves(chan[q], chan'[q])
  <2>1. CASE chan'[q].rxQueue = <<>>
    <3>1. Moves(ch[q], chan'[q])
      BY <1>2, <1>3, <2>1, ResetMoves
    <3> QED BY <1>2, <3>1, MovesSame
  <2>2. CASE chan'[q].rxQueue = ch[q].rxQueue
    BY <1>2, <1>3, <2>2 DEF Same, Moves, LineStep, LineOf, CanPull
  <2> QED BY <1>3, <2>1, <2>2
<1>5. chan'[A].want \in SUBSET Lines /\ chan'[B].want \in SUBSET Lines
  BY <1>0, <1>3 DEF Channel
<1>6. /\ e \in SUBSET (Ports \X Lines)
      /\ ~chan'[A].mie => e = {}
      /\ \A l \in Lines : <<A, l>> \in e => l \in chan'[A].want
      /\ chan'[A].mie /\ chan'[A].want # {} => \E l \in Lines : <<A, l>> \in e
  BY <1>0, <1>5, EvaluateLemma DEF IInv
<1> HIDE DEF e
<1>7. /\ f \in SUBSET (Ports \X Lines)
      /\ ~chan'[A].mie => f = {}
      /\ \A l \in Lines : <<B, l>> \in f => l \in chan'[B].want
      /\ chan'[A].mie /\ chan'[B].want # {} => \E l \in Lines : <<B, l>> \in f
      /\ chan'[A].mie => \A r \in Ports \ {B}, l \in Lines : <<r, l>> \in f <=> <<r, l>> \in e
  BY <1>0, <1>5, <1>6, EvaluateLemma
<1>8. irq' = f
  BY DEF e
<1> HIDE DEF f
<1>9. OnlyWantedRaised' /\ NoChannelForgotten'
  <2>1. CASE ~chan'[A].mie
    BY <1>7, <1>8, <2>1 DEF OnlyWantedRaised, NoChannelForgotten
  <2>2. CASE chan'[A].mie
    <3>1. \A l \in Lines : <<A, l>> \in f <=> <<A, l>> \in e
      BY <1>0, <1>7, <2>2
    <3>2. OnlyWantedRaised'
      BY <1>0, <1>6, <1>7, <1>8, <2>2, <3>1 DEF OnlyWantedRaised
    <3>3. NoChannelForgotten'
      BY <1>0, <1>6, <1>7, <1>8, <2>2, <3>1 DEF NoChannelForgotten
    <3> QED BY <3>2, <3>3
  <2> QED BY <2>1, <2>2
<1> QED BY <1>3, <1>4, <1>7, <1>8, <1>9 DEF Kept, IInv

LEMMA WriteRegStep ==
  ASSUME IInv, NEW p \in Ports, NEW v \in Values, NEW char \in Chars, WriteReg(p, v, char)
  PROVE  Kept
<1> DEFINE first == chan[p].sel = NoReg
           reg == IF first THEN 0 ELSE chan[p].sel
           n == IF first /\ v < 16 THEN v ELSE NoReg
           c == [chan[p] EXCEPT !.sel = n]
<1>0. v \in Nat /\ n \in 0..NoReg /\ OK(chan[p])
  BY SccAssumption DEF NoReg, IInv
<1> HIDE DEF n
<1>1. OK(c) /\ Same(chan[p], c) /\ c.want = chan[p].want /\ Moves(chan[p], c)
  BY <1>0, SelLemma
<1> HIDE DEF c, reg
<1>2. CASE reg = 0 /\ (v \div 8) % 8 \in {2, 5, 7}
  <2>1. Become(p, Command(c, p, v))
    BY <1>2 DEF WriteReg, reg, c, n
  <2> DEFINE w == Command(c, p, v).want
             cmd == (v \div 8) % 8
  <2>2. Command(c, p, v) = [c EXCEPT !.want =
          IF cmd = 2 THEN @ \ {"ZC"} ELSE IF cmd = 5 THEN @ \ {"TX"}
          ELSE IF cmd = 7 THEN @ \ Highest(p) ELSE @]
    BY DEF Command
  <2>3. c \in Channel
    BY <1>1 DEF OK, ChanOK
  <2> DEFINE u == IF cmd = 2 THEN c.want \ {"ZC"} ELSE IF cmd = 5 THEN c.want \ {"TX"}
                  ELSE IF cmd = 7 THEN c.want \ Highest(p) ELSE c.want
  <2>4. u \in SUBSET (c.want \cup {"TX", "ZC"})
    OBVIOUS
  <2>5. Command(c, p, v) = [c EXCEPT !.want = u]
    BY <2>2
  <2> HIDE DEF u
  <2>6. OK([c EXCEPT !.want = u]) /\ Same(c, [c EXCEPT !.want = u])
    BY <1>1, <2>4, WantLemma
  <2> DEFINE d == [c EXCEPT !.want = u]
  <2>7. Become(p, d) /\ OK(d) /\ Same(c, d)
    BY <2>1, <2>5, <2>6
  <2> HIDE DEF d
  <2>8. Moves(chan[p], d) /\ d.mie = chan[p].mie
    BY <1>1, <2>7, MovesSame DEF Same
  <2> QED BY <2>7, <2>8, BecomeLemma DEF Kept
<1>3. CASE reg = 0 /\ (v \div 8) % 8 \notin {2, 5, 7}
  <2>1. Settle(p, c)
    BY <1>3 DEF WriteReg, reg, c, n
  <2> QED BY <1>1, <2>1, SettleLemma DEF Kept, Same
<1>4. CASE reg = 8
  <2> DEFINE d == Send(c, char)
  <2>1. Become(p, d) \/ (~c.loop /\ Settle(p, d))
    BY <1>4 DEF WriteReg, reg, c, n
  <2>2. OK(d) /\ d.mie = c.mie /\ Moves(c, d) /\ (~c.loop => d.want = c.want)
    BY <1>1, SendMoves
  <2> HIDE DEF d
  <2>3. Moves(chan[p], d) /\ d.mie = chan[p].mie
    BY <1>1, <2>2, MovesSame DEF Same
  <2> QED BY <1>1, <2>1, <2>2, <2>3, BecomeLemma, SettleLemma DEF Kept
<1>5. CASE reg = 9
  <2>1. /\ chan' = WriteReg9([chan EXCEPT ![p] = c], v)
        /\ irq' = Evaluate(chan', Evaluate(chan', irq, A), B)
    BY <1>5 DEF WriteReg, reg, c, n
  <2> QED BY <1>0, <1>1, <2>1, Reg9Step
<1>6. CASE reg \notin {0, 8, 9}
  <2> DEFINE d == StoreReg(c, reg, v)
  <2>1. OK(d) /\ Same(c, d) /\ d.want = c.want
    BY <1>0, <1>1, StoreMoves
  <2>2. Become(p, d) \/ Settle(p, d)
    BY <1>6 DEF WriteReg, reg, c, n
  <2> HIDE DEF d
  <2>3. Moves(chan[p], d) /\ d.mie = chan[p].mie /\ d.want = chan[p].want
    BY <1>1, <2>1, MovesSame DEF Same
  <2> QED BY <2>1, <2>2, <2>3, BecomeLemma, SettleLemma DEF Kept
<1> QED BY <1>2, <1>3, <1>4, <1>5, <1>6

LEMMA ResetStep == ASSUME IInv, Reset PROVE Kept
<1> DEFINE one == [q \in Ports |-> ResetPointers(chan[q])]
           g == HardResetPort(one, A)
           h == HardResetPort(g, B)
<1>0. Ports = {A, B} /\ A \in Ports /\ B \in Ports /\ A # B
  BY SccAssumption DEF Ports
<1>1. ASSUME NEW q \in Ports
      PROVE  LET d == ResetPointers(chan[q]) IN OK(d) /\ d.inBuf = <<>>
  <2> DEFINE c == chan[q]
             d == ResetPointers(c)
  <2>1. c \in Channel /\ NoReg \in 0..NoReg /\ <<>> \in Seq(Chars) /\ Len(<<>>) = 0 /\ ChanOK(c)
    BY EmptySeq DEF IInv, OK, ChanOK, NoReg
  <2> HIDE DEF c
  <2>2. /\ d \in Channel /\ d.rxQueue = c.rxQueue /\ d.inBuf = <<>> /\ d.pending = c.pending
        /\ d.queued = c.queued /\ d.want = {} /\ d.txEmpty = c.txEmpty
    BY ONLY <2>1 DEF Channel, ResetPointers
  <2> HIDE DEF d
  <2>3. InSize > 0
    BY SccAssumption
  <2>4. OK(d) /\ d.inBuf = <<>>
    BY <2>1, <2>2, <2>3 DEF OK, ChanOK, RxOK
  <2> QED BY <2>4 DEF d, c
<1>2. one \in [Ports -> Channel] /\ \A q \in Ports : OK(one[q]) /\ one[q].inBuf = <<>>
  BY <1>1 DEF OK, ChanOK
<1> HIDE DEF one
<1>3. /\ g \in [Ports -> Channel] /\ \A q \in Ports : ChanOK(g[q]) /\ RxOK(g[q])
      /\ g[A].rxQueue = <<>> /\ \A q \in Ports : g[q].inBuf = <<>>
  <2>1. \A q \in Ports : ChanOK(one[q]) /\ RxOK(one[q])
    BY <1>2 DEF OK
  <2>2. /\ g \in [Ports -> Channel] /\ \A q \in Ports : ChanOK(g[q])
        /\ \A q \in Ports : RxOK(one[q]) => RxOK(g[q])
        /\ g[A].rxQueue = <<>> /\ g[A].inBuf = one[A].inBuf
        /\ \A q \in Ports \ {A} : g[q].inBuf = one[q].inBuf
    <3>1. A \in Ports /\ one \in [Ports -> Channel] /\ \A q \in Ports : ChanOK(one[q])
      BY <1>0, <1>2, <2>1
    <3> QED BY ONLY <3>1, HardResetLemma
  <2> HIDE DEF g
  <2> QED BY <1>0, <1>2, <2>1, <2>2
<1> HIDE DEF g
<1>4. /\ h \in [Ports -> Channel] /\ \A q \in Ports : ChanOK(h[q]) /\ RxOK(h[q])
      /\ \A q \in Ports : h[q].rxQueue = <<>> /\ h[q].inBuf = <<>>
      /\ ~h[A].mie
  <2>1. /\ h \in [Ports -> Channel] /\ \A q \in Ports : ChanOK(h[q])
        /\ \A q \in Ports : RxOK(g[q]) => RxOK(h[q])
        /\ h[B].rxQueue = <<>> /\ h[B].inBuf = g[B].inBuf /\ ~h[A].mie
        /\ \A q \in Ports \ {B} : h[q].rxQueue = g[q].rxQueue /\ h[q].inBuf = g[q].inBuf
    <3>1. B \in Ports /\ g \in [Ports -> Channel] /\ \A q \in Ports : ChanOK(g[q])
      BY <1>0, <1>3
    <3> QED BY ONLY <3>1, HardResetLemma
  <2> HIDE DEF h
  <2> QED BY <1>0, <1>3, <2>1
<1> HIDE DEF h
<1>5. chan' = h /\ irq' = {}
  BY DEF Reset, h, g, one
<1>6. ASSUME NEW q \in Ports PROVE Moves(chan[q], chan'[q])
  <2>1. <<>> \o <<>> = <<>>
    BY EmptySeq, ConcatEmptySeq
  <2>2. LineOf(h[q]) = <<>>
    BY <1>4, <2>1 DEF LineOf
  <2>3. ~CanPull(h[q])
    BY <1>4 DEF CanPull
  <2> QED BY <1>5, <2>2, <2>3 DEF Moves, LineStep
<1> QED BY <1>4, <1>5, <1>6 DEF Kept, IInv, OK, OnlyWantedRaised, NoChannelForgotten

LEMMA SccStep == IInv /\ [SccNext]_sccVars => Kept
<1> SUFFICES ASSUME IInv, [SccNext]_sccVars PROVE Kept
  OBVIOUS
<1>1. CASE \E p \in Ports : RxEvent(p) \/ TxEvent(p) \/ BrEvent(p)
  BY <1>1, RxEventStep, TxEventStep, BrEventStep
<1>2. CASE \E p \in Ports : Receive(p, Chars) \/ ReadData(p, Chars) \/ ReadReg(p, Chars)
  BY <1>2, ReceiveStep, ReadDataStep, ReadRegStep
<1>3. CASE \E p \in Ports, char \in Chars : Echo(p, char) \/ WriteData(p, char)
  BY <1>3, EchoStep, WriteDataStep
<1>4. CASE \E p \in Ports, v \in Values, char \in Chars : WriteReg(p, v, char)
  BY <1>4, WriteRegStep
<1>5. CASE Reset
  BY <1>5, ResetStep
<1>6. CASE UNCHANGED sccVars
  <2>1. chan' = chan /\ irq' = irq
    BY <1>6 DEF sccVars
  <2>2. \A r \in Ports : Moves(chan[r], chan'[r])
    BY <2>1, SameMoves DEF Same
  <2>3. IInv'
    BY <2>1 DEF IInv, OnlyWantedRaised, NoChannelForgotten
  <2> QED BY <2>2, <2>3 DEF Kept
<1> QED BY <1>1, <1>2, <1>3, <1>4, <1>5, <1>6 DEF SccNext, Steps

LEMMA SccInitInv == SccInit => IInv
<1> SUFFICES ASSUME SccInit PROVE IInv
  OBVIOUS
<1>1. /\ irq = {} /\ \A p \in Ports : chan[p].want = {} /\ ~chan[p].mie
  BY DEF SccInit
<1>2. chan \in [Ports -> Channel]
  <2>1. <<>> \in Seq(Chars) /\ NoReg \in 0..NoReg
    BY EmptySeq DEF NoReg
  <2> QED BY <2>1 DEF SccInit, Channel
<1>3. ASSUME NEW p \in Ports PROVE OK(chan[p])
  <2>1. /\ chan[p].rxQueue = <<>> /\ chan[p].inBuf = <<>> /\ chan[p].txEmpty = TRUE
        /\ \A k \in Kinds : chan[p].queued[k] = 0 /\ chan[p].pending[k] = FALSE
    BY DEF SccInit
  <2>2. Len(<<>>) = 0 /\ InSize > 0
    BY SccAssumption, EmptySeq
  <2>3. chan[p] \in Channel /\ chan[p].want = {}
    BY <1>1, <1>2
  <2>4. \A k \in Kinds : chan[p].queued[k] = IF chan[p].pending[k] THEN 1 ELSE 0
    BY <2>1
  <2>5. ChanOK(chan[p])
    <3>1. Len(chan[p].rxQueue) = 0 /\ Len(chan[p].inBuf) = 0
      BY <2>1, <2>2
    <3>2. Len(chan[p].rxQueue) <= Held /\ Len(chan[p].inBuf) < InSize
      BY <2>2, <3>1, SccAssumption DEF Held
    <3> QED BY <2>1, <2>3, <2>4, <3>2 DEF ChanOK
  <2> QED BY <2>3, <2>5 DEF OK, RxOK
<1>4. A \in Ports
  BY DEF Ports
<1>5. OnlyWantedRaised
  BY <1>1 DEF OnlyWantedRaised
<1>6. NoChannelForgotten
  BY <1>1, <1>4 DEF NoChannelForgotten
<1> QED BY <1>1, <1>2, <1>3, <1>5, <1>6 DEF IInv

LEMMA SccInvariance == SccSpec => []IInv
<1>1. IInv /\ [SccNext]_sccVars => IInv'
  BY SccStep DEF Kept
<1> QED BY <1>1, SccInitInv, PTL DEF SccSpec

-----------------------------------------------------------------------------
(* The results                                                              *)

(* Both channels keep their types and their arrays' bounds.                 *)
THEOREM SccTypeCorrect == SccSpec => []SccTypeOK
<1>1. IInv => SccTypeOK
  BY DEF IInv, OK, ChanOK, SccTypeOK
<1> QED BY <1>1, SccInvariance, PTL

(* The event flags of both ports and the global event list agree for ever,  *)
(* and a busy transmitter is always waiting for an event: no reset and no   *)
(* order of handlers leaves one hanging or doubles it.                      *)
THEOREM SccEventsInStep == SccSpec => []EventsInStep
<1>1. IInv => EventsInStep
  <2> SUFFICES ASSUME IInv PROVE EventsMatchFlags /\ BusyTransmitterIsTimed
    BY DEF EventsInStep
  <2>1. EventsMatchFlags
    BY DEF IInv, OK, ChanOK, EventsMatchFlags
  <2>2. ASSUME NEW p \in Ports, ~chan[p].txEmpty PROVE chan[p].queued["tx"] > 0
    <3>1. "tx" \in Kinds /\ chan[p].pending["tx"]
      BY <2>2 DEF IInv, OK, ChanOK, Kinds
    <3> QED BY <2>1, <3>1 DEF EventsMatchFlags
  <2> QED BY <2>1, <2>2 DEF BusyTransmitterIsTimed
<1> QED BY <1>1, SccInvariance, PTL

(* The chip's interrupt lines are true to its conditions, although add_irq  *)
(* drops some of them: none is raised for nothing, and no channel is        *)
(* forgotten.                                                               *)
THEOREM SccLinesMatchWants == SccSpec => []LinesMatchWants
<1>1. IInv => LinesMatchWants
  BY DEF IInv, OK, RxOK, LinesMatchWants, RxInterruptHasChar
<1> QED BY <1>1, SccInvariance, PTL

(* The chip implements a line of characters on each port (SerialLine), for  *)
(* any size of the buffer behind the queue, and only a reset of the channel *)
(* strands characters in that buffer.                                       *)
THEOREM SccReceivesInOrder == SccSpec => ReceivedInOrder
<1> DEFINE OnlyReset == \A p \in Ports : Stranded(p)' /\ ~Stranded(p) =>
             chan[p].rxQueue # <<>> /\ chan'[p].rxQueue = <<>> /\ chan'[p].inBuf = chan[p].inBuf
<1>0. A \in Ports /\ B \in Ports
  BY DEF Ports
<1>1. SccInit => LineA!LineInit /\ LineB!LineInit
  <2> SUFFICES ASSUME SccInit PROVE LineA!LineInit /\ LineB!LineInit
    OBVIOUS
  <2>1. <<>> \o <<>> = <<>>
    BY EmptySeq, ConcatEmptySeq
  <2>2. \A p \in Ports : chan[p].rxQueue = <<>> /\ chan[p].inBuf = <<>>
    BY DEF SccInit
  <2> QED BY <1>0, <2>1, <2>2 DEF LineA!LineInit, LineB!LineInit
<1>2. IInv /\ [SccNext]_sccVars
        => /\ [LineA!LineNext]_(chan[A].rxQueue \o chan[A].inBuf)
           /\ [LineB!LineNext]_(chan[B].rxQueue \o chan[B].inBuf)
  <2> SUFFICES ASSUME IInv, [SccNext]_sccVars
               PROVE  /\ [LineA!LineNext]_(chan[A].rxQueue \o chan[A].inBuf)
                      /\ [LineB!LineNext]_(chan[B].rxQueue \o chan[B].inBuf)
    OBVIOUS
  <2>1. LineStep(LineOf(chan[A]), LineOf(chan'[A])) /\ LineStep(LineOf(chan[B]), LineOf(chan'[B]))
    BY <1>0, SccStep DEF Kept, Moves
  <2>2. [LineA!LineNext]_(chan[A].rxQueue \o chan[A].inBuf)
    BY <2>1 DEF LineStep, LineOf, LineA!LineNext, LineA!LineReceive, LineA!LineTake,
                LineA!LineDiscard, LineA!LineClear
  <2>3. [LineB!LineNext]_(chan[B].rxQueue \o chan[B].inBuf)
    BY <2>1 DEF LineStep, LineOf, LineB!LineNext, LineB!LineReceive, LineB!LineTake,
                LineB!LineDiscard, LineB!LineClear
  <2> QED BY <2>2, <2>3
<1>3. IInv /\ [SccNext]_sccVars => [OnlyReset]_sccVars
  BY SccStep DEF Kept, Moves, Stranded
<1>4. SccSpec => LineA!LineSpec /\ LineB!LineSpec
  BY <1>1, <1>2, SccInvariance, PTL DEF SccSpec, LineA!LineSpec, LineB!LineSpec
<1>5. SccSpec => OnlyResetStrands
  BY <1>3, SccInvariance, PTL DEF SccSpec, OnlyResetStrands
<1> QED BY <1>4, <1>5 DEF ReceivedInOrder, PortsAreLines

-----------------------------------------------------------------------------
(* Loops as functions: what a run hands on                                  *)

(* What the first of a kind of number is                                    *)
LEMMA LeastOf ==
  ASSUME NEW T \in SUBSET Nat, T # {}
  PROVE  \E t \in T : \A y \in T : ~(y < t)
<1>1. PICK t \in T : \A y \in T : ~ (<<y, t>> \in OpToRel(<, Nat))
  BY NatLessThanWellFounded, WFMin, Zenon
<1>2. ASSUME NEW y \in T, y < t PROVE FALSE
  <2> DEFINE ss == <<y, t>>
  <2>1. ss \in Nat \X Nat /\ ss[1] = y /\ ss[2] = t
    OBVIOUS
  <2>2. ss \in OpToRel(<, Nat)
    BY <2>1, <1>2 DEF OpToRel
  <2> QED  BY <2>2, <1>1
<1> QED  BY <1>2

(* What each element of a run hands on to the next holds of all of them.    *)
LEMMA HandedOn ==
  ASSUME NEW S, NEW n \in Nat, NEW f, f[0] \in S, \A i \in 1..n : f[i - 1] \in S => f[i] \in S
  PROVE  \A i \in 0..n : f[i] \in S
<1> DEFINE T == {i \in 0..n : f[i] \notin S}
<1>1. SUFFICES ASSUME T # {} PROVE FALSE
  OBVIOUS
<1>2. T \in SUBSET Nat
  OBVIOUS
<1>3. PICK t \in T : \A y \in T : ~(y < t)
  <2> HIDE DEF T
  <2> QED  BY <1>1, <1>2, LeastOf
<1>4. t \in 1..n /\ t - 1 \in 0..n /\ t - 1 < t
  OBVIOUS
<1> QED  BY <1>3, <1>4

(* f starts with start and goes on by steps,                                *)
Run(f, start, step, n) == f[0] = start /\ \A i \in 1..n : f[i] = step[i][f[i - 1]]

(* which it can if they lead nowhere else.                                  *)
LEMMA RunExists ==
  ASSUME NEW S, NEW start \in S, NEW n \in Nat, NEW step \in [1..n -> [S -> S]]
  PROVE  \E f \in [0..n -> S] : Run(f, start, step, n)
<1> DEFINE Can == {k \in 0..n : \E f \in [0..k -> S] : Run(f, start, step, k)}
           g == [k \in 0..n |-> k]
<1>1. 0 \in Can
  <2> DEFINE z == [i \in 0..0 |-> start]
  <2>1. z \in [0..0 -> S] /\ z[0] = start /\ \A i \in 1..0 : FALSE
    OBVIOUS
  <2> HIDE DEF z
  <2>2. Run(z, start, step, 0)
    BY <2>1 DEF Run
  <2> QED  BY <2>1, <2>2
<1>2. ASSUME NEW k \in 1..n, k - 1 \in Can PROVE k \in Can
  <2>1. PICK f \in [0..k - 1 -> S] : Run(f, start, step, k - 1)
    BY <1>2
  <2> DEFINE h == [i \in 0..k |-> IF i = k THEN step[k][f[k - 1]] ELSE f[i]]
  <2>2. f[k - 1] \in S /\ step[k] \in [S -> S]
    OBVIOUS
  <2>3. h \in [0..k -> S]
    BY <2>2
  <2>4. h[0] = start
    BY <2>1 DEF Run
  <2>5. ASSUME NEW i \in 1..k PROVE h[i] = step[i][h[i - 1]]
    <3>1. i - 1 \in 0..k - 1 /\ h[i - 1] = f[i - 1]
      OBVIOUS
    <3>2. CASE i = k
      BY <3>1, <3>2
    <3>3. CASE i # k
      <4>1. i \in 1..k - 1 /\ h[i] = f[i]
        BY <3>3
      <4> QED  BY <2>1, <3>1, <4>1 DEF Run
    <3> QED  BY <3>2, <3>3
  <2> HIDE DEF h
  <2>6. Run(h, start, step, k)
    BY <2>4, <2>5 DEF Run
  <2> QED  BY <2>3, <2>6
<1> HIDE DEF Can
<1>3. \A i \in 1..n : g[i - 1] \in Can => g[i] \in Can
  BY <1>2
<1>4. g[0] \in Can
  BY <1>1
<1> HIDE DEF g
<1>5. \A i \in 0..n : g[i] \in Can
  BY <1>3, <1>4, HandedOn
<1>6. n \in Can
  BY <1>5 DEF g
<1> QED  BY <1>6 DEF Can

-----------------------------------------------------------------------------
(* A port whose line is in order                                            *)
LineOK(s) ==
  s.state = VirtualModem =>
    /\ ~s.modem => s.rdwr # "none"
    /\ s.rings > 0 => s.rdwr = "caller"
    /\ s.rdwr # "none" => s.sock # "none"

(* The sets the fields of a port range over                                 *)
States == -2..3
Socks == {"none", "listen", "remote"}
Callers == {"none", "caller", "remote"}
Counts == 0..4
Picks == 0..1
Buffers == Seq(Tokens)
(* The type of a port with the sets of its fields named                     *)
Ports_ ==
  [ state : States, modem : BOOLEAN, sock : Socks, rdwr : Callers, dcd : BOOLEAN, dtr : BOOLEAN,
    rings : Counts, s0 : Picks, plus : Counts, flushed : BOOLEAN, out : Buffers ]

(* What is needed of those sets                                             *)
LEMMA PortIs ==
  /\ Port = Ports_
  /\ "none" \in Socks /\ "none" \in Callers /\ "listen" \in Socks /\ "remote" \in Socks
  /\ "caller" \in Callers /\ "remote" \in Callers
  /\ 0 \in Picks /\ 1 \in Picks /\ 0 \in Counts /\ 4 \in Counts
  /\ \A n \in Counts : n \in Nat /\ (n > 1 => n - 1 \in Counts)
  BY DEF Port, Ports_, States, Socks, Callers, Counts, Picks, Buffers

(* A port with its types, its bound and its line in order                   *)
PortOK(s) == s \in Port /\ Len(s.out) < OutSize /\ LineOK(s)

(* ... and the set of these                                                 *)
PortsOK == {s \in Port : PortOK(s)}

(* What a port may become while its buffer is in use                        *)
Holding(s) == {t \in PortsOK : s.out # <<>> => t.out # <<>>}

(* It is handed on.                                                         *)
LEMMA HoldingOn ==
  ASSUME NEW s, NEW t \in Holding(s)
  PROVE  t \in PortsOK /\ Holding(t) \subseteq Holding(s)
  BY DEF Holding

(* Closing the sockets leaves a line without a caller, which does not ring. *)
LEMMA CloseKeeps ==
  ASSUME NEW s \in PortsOK
  PROVE  Close(s) \in PortsOK /\ Close(s).out = s.out /\ Close(s).rdwr = "none"
         /\ Close(s).state = s.state /\ Close(s).rings = 0
<1> DEFINE c == Close(s)
<1>1. c = [s EXCEPT !.sock = "none", !.rdwr = "none", !.rings = 0,
                    !.modem = (s.state = VirtualModem),
                    !.dcd = IF s.state = VirtualModem THEN FALSE ELSE s.dcd]
  BY DEF Close
<1> DEFINE modem == s.state = VirtualModem
           dcd == IF s.state = VirtualModem THEN FALSE ELSE s.dcd
<1>2. modem \in BOOLEAN /\ dcd \in BOOLEAN /\ s \in Port /\ PortOK(s)
  BY DEF PortsOK, Port
<1>3. c = [s EXCEPT !.sock = "none", !.rdwr = "none", !.rings = 0, !.modem = modem, !.dcd = dcd]
  BY <1>1
<1>4. s.state = VirtualModem => modem = TRUE
  OBVIOUS
<1> HIDE DEF c, modem, dcd
<1>5. /\ c \in Port /\ c.state = s.state /\ c.out = s.out /\ c.rdwr = "none" /\ c.rings = 0
      /\ c.modem = modem
  BY <1>2, <1>3, PortIs DEF Ports_
<1>6. PortOK(c)
  BY <1>2, <1>4, <1>5 DEF PortOK, LineOK
<1> QED  BY <1>5, <1>6 DEF PortsOK, c

(* So does closing them for good,                                           *)
LEMMA CloseExtendedKeeps ==
  ASSUME NEW s \in PortsOK, NEW retry \in BOOLEAN
  PROVE  CloseExtended(s, retry) \in Holding(s) /\ CloseExtended(s, retry) \in PortsOK
  BY CloseKeeps DEF Holding, PortsOK, PortOK, Port, LineOK, CloseExtended, VirtualModem, Failed

(* and a listening socket has no caller yet;                                *)
LEMMA OpenIncomingKeeps ==
  ASSUME NEW s \in PortsOK
  PROVE  OpenIncoming(s) \subseteq Holding(s) /\ OpenIncoming(s) \subseteq PortsOK
  BY CloseKeeps DEF Holding, PortsOK, PortOK, Port, LineOK, OpenIncoming, VirtualModem

(* a connected one is its own caller.                                       *)
LEMMA OpenOutgoingKeeps ==
  ASSUME NEW s \in PortsOK
  PROVE  OpenOutgoing(s) \subseteq Holding(s) /\ OpenOutgoing(s) \subseteq PortsOK
<1> DEFINE c == Close(s)
           e == [c EXCEPT !.dcd = TRUE, !.modem = FALSE, !.sock = "remote", !.rdwr = "remote"]
<1>1. c \in PortsOK /\ c.rings = 0 /\ c.out = s.out
  BY CloseKeeps
<1> HIDE DEF c
<1>2. e \in PortsOK /\ e.out = c.out
  <2>1. c \in Ports_ /\ Len(c.out) < OutSize
    BY <1>1, PortIs DEF PortsOK, PortOK
  <2>2. e \in Ports_ /\ e.out = c.out /\ e.rings = c.rings /\ e.rdwr = "remote" /\ e.sock = "remote"
    BY <2>1, PortIs DEF Ports_
  <2> HIDE DEF e
  <2>3. LineOK(e)
    BY <1>1, <2>2 DEF LineOK
  <2> QED  BY <2>1, <2>2, <2>3, PortIs DEF PortsOK, PortOK
<1>3. CloseExtended(c, FALSE) \in Holding(c)
  BY <1>1, CloseExtendedKeeps
<1> HIDE DEF e
<1>4. OpenOutgoing(s) = {CloseExtended(c, FALSE), e}
  BY DEF OpenOutgoing, c, e
<1> QED  BY <1>1, <1>2, <1>3, <1>4 DEF Holding

(* One of the three before something is put out                             *)
LEMMA MaybeOpenKeeps ==
  ASSUME NEW s \in PortsOK, NEW must
  PROVE  MaybeOpen(s, must) \subseteq Holding(s) /\ MaybeOpen(s, must) \subseteq PortsOK
  BY CloseKeeps, OpenIncomingKeeps, OpenOutgoingKeeps DEF MaybeOpen, Holding

(* A port opened anew                                                       *)
LEMMA SocketOpenKeeps ==
  ASSUME NEW s \in PortsOK, NEW mode \in 0..3
  PROVE  SocketOpen(s, mode) \subseteq PortsOK
<1> DEFINE o == [s EXCEPT !.state = mode, !.sock = "none", !.rdwr = "none", !.rings = 0, !.s0 = 0,
                          !.modem = (mode = VirtualModem), !.dcd = (mode # VirtualModem)]
<1>1. o \in PortsOK
  <2> DEFINE modem == mode = VirtualModem
             dcd == mode # VirtualModem
  <2>1. modem \in BOOLEAN /\ dcd \in BOOLEAN /\ (mode = VirtualModem => modem = TRUE)
    OBVIOUS
  <2> DEFINE e == [s EXCEPT !.state = mode, !.sock = "none", !.rdwr = "none", !.rings = 0, !.s0 = 0,
                            !.modem = modem, !.dcd = dcd]
  <2>2. e = o
    OBVIOUS
  <2> HIDE DEF modem, dcd
  <2>3. e \in Port /\ e.state = mode /\ e.modem = modem /\ e.rings = 0 /\ e.rdwr = "none"
        /\ e.out = s.out
    <3>1. mode \in States
      BY DEF States
    <3>2. s \in Ports_
      BY PortIs DEF PortsOK
    <3> QED  BY <2>1, <3>1, <3>2, PortIs DEF Ports_
  <2>4. Len(s.out) < OutSize
    BY DEF PortsOK, PortOK
  <2> HIDE DEF e
  <2>5. PortOK(e)
    BY <2>1, <2>3, <2>4 DEF PortOK, LineOK
  <2> QED  BY <2>2, <2>3, <2>5 DEF PortsOK
<1> HIDE DEF o
<1>2. SocketOpen(s, mode) = IF mode = Outgoing THEN {o} ELSE OpenIncoming(o)
  BY DEF SocketOpen, o
<1> QED  BY <1>1, <1>2, OpenIncomingKeeps

(* A port that is not a modem is free to be in any state.                   *)
LEMMA StateKept ==
  ASSUME NEW s \in PortsOK, NEW state \in {RealPort, Closed, Failed}
  PROVE  [s EXCEPT !.state = state] \in PortsOK
  BY DEF PortsOK, PortOK, Port, LineOK, RealPort, Closed, Failed, VirtualModem

(* Opening a port that was closed, or giving it up                          *)
LEMMA OpenedKeeps ==
  ASSUME NEW s \in PortsOK, NEW mode \in 0..3
  PROVE  Opened(s, mode) \subseteq PortsOK
<1> DEFINE tried == IF s.state # Closed THEN {s}
                    ELSE IF mode = RealPort THEN {s, [s EXCEPT !.state = RealPort]}
                    ELSE SocketOpen(s, mode)
<1>1. tried \subseteq PortsOK
  BY StateKept, SocketOpenKeeps
<1> HIDE DEF tried
<1>2. Opened(s, mode) = {IF o.state < 0 THEN [o EXCEPT !.state = Failed] ELSE o : o \in tried}
  BY DEF Opened, tried
<1> QED  BY <1>1, <1>2, StateKept

-----------------------------------------------------------------------------
(* The output buffer takes a token only if it has room.                     *)
LEMMA WithOutKeeps ==
  ASSUME NEW s \in PortsOK, NEW t \in Tokens
  PROVE  /\ WithOut(s, t) \in PortsOK
         /\ s.out # <<>> => WithOut(s, t).out # <<>>
         /\ WithOut(s, t).rdwr = s.rdwr /\ WithOut(s, t).sock = s.sock
         /\ WithOut(s, t).state = s.state
<1> DEFINE e == [s EXCEPT !.out = Append(s.out, t)]
<1>1. s \in Ports_ /\ Len(s.out) < OutSize /\ LineOK(s) /\ s.out \in Seq(Tokens)
  BY PortIs DEF PortsOK, PortOK, Ports_, Buffers
<1>2. /\ Append(s.out, t) \in Seq(Tokens) /\ Append(s.out, t) # <<>>
      /\ Len(Append(s.out, t)) = Len(s.out) + 1
  BY <1>1
<1>3. /\ e \in Ports_ /\ e.out = Append(s.out, t) /\ e.state = s.state /\ e.modem = s.modem
      /\ e.rings = s.rings /\ e.rdwr = s.rdwr /\ e.sock = s.sock
  BY <1>1, <1>2 DEF Ports_, Buffers
<1>4. WithOut(s, t) = IF Len(s.out) + 1 < OutSize THEN e ELSE s
  BY DEF WithOut
<1> HIDE DEF e
<1>5. LineOK(e)
  BY <1>1, <1>3 DEF LineOK
<1>6. Len(s.out) + 1 < OutSize => e \in PortsOK
  BY <1>2, <1>3, <1>5, PortIs DEF PortsOK, PortOK
<1> QED  BY <1>2, <1>3, <1>4, <1>6

(* An answered call has its caller.                                         *)
LEMMA AnsweredKeeps ==
  ASSUME NEW s \in PortsOK, s.rdwr # "none"
  PROVE  Answered(s) \in Holding(s) /\ Answered(s) \in PortsOK
<1> DEFINE w == WithOut(s, "telnet")
<1>1. w \in PortsOK /\ w.rdwr # "none" /\ (s.out # <<>> => w.out # <<>>)
  BY WithOutKeeps DEF Tokens
<1> HIDE DEF w
<1>2. Answered(s) = [w EXCEPT !.modem = FALSE, !.dcd = TRUE, !.rings = 0]
  BY DEF Answered, w
<1> DEFINE e == [w EXCEPT !.modem = FALSE, !.dcd = TRUE, !.rings = 0]
<1>3. w \in Ports_ /\ Len(w.out) < OutSize /\ LineOK(w)
  BY <1>1, PortIs DEF PortsOK, PortOK
<1>4. e \in Ports_ /\ e.out = w.out /\ e.rings = 0 /\ e.rdwr = w.rdwr /\ e.sock = w.sock
      /\ e.state = w.state
  BY <1>3, PortIs DEF Ports_
<1> HIDE DEF e
<1>5. LineOK(e)
  BY <1>1, <1>3, <1>4 DEF LineOK
<1>6. e \in PortsOK
  BY <1>3, <1>4, <1>5, PortIs DEF PortsOK, PortOK
<1>7. e \in Holding(s)
  BY <1>1, <1>4, <1>6 DEF Holding
<1> QED  BY <1>2, <1>6, <1>7 DEF e

(* A ring counts down, and ends in an answer or in silence.                 *)
LEMMA RingKeeps ==
  ASSUME NEW s \in PortsOK, NEW due
  PROVE  Ring(s, due) \in Holding(s) /\ Ring(s, due) \in PortsOK
<1> DEFINE e == [s EXCEPT !.rings = @ - 1]
<1>1. s.rings > 1 => e \in PortsOK /\ e.out = s.out
  <2>1. s \in Ports_ /\ s.rings \in Nat
    BY PortIs DEF PortsOK, Ports_
  <2> QED  BY <2>1, PortIs DEF PortsOK, PortOK, Ports_, LineOK
<1> HIDE DEF e
<1>2. \/ Ring(s, due) \in {s, Close(s), CloseExtended(s, FALSE)}
      \/ Ring(s, due) = e /\ s.rings > 1
      \/ Ring(s, due) = Answered(s) /\ s.rdwr # "none"
  BY DEF Ring, e
<1>3. Close(s) \in Holding(s) /\ CloseExtended(s, FALSE) \in Holding(s) /\ s \in Holding(s)
  BY CloseKeeps, CloseExtendedKeeps DEF Holding
<1>4. s.rings > 1 => e \in Holding(s)
  BY <1>1 DEF Holding
<1>5. s.rdwr # "none" => Answered(s) \in Holding(s)
  BY AnsweredKeeps
<1>6. Ring(s, due) \in Holding(s)
  BY <1>2, <1>3, <1>4, <1>5
<1> QED  BY <1>6 DEF Holding

(* A caller rings only on a socket, and only where there is none.           *)
LEMMA AcceptKeeps ==
  ASSUME NEW s \in PortsOK
  PROVE  Accept(s) \subseteq Holding(s) /\ Accept(s) \subseteq PortsOK
<1> DEFINE Op(o) == IF o.sock = "none" \/ o.rdwr # "none" THEN {o}
                    ELSE {o, Ring([o EXCEPT !.rdwr = "caller",
                                            !.rings = IF o.s0 > 0 THEN o.s0 ELSE 4], TRUE)}
           S == IF s.sock = "none" THEN OpenIncoming(s) ELSE {s}
<1>1. Accept(s) = UNION {Op(o) : o \in S}
  BY DEF Accept, Then
<1>2. S \subseteq Holding(s)
  BY OpenIncomingKeeps DEF Holding
<1>3. ASSUME NEW o \in PortsOK PROVE Op(o) \subseteq Holding(o)
  <2> DEFINE n == IF o.s0 > 0 THEN o.s0 ELSE 4
             r == [o EXCEPT !.rdwr = "caller", !.rings = n]
  <2>1. n \in 0..4 /\ n > 0
    BY DEF PortsOK, Port
  <2> HIDE DEF n
  <2>2. o.sock # "none" /\ o.rdwr = "none" => r \in PortsOK /\ r.out = o.out
    BY <2>1 DEF PortsOK, PortOK, Port, LineOK
  <2> HIDE DEF r
  <2>3. Op(o) = IF o.sock = "none" \/ o.rdwr # "none" THEN {o} ELSE {o, Ring(r, TRUE)}
    BY DEF r, n
  <2>4. o.sock # "none" /\ o.rdwr = "none" => Ring(r, TRUE) \in Holding(r)
    BY <2>2, RingKeeps
  <2> HIDE DEF Op
  <2>5. o \in Holding(o) /\ (o.sock # "none" /\ o.rdwr = "none" => Ring(r, TRUE) \in Holding(o))
    BY <2>2, <2>4 DEF Holding
  <2> QED  BY <2>3, <2>5
<1> HIDE DEF S, Op
<1>4. ASSUME NEW o \in S PROVE Op(o) \subseteq Holding(s)
  BY <1>2, <1>3, HoldingOn
<1>5. Accept(s) \subseteq Holding(s)
  BY <1>1, <1>4
<1> QED  BY <1>5 DEF Holding

(* An answer needs a caller.                                                *)
LEMMA DoAnswerKeeps ==
  ASSUME NEW s \in PortsOK
  PROVE  DoAnswer(s) \subseteq Holding(s) /\ DoAnswer(s) \subseteq PortsOK
<1>1. ASSUME NEW o \in Accept(s)
      PROVE  (IF o.rdwr = "none" THEN CloseExtended(o, FALSE) ELSE Answered(o)) \in Holding(s)
  <2>1. o \in Holding(s) /\ o \in PortsOK /\ Holding(o) \subseteq Holding(s)
    BY AcceptKeeps, HoldingOn
  <2>2. CloseExtended(o, FALSE) \in Holding(o)
    BY <2>1, CloseExtendedKeeps
  <2>3. o.rdwr # "none" => Answered(o) \in Holding(o)
    BY <2>1, AnsweredKeeps
  <2> QED  BY <2>1, <2>2, <2>3
<1>2. DoAnswer(s) \subseteq Holding(s)
  BY <1>1 DEF DoAnswer
<1> QED  BY <1>2 DEF Holding

-----------------------------------------------------------------------------
(* The commands keep it,                                                    *)
LEMMA ObeyKeeps ==
  ASSUME NEW s \in PortsOK, NEW cmd
  PROVE  Obey(s, cmd) \subseteq Holding(s) /\ Obey(s, cmd) \subseteq PortsOK
<1> DEFINE a == [s EXCEPT !.s0 = 1]
           b == [s EXCEPT !.modem = FALSE]
<1>1. a \in PortsOK /\ a.out = s.out
  <2>1. s \in Ports_ /\ Len(s.out) < OutSize /\ LineOK(s)
    BY PortIs DEF PortsOK, PortOK
  <2>2. /\ a \in Ports_ /\ a.out = s.out /\ a.state = s.state /\ a.modem = s.modem
        /\ a.rings = s.rings /\ a.rdwr = s.rdwr /\ a.sock = s.sock
    BY <2>1, PortIs DEF Ports_
  <2> HIDE DEF a
  <2>3. LineOK(a)
    BY <2>1, <2>2 DEF LineOK
  <2> QED  BY <2>1, <2>2, <2>3, PortIs DEF PortsOK, PortOK
<1>2. s.rdwr # "none" => b \in PortsOK /\ b.out = s.out
  BY DEF PortsOK, PortOK, Port, LineOK
<1> HIDE DEF a, b
<1>3. a \in Holding(s) /\ Close(s) \in Holding(s) /\ s \in Holding(s)
      /\ (s.rdwr # "none" => b \in Holding(s))
  BY <1>1, <1>2, CloseKeeps DEF Holding
<1>4. \/ Obey(s, cmd) = {a}
      \/ Obey(s, cmd) = {IF s.dcd /\ s.modem /\ s.rdwr # "none" THEN b ELSE s}
      \/ Obey(s, cmd) = {Close(s)}
      \/ Obey(s, cmd) = DoAnswer(s)
      \/ Obey(s, cmd) = OpenOutgoing(s)
      \/ Obey(s, cmd) = {s}
  BY DEF Obey, a, b
<1>5. Obey(s, cmd) \subseteq Holding(s)
  BY <1>3, <1>4, DoAnswerKeeps, OpenOutgoingKeeps
<1> QED  BY <1>5 DEF Holding

(* What is left of the buffer is shorter.                                   *)
LEMMA OutCut ==
  ASSUME NEW s \in PortsOK, NEW n \in 0..Len(s.out)
  PROVE  [s EXCEPT !.out = SubSeq(@, n + 1, Len(@))] \in PortsOK
<1>1. s.out \in Seq(Tokens) /\ Len(s.out) \in Nat /\ s \in Port /\ PortOK(s) /\ OutSize \in Nat
  BY ModemAssumption DEF PortsOK, Port
<1> DEFINE rest == SubSeq(s.out, n + 1, Len(s.out))
<1>2. rest \in Seq(Tokens) /\ Len(rest) <= Len(s.out)
  BY <1>1
<1> HIDE DEF rest
<1> DEFINE e == [s EXCEPT !.out = rest]
<1>3. e \in PortsOK
  <2>1. s \in Ports_ /\ LineOK(s)
    BY <1>1, PortIs DEF PortOK
  <2>2. /\ e \in Ports_ /\ e.out = rest /\ e.state = s.state /\ e.modem = s.modem
        /\ e.rings = s.rings /\ e.rdwr = s.rdwr /\ e.sock = s.sock
    BY <1>2, <2>1 DEF Ports_, Buffers
  <2> HIDE DEF e
  <2>3. LineOK(e)
    BY <2>1, <2>2 DEF LineOK
  <2>4. Len(e.out) < OutSize
    BY <1>1, <1>2, <2>2 DEF PortOK
  <2> QED  BY <2>2, <2>3, <2>4, PortIs DEF PortsOK, PortOK
<1> QED  BY <1>3 DEF rest

-----------------------------------------------------------------------------
(* The pluses in a buffer are counted up to four.                           *)
LEMMA PlusCount ==
  ASSUME NEW s \in PortsOK, NEW n \in 0..Len(s.out), NEW quiet \in Pauses
  PROVE  CountPlus(s, n, quiet) \in Counts
<1> DEFINE Step(plus, t, gap) ==
             IF t # "+" THEN 0
             ELSE IF plus = 0 THEN (IF gap > 0 THEN 1 ELSE 0)
             ELSE IF gap < 2 THEN (IF plus < 4 THEN plus + 1 ELSE 4) ELSE plus
           Gap(i) == IF i = 1 THEN quiet ELSE 0
           step == [i \in 1..n |-> [c \in Counts |-> Step(c, s.out[i], Gap(i))]]
           eq(f) == f = [i \in 0..n |-> IF i = 0 THEN s.plus ELSE Step(f[i - 1], s.out[i], Gap(i))]
           C == CHOOSE f : eq(f)
<1>1. s.plus \in Counts /\ n \in Nat /\ Len(s.out) \in Nat
  BY PortIs DEF PortsOK, Ports_, Buffers
<1>2. \A c \in Counts : \A t, gap : gap \in Pauses => Step(c, t, gap) \in Counts
  BY DEF Counts, Pauses
<1>3. \A i \in Int : Gap(i) \in Pauses
  BY DEF Pauses
<1> HIDE DEF Step, Gap
<1>4. \A i \in 1..n : [c \in Counts |-> Step(c, s.out[i], Gap(i))] \in [Counts -> Counts]
  BY <1>2, <1>3
<1>5. step \in [1..n -> [Counts -> Counts]]
  BY <1>4
<1>6. PICK h \in [0..n -> Counts] : Run(h, s.plus, step, n)
  <2> HIDE DEF step
  <2> QED  BY <1>1, <1>5, RunExists
<1>7. \A i \in 1..n : h[i] = Step(h[i - 1], s.out[i], Gap(i))
  <2> SUFFICES ASSUME NEW i \in 1..n PROVE h[i] = Step(h[i - 1], s.out[i], Gap(i))
    OBVIOUS
  <2>1. i - 1 \in 0..n
    BY <1>1
  <2> QED  BY <1>6, <2>1 DEF Run
<1>8. eq(h)
  BY <1>1, <1>6, <1>7 DEF Run
<1> HIDE DEF eq
<1>9. eq(C)
  BY <1>8
<1> HIDE DEF C
<1>10. \A i \in 0..n : C[i] = IF i = 0 THEN s.plus ELSE Step(C[i - 1], s.out[i], Gap(i))
  BY <1>9, Zenon DEF eq
<1>11. \A i \in 1..n : C[i - 1] \in Counts => C[i] \in Counts
  BY <1>1, <1>2, <1>3, <1>10
<1>12. C[0] \in Counts
  BY <1>1, <1>10
<1>13. \A i \in 0..n : C[i] \in Counts
  BY <1>1, <1>11, <1>12, HandedOn
<1>14. C[n] \in Counts
  BY <1>1, <1>13
<1> QED  BY <1>14 DEF C, eq, CountPlus, Step, Gap

(* Some fields are of no importance to the line.                            *)
LEMMA PlusKept ==
  ASSUME NEW s \in PortsOK, NEW plus \in Counts
  PROVE  /\ [s EXCEPT !.plus = plus] \in PortsOK /\ [s EXCEPT !.modem = TRUE, !.plus = plus] \in PortsOK
         /\ [s EXCEPT !.plus = plus].out = s.out
<1> DEFINE a == [s EXCEPT !.plus = plus]
           b == [s EXCEPT !.modem = TRUE, !.plus = plus]
<1>1. s \in Ports_ /\ Len(s.out) < OutSize /\ LineOK(s)
  BY PortIs DEF PortsOK, PortOK
<1>2. /\ a \in Ports_ /\ a.out = s.out /\ a.state = s.state /\ a.modem = s.modem
      /\ a.rings = s.rings /\ a.rdwr = s.rdwr /\ a.sock = s.sock
  BY <1>1 DEF Ports_
<1>3. /\ b \in Ports_ /\ b.out = s.out /\ b.state = s.state /\ b.modem = TRUE
      /\ b.rings = s.rings /\ b.rdwr = s.rdwr /\ b.sock = s.sock
  BY <1>1 DEF Ports_
<1> HIDE DEF a, b
<1>4. LineOK(a) /\ LineOK(b)
  BY <1>1, <1>2, <1>3 DEF LineOK
<1>5. a \in PortsOK /\ b \in PortsOK
  BY <1>1, <1>2, <1>3, <1>4, PortIs DEF PortsOK, PortOK
<1> QED  BY <1>2, <1>5 DEF a, b

(* The escape makes a modem listen to commands again.                       *)
LEMMA EscapeKeeps ==
  ASSUME NEW s \in PortsOK, NEW quiet
  PROVE  Escape(s, quiet) \in PortsOK
<1>1. [s EXCEPT !.modem = TRUE, !.plus = 0] \in PortsOK
  BY PlusKept, PortIs
<1> QED  BY <1>1 DEF Escape

(* Whatever is sent, the rest stays in the buffer.                          *)
LEMMA SentKeeps ==
  ASSUME NEW s \in PortsOK, NEW quiet \in Pauses
  PROVE  Sent(s, quiet) \subseteq PortsOK
<1> DEFINE counted == [s EXCEPT !.plus = CountPlus(s, Len(s.out), quiet)]
<1>1. Len(s.out) \in Nat /\ Len(s.out) \in 0..Len(s.out)
  BY PortIs DEF PortsOK, Ports_, Buffers
<1>2. CountPlus(s, Len(s.out), quiet) \in Counts
  BY <1>1, PlusCount
<1>3. counted \in PortsOK /\ counted.out = s.out
  BY <1>2, PlusKept
<1> HIDE DEF counted
<1>4. \A n \in 0..Len(s.out) : [counted EXCEPT !.out = SubSeq(@, n + 1, Len(@))] \in PortsOK
  BY <1>3, OutCut
<1>5. CloseExtended(counted, TRUE) \in PortsOK
  BY <1>3, CloseExtendedKeeps
<1>6. Sent(s, quiet) = {[counted EXCEPT !.out = SubSeq(@, n + 1, Len(@))] : n \in 0..Len(s.out)}
                       \cup {CloseExtended(counted, TRUE)}
  BY DEF Sent, counted
<1> QED  BY <1>4, <1>5, <1>6

(* A command taken from the buffer makes it shorter.                        *)
LEMMA OutShorter ==
  ASSUME NEW s \in PortsOK, s.out # <<>>
  PROVE  [s EXCEPT !.out = Tail(@), !.flushed = FALSE] \in PortsOK
<1> DEFINE rest == Tail(s.out)
           e == [s EXCEPT !.out = rest, !.flushed = FALSE]
<1>1. s \in Ports_ /\ Len(s.out) < OutSize /\ LineOK(s) /\ s.out \in Seq(Tokens) /\ OutSize \in Nat
  BY PortIs, ModemAssumption DEF PortsOK, PortOK, Ports_, Buffers
<1>2. rest \in Buffers /\ Len(rest) < OutSize
  BY <1>1 DEF Buffers
<1> HIDE DEF rest
<1>3. /\ e \in Ports_ /\ e.out = rest /\ e.state = s.state /\ e.modem = s.modem
      /\ e.rings = s.rings /\ e.rdwr = s.rdwr /\ e.sock = s.sock
  BY <1>1, <1>2 DEF Ports_
<1> HIDE DEF e
<1>4. LineOK(e)
  BY <1>1, <1>3 DEF LineOK
<1>5. e \in PortsOK
  BY <1>2, <1>3, <1>4, PortIs DEF PortsOK, PortOK
<1> QED  BY <1>5 DEF e, rest

(* A command that has been obeyed leaves the buffer.                        *)
LEMMA ModemWriteKeeps ==
  ASSUME NEW s \in PortsOK, s.out # <<>>
  PROVE  ModemWrite(s) \subseteq PortsOK
<1> DEFINE Op(c) == Obey(c, Head(s.out))
<1>1. Then(OpenIncoming(s), Op) = UNION {Op(c) : c \in OpenIncoming(s)}
  BY DEF Then
<1>2. ModemWrite(s) = {[o EXCEPT !.out = Tail(@), !.flushed = FALSE] :
                         o \in UNION {Op(c) : c \in OpenIncoming(s)}}
  BY DEF ModemWrite, Then
<1>3. ASSUME NEW c \in OpenIncoming(s), NEW o \in Op(c) PROVE o \in PortsOK /\ o.out # <<>>
  <2>1. c \in PortsOK /\ c.out # <<>>
    BY OpenIncomingKeeps DEF Holding
  <2>2. o \in Holding(c)
    BY <2>1, ObeyKeeps
  <2> QED  BY <2>1, <2>2 DEF Holding
<1> HIDE DEF Op
<1> QED  BY <1>2, <1>3, OutShorter

(* A turn of the loop that empties the buffer                               *)
Turns == [port : PortsOK, over : BOOLEAN]

(* One turn, to whichever of the two it writes                              *)
LEMMA DrainTurnKeeps ==
  ASSUME NEW r \in Turns, NEW quiet \in Pauses
  PROVE  DrainTurn(r, quiet) \subseteq Turns
<1> DEFINE Op(o) == IF o.modem THEN {[port |-> w, over |-> FALSE] : w \in ModemWrite(o)}
                    ELSE {[port |-> w, over |-> TRUE] :
                            w \in IF r.port.rdwr = "none" THEN {o} ELSE Sent(o, quiet)}
<1>1. DrainTurn(r, quiet) = IF r.over \/ r.port.out = <<>> THEN {r}
                            ELSE UNION {Op(o) : o \in MaybeOpen(r.port, TRUE)}
  BY DEF DrainTurn, Then
<1>2. r.port \in PortsOK
  BY DEF Turns
<1>3. ASSUME r.port.out # <<>>, NEW o \in MaybeOpen(r.port, TRUE) PROVE Op(o) \subseteq Turns
  <2>1. o \in PortsOK /\ o.out # <<>>
    BY <1>2, <1>3, MaybeOpenKeeps DEF Holding
  <2>2. ModemWrite(o) \subseteq PortsOK /\ Sent(o, quiet) \subseteq PortsOK
    BY <2>1, ModemWriteKeeps, SentKeeps
  <2>3. CASE o.modem
    <3>1. \A w \in ModemWrite(o) : [port |-> w, over |-> FALSE] \in Turns
      BY <2>2 DEF Turns
    <3>2. Op(o) = {[port |-> w, over |-> FALSE] : w \in ModemWrite(o)}
      BY <2>3
    <3> QED  BY <3>1, <3>2
  <2>4. CASE ~o.modem
    <3> DEFINE W == IF r.port.rdwr = "none" THEN {o} ELSE Sent(o, quiet)
    <3>1. W \subseteq PortsOK
      BY <2>1, <2>2
    <3> HIDE DEF W
    <3>2. \A w \in W : [port |-> w, over |-> TRUE] \in Turns
      BY <3>1 DEF Turns
    <3>3. Op(o) = {[port |-> w, over |-> TRUE] : w \in W}
      BY <2>4 DEF W
    <3> QED  BY <3>2, <3>3
  <2> QED  BY <2>3, <2>4
<1> HIDE DEF Op
<1>4. CASE r.over \/ r.port.out = <<>>
  BY <1>1, <1>4
<1>5. CASE ~(r.over \/ r.port.out = <<>>)
  <2>1. DrainTurn(r, quiet) = UNION {Op(o) : o \in MaybeOpen(r.port, TRUE)}
    BY <1>1, <1>5
  <2> QED  BY <1>3, <1>5, <2>1
<1> QED  BY <1>4, <1>5

(* The turns of the loop are a run: each is one from where the last has led.*)
LEMMA TurnsAre ==
  ASSUME NEW s \in PortsOK, NEW quiet \in Pauses
  PROVE  \E f : /\ f[0] = {[port |-> s, over |-> FALSE]}
                /\ \A i \in 1..OutSize : f[i] = UNION {DrainTurn(r, quiet) : r \in f[i - 1]}
                /\ \A i \in 0..OutSize : f[i] \subseteq Turns
                /\ TurnsAfter(s, quiet, OutSize) = f[OutSize]
<1> DEFINE start == {[port |-> s, over |-> FALSE]}
           Go(R) == UNION {DrainTurn(r, quiet) : r \in R}
           SS == SUBSET Turns
           go == [R \in SS |-> Go(R)]
           step == [i \in 1..OutSize |-> go]
           eq(f) == f = [n \in 0..OutSize |-> IF n = 0 THEN start ELSE Go(f[n - 1])]
           C == CHOOSE f : eq(f)
<1>1. start \in SS /\ OutSize \in Nat
  BY ModemAssumption DEF Turns
<1> HIDE DEF start
<1>2. \A R \in SS : Go(R) \in SS
  BY DrainTurnKeeps
<1> HIDE DEF Go, SS
<1>3. step \in [1..OutSize -> [SS -> SS]]
  BY <1>2
<1>4. PICK h \in [0..OutSize -> SS] : Run(h, start, step, OutSize)
  <2> HIDE DEF step
  <2> QED  BY <1>1, <1>3, RunExists
<1>5. \A i \in 1..OutSize : h[i] = Go(h[i - 1])
  <2> SUFFICES ASSUME NEW i \in 1..OutSize PROVE h[i] = Go(h[i - 1])
    OBVIOUS
  <2>1. i - 1 \in 0..OutSize
    BY <1>1
  <2>2. h[i - 1] \in SS
    BY <2>1
  <2> QED  BY <1>4, <2>2 DEF Run
<1>6. eq(h)
  BY <1>1, <1>4, <1>5 DEF Run
<1> HIDE DEF eq
<1>7. eq(C)
  BY <1>6
<1> HIDE DEF C
<1>8. \A n \in 0..OutSize : C[n] = IF n = 0 THEN start ELSE Go(C[n - 1])
  BY <1>7, Zenon DEF eq
<1>9. \A i \in 1..OutSize : C[i] = Go(C[i - 1])
  BY <1>1, <1>8
<1>10. C[0] = start
  BY <1>1, <1>8
<1>11. \A i \in 0..OutSize : C[i] \in SS
  BY <1>1, <1>2, <1>9, <1>10, HandedOn
<1>12. TurnsAfter(s, quiet, OutSize) = C[OutSize]
  BY DEF C, eq, TurnsAfter, Go, start
<1> QED  BY <1>9, <1>10, <1>11, <1>12 DEF Go, SS, start

(* The whole loop.                                                          *)
LEMMA DrainKeeps ==
  ASSUME NEW s \in PortsOK, NEW quiet \in Pauses
  PROVE  Drain(s, quiet) \subseteq PortsOK
<1>1. TurnsAfter(s, quiet, OutSize) \subseteq Turns
  BY TurnsAre, ModemAssumption
<1> QED  BY <1>1 DEF Drain, Turns

-----------------------------------------------------------------------------
(* The loop ends.  A modem without DTR has no socket once it has been       *)
(* looked after, and without a socket there is nobody on the line.          *)
Minded(s) == s.dtr /\ s.state = VirtualModem => s.sock = "none"
Unheard(s) == s.sock = "none" => s.rdwr = "none"

(* A port that is on line leaves what is in the buffer to the socket.       *)
OnLine(s) ==
  /\ s.modem = FALSE /\ s.rdwr # "none" /\ s.sock # "none"
  /\ ~(s.dtr /\ s.state = VirtualModem)

(* What a command makes of a port: it leaves the buffer alone, or brings    *)
(* the port on line.                                                        *)
Leaves(s, o) == o.out = s.out \/ OnLine(o)

(* Closing leaves the buffer alone,                                         *)
LEMMA CloseMinds ==
  ASSUME NEW s \in PortsOK
  PROVE  /\ Close(s).out = s.out /\ Close(s).rdwr = "none" /\ Close(s).sock = "none"
         /\ Close(s).state = s.state /\ Close(s).dtr = s.dtr
  BY DEF Close, PortsOK, Port

LEMMA CloseExtendedMinds ==
  ASSUME NEW s \in PortsOK, NEW retry \in BOOLEAN
  PROVE  /\ CloseExtended(s, retry).out = s.out /\ CloseExtended(s, retry).rdwr = "none"
         /\ CloseExtended(s, retry).sock = "none"
         /\ CloseExtended(s, retry).state \in {s.state, Failed}
<1> DEFINE c == Close(s)
           f == [c EXCEPT !.state = Failed]
<1>1. c \in PortsOK /\ c.out = s.out /\ c.rdwr = "none" /\ c.sock = "none" /\ c.state = s.state
  BY CloseMinds, CloseKeeps
<1> HIDE DEF c
<1>2. f.out = s.out /\ f.rdwr = "none" /\ f.sock = "none" /\ f.state = Failed
  BY <1>1 DEF PortsOK, Port
<1> HIDE DEF f
<1>3. CloseExtended(s, retry) = c \/ CloseExtended(s, retry) = f
  BY DEF CloseExtended, c, f
<1> QED  BY <1>1, <1>2, <1>3

(* and so does opening.                                                     *)
LEMMA OpenIncomingMinds ==
  ASSUME NEW s \in PortsOK, NEW o \in OpenIncoming(s)
  PROVE  /\ o.out = s.out /\ Unheard(o) /\ (Minded(s) => Minded(o))
         /\ s.state # Outgoing => o.state # Outgoing
         /\ s.sock = "none" => Minded(o)
<1> DEFINE c == Close(s)
           l == [c EXCEPT !.sock = "listen"]
<1>1. /\ c \in PortsOK /\ c.out = s.out /\ c.rdwr = "none" /\ c.sock = "none"
      /\ c.state = s.state /\ c.dtr = s.dtr
  BY CloseMinds, CloseKeeps
<1>2. /\ OpenIncoming(s) = IF s.sock # "none" THEN {s}
                           ELSE IF s.state = Outgoing \/ (s.state = VirtualModem /\ (~AllowIncoming \/ s.dtr))
                                THEN {c} ELSE {c, l}
  BY DEF OpenIncoming
<1> HIDE DEF c
<1>3. l.out = s.out /\ l.rdwr = "none" /\ l.state = s.state /\ l.dtr = s.dtr
  BY <1>1 DEF PortsOK, Port
<1> HIDE DEF l
<1> QED  BY <1>1, <1>2, <1>3 DEF Unheard, Minded

LEMMA OpenOutgoingMinds ==
  ASSUME NEW s \in PortsOK, NEW o \in OpenOutgoing(s)
  PROVE  o.out = s.out /\ o.state \in {s.state, Failed} /\ Unheard(o)
         /\ (o.sock = "none" \/ OnLine(o) \/ (s.dtr /\ s.state = VirtualModem))
<1> DEFINE c == Close(s)
           e == [c EXCEPT !.dcd = TRUE, !.modem = FALSE, !.sock = "remote", !.rdwr = "remote"]
<1>1. c \in PortsOK /\ c.out = s.out /\ c.state = s.state /\ c.dtr = s.dtr
  BY CloseMinds, CloseKeeps
<1>2. OpenOutgoing(s) = {CloseExtended(c, FALSE), e}
  BY DEF OpenOutgoing
<1> HIDE DEF c
<1>3. /\ e.out = s.out /\ e.rdwr = "remote" /\ e.sock = "remote" /\ e.modem = FALSE
      /\ e.state = s.state /\ e.dtr = s.dtr
  <2>1. c \in Ports_
    BY <1>1, PortIs DEF PortsOK
  <2> QED  BY <1>1, <2>1 DEF Ports_
<1> HIDE DEF e
<1>4. /\ CloseExtended(c, FALSE).out = s.out /\ CloseExtended(c, FALSE).sock = "none"
      /\ CloseExtended(c, FALSE).rdwr = "none" /\ CloseExtended(c, FALSE).state \in {s.state, Failed}
  BY <1>1, CloseExtendedMinds
<1> QED  BY <1>2, <1>3, <1>4 DEF OnLine, Unheard

(* Before a turn the port is looked after, and left alone if it is on line. *)
LEMMA MaybeOpenMinds ==
  ASSUME NEW s \in PortsOK, NEW must, NEW o \in MaybeOpen(s, must)
  PROVE  o.out = s.out /\ Minded(o) /\ (OnLine(s) => o = s)
<1>1. CASE s.sock # "none"
  <2>1. o = IF s.dtr /\ s.state = VirtualModem THEN Close(s) ELSE s
    BY <1>1 DEF MaybeOpen
  <2> QED  BY <2>1, CloseMinds DEF Minded, OnLine
<1>2. CASE s.sock = "none" /\ s.state # Outgoing
  <2>1. o \in OpenIncoming(s)
    BY <1>2 DEF MaybeOpen
  <2> QED  BY <1>2, <2>1, OpenIncomingMinds DEF OnLine
<1>3. CASE s.sock = "none" /\ s.state = Outgoing
  <2>1. o \in OpenOutgoing(s) \/ o = s
    BY <1>3 DEF MaybeOpen
  <2>2. o.out = s.out /\ o.state \in {Outgoing, Failed}
    BY <1>3, <2>1, OpenOutgoingMinds
  <2> QED  BY <1>3, <2>2 DEF Minded, OnLine, VirtualModem, Outgoing, Failed
<1> QED  BY <1>1, <1>2, <1>3

(* A modem that answers a caller is on line.                                *)
LEMMA AnsweredMinds ==
  ASSUME NEW s \in PortsOK, s.rdwr # "none", s.sock # "none", Minded(s)
  PROVE  OnLine(Answered(s))
<1> DEFINE w == WithOut(s, "telnet")
           e == [w EXCEPT !.modem = FALSE, !.dcd = TRUE, !.rings = 0]
<1>1. w \in PortsOK /\ w.rdwr = s.rdwr /\ w.sock = s.sock /\ w.state = s.state
  BY WithOutKeeps DEF Tokens
<1>2. w.dtr = s.dtr
  BY DEF WithOut, PortsOK, Port
<1> HIDE DEF w
<1>3. /\ e.modem = FALSE /\ e.rdwr = w.rdwr /\ e.sock = w.sock /\ e.state = w.state
      /\ e.dtr = w.dtr
  BY <1>1 DEF PortsOK, Port
<1>4. Answered(s) = e
  BY DEF Answered, w
<1> HIDE DEF e
<1> QED  BY <1>1, <1>2, <1>3, <1>4 DEF OnLine, Minded

(* A ring leaves the buffer alone, unless it is the last and is answered.   *)
LEMMA RingMinds ==
  ASSUME NEW s \in PortsOK, s.rdwr # "none", s.sock # "none", Minded(s)
  PROVE  LET r == Ring(s, TRUE) IN Leaves(s, r) /\ Minded(r) /\ Unheard(r)
<1> DEFINE e == [s EXCEPT !.rings = @ - 1]
           r == Ring(s, TRUE)
<1>1. /\ e.out = s.out /\ e.sock = s.sock /\ e.dtr = s.dtr /\ e.state = s.state
  BY DEF PortsOK, Port
<1> HIDE DEF e
<1>2. r \in {s, e, Close(s), CloseExtended(s, FALSE), Answered(s)}
  BY DEF Ring, e
<1>3. CASE r \in {s, e}
  BY <1>1, <1>3 DEF Leaves, Minded, Unheard
<1>4. CASE r \in {Close(s), CloseExtended(s, FALSE)}
  BY <1>4, CloseMinds, CloseExtendedMinds DEF Leaves, Minded, Unheard
<1>5. CASE r = Answered(s)
  BY <1>5, AnsweredMinds DEF Leaves, Minded, Unheard, OnLine
<1> QED  BY <1>2, <1>3, <1>4, <1>5

LEMMA AcceptMinds ==
  ASSUME NEW s \in PortsOK, Minded(s), NEW a \in Accept(s)
  PROVE  Leaves(s, a) /\ Minded(a) /\ Unheard(a)
<1> DEFINE Op(o) == IF o.sock = "none" \/ o.rdwr # "none" THEN {o}
                    ELSE {o, Ring([o EXCEPT !.rdwr = "caller",
                                            !.rings = IF o.s0 > 0 THEN o.s0 ELSE 4], TRUE)}
           S == IF s.sock = "none" THEN OpenIncoming(s) ELSE {s}
<1>1. Accept(s) = UNION {Op(o) : o \in S}
  BY DEF Accept, Then
<1>2. PICK o \in S : a \in Op(o)
  BY <1>1
<1>3. o \in PortsOK /\ o.out = s.out /\ Minded(o) /\ Unheard(o)
  BY OpenIncomingKeeps, OpenIncomingMinds DEF Unheard
<1> HIDE DEF S
<1> DEFINE n == IF o.s0 > 0 THEN o.s0 ELSE 4
           r == [o EXCEPT !.rdwr = "caller", !.rings = n]
<1>4. n \in 0..4
  BY <1>3 DEF PortsOK, Port
<1>5. a = o \/ (o.sock # "none" /\ o.rdwr = "none" /\ a = Ring(r, TRUE))
  BY <1>2
<1> HIDE DEF n
<1>6. /\ r.out = o.out /\ r.rdwr = "caller" /\ r.sock = o.sock /\ r.dtr = o.dtr
      /\ r.state = o.state
  BY <1>3, <1>4 DEF PortsOK, Port
<1>7. o.sock # "none" => r \in PortsOK
  BY <1>3, <1>4 DEF PortsOK, PortOK, Port, LineOK
<1> HIDE DEF r, Op
<1>8. CASE a = o
  BY <1>3, <1>8 DEF Leaves
<1>9. CASE o.sock # "none" /\ o.rdwr = "none" /\ a = Ring(r, TRUE)
  <2>1. r \in PortsOK /\ r.rdwr # "none" /\ r.sock # "none" /\ Minded(r)
    BY <1>3, <1>6, <1>7, <1>9 DEF Minded
  <2>2. Leaves(r, a) /\ Minded(a) /\ Unheard(a)
    BY <1>9, <2>1, RingMinds
  <2> QED  BY <1>3, <1>6, <2>2 DEF Leaves
<1> QED  BY <1>5, <1>8, <1>9

LEMMA DoAnswerMinds ==
  ASSUME NEW s \in PortsOK, Minded(s), NEW a \in DoAnswer(s)
  PROVE  Leaves(s, a)
<1>1. PICK o \in Accept(s) : a = IF o.rdwr = "none" THEN CloseExtended(o, FALSE) ELSE Answered(o)
  BY DEF DoAnswer
<1>2. o \in PortsOK /\ Leaves(s, o) /\ Minded(o) /\ Unheard(o)
  BY AcceptKeeps, AcceptMinds
<1>3. CASE o.rdwr = "none"
  BY <1>1, <1>2, <1>3, CloseExtendedMinds DEF Leaves, OnLine
<1>4. CASE o.rdwr # "none"
  BY <1>1, <1>2, <1>4, AnsweredMinds DEF Leaves, Unheard
<1> QED  BY <1>3, <1>4

(* Of the commands only an answer puts something into the buffer.           *)
LEMMA ObeyMinds ==
  ASSUME NEW s \in PortsOK, Minded(s), NEW cmd, NEW a \in Obey(s, cmd)
  PROVE  Leaves(s, a)
<1> DEFINE z == [s EXCEPT !.s0 = 1]
           b == [s EXCEPT !.modem = FALSE]
<1>1. z.out = s.out /\ b.out = s.out
  BY DEF PortsOK, Port
<1>2. a \in {z, b, s, Close(s)} \/ a \in DoAnswer(s) \/ a \in OpenOutgoing(s)
  BY DEF Obey
<1> HIDE DEF z, b
<1>3. CASE a \in {z, b, s, Close(s)}
  BY <1>1, <1>3, CloseMinds DEF Leaves
<1> QED  BY <1>2, <1>3, DoAnswerMinds, OpenOutgoingMinds DEF Leaves

(* The command is taken out of the buffer once it has been obeyed.          *)
LEMMA ModemWriteMinds ==
  ASSUME NEW s \in PortsOK, s.out # <<>>, Minded(s), NEW w \in ModemWrite(s)
  PROVE  OnLine(w) \/ Len(w.out) = Len(s.out) - 1
<1> DEFINE Op(c) == Obey(c, Head(s.out))
           t(x) == [x EXCEPT !.out = Tail(@), !.flushed = FALSE]
<1>1. PICK c \in OpenIncoming(s) : \E x \in Op(c) : w = t(x)
  <2>1. Then(OpenIncoming(s), Op) = UNION {Op(c) : c \in OpenIncoming(s)}
    BY DEF Then
  <2>2. ModemWrite(s) = {t(x) : x \in UNION {Op(c) : c \in OpenIncoming(s)}}
    BY DEF ModemWrite, Then
  <2> HIDE DEF Op, t
  <2> QED  BY <2>2
<1> HIDE DEF Op
<1>2. c \in PortsOK /\ c.out = s.out /\ Minded(c)
  BY OpenIncomingKeeps, OpenIncomingMinds
<1>3. PICK x \in Op(c) : w = t(x)
  BY <1>1
<1>4. x \in PortsOK /\ Leaves(c, x)
  BY <1>2, ObeyKeeps, ObeyMinds DEF Op
<1>5. /\ t(x).out = Tail(x.out) /\ t(x).modem = x.modem /\ t(x).rdwr = x.rdwr
      /\ t(x).sock = x.sock /\ t(x).dtr = x.dtr /\ t(x).state = x.state
  BY <1>4 DEF PortsOK, Port
<1> HIDE DEF Op, t
<1>6. CASE OnLine(x)
  BY <1>3, <1>5, <1>6 DEF OnLine
<1>7. CASE x.out = s.out
  <2>1. s.out \in Seq(Tokens)
    BY DEF PortsOK, Port
  <2>2. Len(Tail(s.out)) = Len(s.out) - 1
    BY <2>1
  <2> QED  BY <1>5, <1>7, <1>3, <2>2
<1> QED  BY <1>2, <1>4, <1>6, <1>7 DEF Leaves

(* How many turns are left at most                                          *)
Left(r) == IF r.over \/ r.port.out = <<>> THEN 0
           ELSE IF OnLine(r.port) THEN 1 ELSE Len(r.port.out) + 1

(* A turn is one less.                                                      *)
LEMMA TurnShortens ==
  ASSUME NEW r \in Turns, NEW quiet \in Pauses, NEW t \in DrainTurn(r, quiet)
  PROVE  /\ Left(r) \in Nat /\ Left(t) \in Nat
         /\ Left(r) = 0 => DrainTurn(r, quiet) = {r}
         /\ Left(r) # 0 => Left(t) < Left(r)
<1>1. \A x \in Turns : x.port.out \in Seq(Tokens) /\ x.port \in PortsOK
  BY DEF Turns, PortsOK, Port
<1>2. \A x \in Turns : Left(x) \in Nat /\ (Left(x) = 0 <=> x.over \/ x.port.out = <<>>)
  BY <1>1 DEF Left
<1>3. t \in Turns
  BY DrainTurnKeeps
<1>4. Left(r) = 0 => DrainTurn(r, quiet) = {r}
  BY <1>2 DEF DrainTurn
<1>5. ASSUME Left(r) # 0 PROVE Left(t) < Left(r)
  <2>1. ~r.over /\ r.port.out # <<>>
    BY <1>2, <1>5
  <2> DEFINE Op(o) == IF o.modem THEN {[port |-> w, over |-> FALSE] : w \in ModemWrite(o)}
                      ELSE {[port |-> w, over |-> TRUE] :
                              w \in IF r.port.rdwr = "none" THEN {o} ELSE Sent(o, quiet)}
  <2>2. DrainTurn(r, quiet) = UNION {Op(o) : o \in MaybeOpen(r.port, TRUE)}
    BY <2>1 DEF DrainTurn, Then
  <2>3. PICK o \in MaybeOpen(r.port, TRUE) : t \in Op(o)
    BY <2>2
  <2>4. /\ o \in PortsOK /\ o.out = r.port.out /\ Minded(o) /\ (OnLine(r.port) => o = r.port)
    BY <1>1, MaybeOpenKeeps, MaybeOpenMinds
  <2>5. CASE ~o.modem
    <3>1. t.over = TRUE
      BY <2>3, <2>5
    <3>2. Left(t) = 0
      BY <1>2, <1>3, <3>1
    <3> QED  BY <1>2, <1>5, <3>2
  <2>6. CASE o.modem
    <3>1. PICK w \in ModemWrite(o) : t = [port |-> w, over |-> FALSE]
      BY <2>3, <2>6
    <3>2. OnLine(w) \/ Len(w.out) = Len(o.out) - 1
      BY <2>1, <2>4, ModemWriteMinds
    <3>3. ~OnLine(r.port)
      BY <2>4, <2>6 DEF OnLine
    <3>4. Left(r) = Len(o.out) + 1 /\ Len(o.out) \in Nat /\ Len(o.out) > 0
      BY <1>1, <2>1, <2>4, <3>3 DEF Left
    <3>5. t.port = w
      BY <3>1
    <3>6. CASE OnLine(w)
      <4>1. Left(t) \in {0, 1}
        BY <3>5, <3>6 DEF Left
      <4> QED  BY <3>4, <4>1
    <3>7. CASE Len(w.out) = Len(o.out) - 1
      <4>1. Left(t) \in {0, 1, Len(o.out) - 1 + 1}
        BY <3>5, <3>7 DEF Left
      <4> QED  BY <3>4, <4>1
    <3> QED  BY <3>2, <3>6, <3>7
  <2> QED  BY <2>5, <2>6
<1> QED  BY <1>2, <1>3, <1>4, <1>5

(* Emptying the output buffer comes to an end: after as many turns of the   *)
(* loop in scc_socket_empty_writebuf as the buffer is long another changes  *)
(* nothing, whatever commands are in the buffer and whatever the host's     *)
(* calls return, though an answer puts its requests into the buffer.        *)
THEOREM EmptyingEnds ==
  ASSUME NEW s \in PortsOK, NEW quiet \in Pauses, NEW r \in TurnsAfter(s, quiet, OutSize)
  PROVE  DrainTurn(r, quiet) = {r} /\ r.port \in Drain(s, quiet)
<1>1. PICK f : /\ f[0] = {[port |-> s, over |-> FALSE]}
               /\ \A i \in 1..OutSize : f[i] = UNION {DrainTurn(x, quiet) : x \in f[i - 1]}
               /\ \A i \in 0..OutSize : f[i] \subseteq Turns
               /\ TurnsAfter(s, quiet, OutSize) = f[OutSize]
  BY TurnsAre
<1>2. OutSize \in Nat /\ s.out \in Seq(Tokens) /\ Len(s.out) < OutSize
  BY ModemAssumption DEF PortsOK, PortOK, Port
<1> DEFINE K == {k \in 0..OutSize : \A x \in f[k] : Left(x) <= OutSize - k}
           g == [k \in 0..OutSize |-> k]
<1>3. g[0] \in K
  <2>1. ASSUME NEW x \in f[0] PROVE Left(x) <= OutSize - 0
    <3>1. x.port = s
      BY <1>1
    <3>2. Left(x) \in {0, 1, Len(s.out) + 1}
      BY <3>1 DEF Left
    <3> QED  BY <1>2, <3>2
  <2> QED  BY <1>2, <2>1
<1>4. ASSUME NEW i \in 1..OutSize, g[i - 1] \in K PROVE g[i] \in K
  <2>1. i - 1 \in 0..OutSize /\ i \in 0..OutSize /\ g[i - 1] = i - 1 /\ g[i] = i
    BY <1>2
  <2>2. ASSUME NEW x \in f[i] PROVE Left(x) <= OutSize - i
    <3>1. PICK y \in f[i - 1] : x \in DrainTurn(y, quiet)
      BY <1>1
    <3>2. y \in Turns /\ Left(y) <= OutSize - (i - 1)
      BY <1>1, <1>4, <2>1
    <3>3. /\ Left(y) \in Nat /\ Left(x) \in Nat /\ (Left(y) = 0 => x = y)
          /\ (Left(y) # 0 => Left(x) < Left(y))
      BY <3>1, <3>2, TurnShortens
    <3> QED  BY <1>2, <3>2, <3>3
  <2> QED  BY <2>1, <2>2
<1> HIDE DEF K
<1>5. \A k \in 0..OutSize : g[k] \in K
  <2> HIDE DEF g
  <2> QED  BY <1>2, <1>3, <1>4, HandedOn
<1>6. OutSize \in K
  BY <1>2, <1>5
<1>7. r \in Turns /\ Left(r) <= OutSize - OutSize
  BY <1>1, <1>2, <1>6 DEF K
<1>8. Left(r) = 0 /\ (r.over \/ r.port.out = <<>>)
  <2>1. r.port.out \in Seq(Tokens)
    BY <1>7 DEF Turns, PortsOK, Port
  <2> QED  BY <1>2, <1>7, <2>1 DEF Left
<1> QED  BY <1>8 DEF DrainTurn, Drain

(* The modem or the socket takes what it can.                               *)
LEMMA EmptyKeeps ==
  ASSUME NEW s \in PortsOK, NEW quiet \in Pauses
  PROVE  EmptyWritebuf(s, quiet) \subseteq PortsOK
<1> DEFINE Op(o) == Drain(Escape(o, quiet), quiet)
<1>1. EmptyWritebuf(s, quiet) = UNION {Op(o) : o \in MaybeOpen(s, FALSE)}
  BY DEF EmptyWritebuf, Then
<1>2. \A o \in MaybeOpen(s, FALSE) : Op(o) \subseteq PortsOK
  BY MaybeOpenKeeps, EscapeKeeps, DrainKeeps
<1> HIDE DEF Op
<1> QED  BY <1>1, <1>2

(* So does a device.                                                        *)
LEMMA WriteDeviceKeeps ==
  ASSUME NEW s \in PortsOK
  PROVE  WriteDevice(s) \subseteq PortsOK
  BY OutCut DEF WriteDevice

(* The flags of a port do not touch its line.                               *)
LEMMA FlagsKept ==
  ASSUME NEW s \in PortsOK, NEW b \in BOOLEAN
  PROVE  /\ [s EXCEPT !.flushed = b] \in PortsOK /\ [s EXCEPT !.flushed = b].out = s.out
         /\ [s EXCEPT !.dcd = b] \in PortsOK /\ [s EXCEPT !.dtr = b] \in PortsOK
<1> DEFINE f == [s EXCEPT !.flushed = b]
           d == [s EXCEPT !.dcd = b]
           t == [s EXCEPT !.dtr = b]
<1>1. s \in Ports_ /\ Len(s.out) < OutSize /\ LineOK(s)
  BY PortIs DEF PortsOK, PortOK
<1>2. /\ f \in Ports_ /\ f.out = s.out /\ f.state = s.state /\ f.modem = s.modem
      /\ f.rings = s.rings /\ f.rdwr = s.rdwr /\ f.sock = s.sock
  BY <1>1 DEF Ports_
<1>3. /\ d \in Ports_ /\ d.out = s.out /\ d.state = s.state /\ d.modem = s.modem
      /\ d.rings = s.rings /\ d.rdwr = s.rdwr /\ d.sock = s.sock
  BY <1>1 DEF Ports_
<1>4. /\ t \in Ports_ /\ t.out = s.out /\ t.state = s.state /\ t.modem = s.modem
      /\ t.rings = s.rings /\ t.rdwr = s.rdwr /\ t.sock = s.sock
  BY <1>1 DEF Ports_
<1> HIDE DEF f, d, t
<1>5. LineOK(f) /\ LineOK(d) /\ LineOK(t)
  BY <1>1, <1>2, <1>3, <1>4 DEF LineOK
<1>6. f \in PortsOK /\ d \in PortsOK /\ t \in PortsOK
  BY <1>1, <1>2, <1>3, <1>4, <1>5, PortIs DEF PortsOK, PortOK
<1> QED  BY <1>2, <1>6 DEF f, d, t

(* Sending, to whatever is at the other end                                 *)
LEMMA TryEmptyKeeps ==
  ASSUME NEW s \in PortsOK, NEW mode \in 0..3, NEW quiet \in Pauses
  PROVE  TryEmpty(s, mode, quiet) \subseteq PortsOK
<1> DEFINE F(o) == [o EXCEPT !.flushed = (o.state >= 0)]
           Op(o) == IF o.state < 0 \/ s.state < 0 THEN {F(o)}
                    ELSE IF s.state = RealPort THEN WriteDevice(F(o))
                    ELSE EmptyWritebuf(F(o), quiet)
<1>1. TryEmpty(s, mode, quiet) =
        IF s.flushed THEN {s} ELSE UNION {Op(o) : o \in Opened(s, mode)}
  BY DEF TryEmpty, Then
<1>2. ASSUME NEW o \in Opened(s, mode) PROVE F(o) \in PortsOK
  <2> DEFINE b == o.state >= 0
  <2>1. o \in PortsOK /\ b \in BOOLEAN
    BY OpenedKeeps
  <2> HIDE DEF b
  <2>2. [o EXCEPT !.flushed = b] \in PortsOK
    BY <2>1, FlagsKept
  <2> QED  BY <2>2 DEF b
<1> HIDE DEF F
<1>3. \A o \in Opened(s, mode) : Op(o) \subseteq PortsOK
  BY <1>2, WriteDeviceKeeps, EmptyKeeps
<1> HIDE DEF Op
<1> QED  BY <1>1, <1>3

(* Receiving, which may answer the phone                                    *)
LEMMA FillKeeps ==
  ASSUME NEW s \in PortsOK, NEW due
  PROVE  FillReadbuf(s, due) \subseteq PortsOK
<1> DEFINE R(o) == Ring(o, due /\ o.rings = s.rings)
           Op(o) == IF R(o).modem \/ R(o).rdwr = "none" THEN {R(o)}
                    ELSE {R(o), CloseExtended(R(o), TRUE)}
<1>1. FillReadbuf(s, due) = UNION {Op(o) : o \in Accept(s)}
  BY DEF FillReadbuf, Then
<1>2. \A o \in Accept(s) : R(o) \in PortsOK
  BY AcceptKeeps, RingKeeps
<1> HIDE DEF R
<1>3. \A o \in Accept(s) : Op(o) \subseteq PortsOK
  BY <1>2, CloseExtendedKeeps
<1> HIDE DEF Op
<1> QED  BY <1>1, <1>3

(* Receiving, on a port of any kind                                         *)
LEMMA TryFillKeeps ==
  ASSUME NEW s \in PortsOK, NEW mode \in 0..3, NEW due
  PROVE  TryFill(s, mode, due) \subseteq PortsOK
<1> DEFINE Op(o) == IF o.state < 0 THEN {o}
                    ELSE IF o.state = RealPort THEN ReadDevice(o) ELSE FillReadbuf(o, due)
<1>1. TryFill(s, mode, due) = UNION {Op(o) : o \in Opened(s, mode)}
  BY DEF TryFill, Then
<1>2. \A o \in PortsOK : ReadDevice(o) \subseteq PortsOK
  BY FlagsKept DEF ReadDevice
<1>3. \A o \in Opened(s, mode) : Op(o) \subseteq PortsOK
  BY <1>2, OpenedKeeps, FillKeeps
<1> HIDE DEF Op
<1> QED  BY <1>1, <1>3

-----------------------------------------------------------------------------
(* The port, its setting and its clocks                                     *)
ModemInv ==
  m \in PortsOK /\ cfg \in Modes /\ pause \in Pauses /\ ringDue \in BOOLEAN

(* An action that leaves the port in order                                  *)
LEMMA LeftLemma ==
  ASSUME ModemInv, NEW s \in PortsOK, NEW quiet \in Pauses, LeftAs(s, quiet), UNCHANGED cfg
  PROVE  ModemInv'
  BY DEF ModemInv, LeftAs

(* What is left of a pause                                                  *)
LEMMA PauseLemma ==
  ASSUME ModemInv, NEW s
  PROVE  PauseAfter(s) \in Pauses
  BY DEF ModemInv, PauseAfter, Pauses

(* The frame update: a send and a receive                                   *)
LEMMA VblStep ==
  ASSUME ModemInv, VblUpdate
  PROVE  ModemInv'
<1> DEFINE a == [m EXCEPT !.flushed = FALSE]
           g(f) == [f EXCEPT !.flushed = FALSE]
<1>1. m \in PortsOK /\ cfg \in 0..3 /\ pause \in Pauses
  BY ModemAssumption DEF ModemInv
<1>2. a \in PortsOK /\ \A f \in PortsOK : g(f) \in PortsOK
  BY <1>1, FlagsKept
<1>3. PICK e \in TryEmpty(a, cfg, pause) :
        \E f \in TryFill(e, cfg, ringDue) : LeftAs(g(f), PauseAfter(e))
  BY DEF VblUpdate
<1> PICK f \in TryFill(e, cfg, ringDue) : LeftAs(g(f), PauseAfter(e))
  BY <1>3
<1> HIDE DEF a, g
<1>4. e \in PortsOK
  BY <1>1, <1>2, TryEmptyKeeps
<1>5. f \in PortsOK
  BY <1>1, <1>4, TryFillKeeps
<1>6. g(f) \in PortsOK /\ PauseAfter(e) \in Pauses
  BY <1>2, <1>5, PauseLemma
<1> QED  BY <1>3, <1>6, LeftLemma DEF VblUpdate

(* A byte written by the guest                                              *)
LEMMA TransmitStep ==
  ASSUME ModemInv, Transmit
  PROVE  ModemInv'
<1>1. m \in PortsOK /\ cfg \in 0..3 /\ pause \in Pauses /\ Typed \subseteq Tokens
  BY ModemAssumption DEF ModemInv
<1> DEFINE w(o, t) == IF o.state < 0 THEN o ELSE WithOut(o, t)
<1>2. PICK t \in Typed, o \in Opened(m, cfg) :
        \E e \in TryEmpty(w(o, t), cfg, pause) : LeftAs(e, PauseAfter(e))
  BY DEF Transmit
<1> PICK e \in TryEmpty(w(o, t), cfg, pause) : LeftAs(e, PauseAfter(e))
  BY <1>2
<1>3. w(o, t) \in PortsOK
  BY <1>1, OpenedKeeps, WithOutKeeps
<1> HIDE DEF w
<1>4. e \in PortsOK /\ PauseAfter(e) \in Pauses
  BY <1>1, <1>3, TryEmptyKeeps, PauseLemma
<1> QED  BY <1>2, <1>4, LeftLemma DEF Transmit

(* A read by the guest                                                      *)
LEMMA PollStep ==
  ASSUME ModemInv, ReadPoll
  PROVE  ModemInv'
<1>1. m \in PortsOK /\ cfg \in 0..3 /\ pause \in Pauses
  BY ModemAssumption DEF ModemInv
<1>2. PICK f \in TryFill(m, cfg, ringDue) : LeftAs(f, pause)
  BY DEF ReadPoll
<1>3. f \in PortsOK
  BY <1>1, TryFillKeeps
<1> QED  BY <1>1, <1>2, <1>3, LeftLemma DEF ReadPoll

(* The handshake line is not part of the order.                             *)
LEMMA DtrStep ==
  ASSUME ModemInv, SetDtr
  PROVE  ModemInv'
<1> DEFINE b == ~m.dtr
<1>1. m \in PortsOK /\ b \in BOOLEAN
  BY DEF ModemInv
<1> HIDE DEF b
<1>2. [m EXCEPT !.dtr = b] \in PortsOK
  BY <1>1, FlagsKept
<1>3. m' = [m EXCEPT !.dtr = b]
  BY DEF SetDtr, b
<1> QED  BY <1>2, <1>3 DEF ModemInv, SetDtr

(* A reset empties the buffer and leaves the sockets as they are.           *)
LEMMA ResetModemStep ==
  ASSUME ModemInv, MachineReset
  PROVE  ModemInv'
<1> DEFINE z == [m EXCEPT !.out = <<>>, !.dcd = ResetDcd, !.dtr = FALSE, !.flushed = FALSE]
<1>1. m \in Ports_ /\ LineOK(m) /\ ResetDcd \in BOOLEAN /\ OutSize \in Nat \ {0}
  BY PortIs, ModemAssumption DEF ModemInv, PortsOK, PortOK
<1>2. <<>> \in Buffers
  BY DEF Buffers
<1>3. /\ z \in Ports_ /\ z.out = <<>> /\ z.state = m.state /\ z.modem = m.modem
      /\ z.rings = m.rings /\ z.rdwr = m.rdwr /\ z.sock = m.sock
  BY <1>1, <1>2 DEF Ports_
<1> HIDE DEF z
<1>4. LineOK(z) /\ Len(z.out) < OutSize
  BY <1>1, <1>3 DEF LineOK
<1>5. z \in PortsOK
  BY <1>3, <1>4, PortIs DEF PortsOK, PortOK
<1>6. m' = z
  BY DEF MachineReset, z
<1> QED  BY <1>5, <1>6 DEF ModemInv, MachineReset

(* What the settings do                                                     *)
LEMMA PortCloseKeeps ==
  ASSUME NEW s \in PortsOK
  PROVE  PortClose(s) \in PortsOK
  BY CloseKeeps, StateKept DEF PortClose

(* Every action keeps the port in order,                                    *)
LEMMA ModemStep ==
  ASSUME ModemInv, [ModemNext]_modemVars
  PROVE  ModemInv'
<1>1. CASE ChangeMode
  BY <1>1, PortCloseKeeps DEF ModemInv, ChangeMode
<1>2. CASE ChangeRemote
  BY <1>2, PortCloseKeeps DEF ModemInv, ChangeRemote
<1>3. CASE ChangeDevice
  BY <1>3, PortCloseKeeps DEF ModemInv, ChangeDevice
<1>4. CASE Wait
  <2>1. pause \in Pauses /\ ringDue \in BOOLEAN
    BY DEF ModemInv
  <2>2. CASE pause < 3 /\ pause' = pause + 1 /\ UNCHANGED ringDue
    <3>1. pause' \in Pauses
      BY <2>1, <2>2 DEF Pauses
    <3> QED  BY <1>4, <2>2, <3>1, Zenon DEF ModemInv, Wait
  <2>3. CASE ~ringDue /\ ringDue' = TRUE /\ UNCHANGED pause
    BY <1>4, <2>1, <2>3, Zenon DEF ModemInv, Wait
  <2> QED  BY <1>4, <2>2, <2>3 DEF Wait
<1>5. CASE UNCHANGED modemVars
  BY <1>5 DEF ModemInv, modemVars
<1> QED
  BY <1>1, <1>2, <1>3, <1>4, <1>5, VblStep, TransmitStep, PollStep, DtrStep, ResetModemStep
  DEF ModemNext

(* as it is when the program starts,                                        *)
LEMMA ModemStart == ModemInit => ModemInv
<1> DEFINE z == [ state |-> Closed, modem |-> FALSE, sock |-> "none", rdwr |-> "none",
                  dcd |-> ResetDcd, dtr |-> FALSE, rings |-> 0, s0 |-> 0, plus |-> 0,
                  flushed |-> FALSE, out |-> <<>> ]
<1>1. Closed \in States /\ <<>> \in Buffers /\ Len(<<>>) = 0 /\ Closed # VirtualModem
  BY DEF Closed, States, Buffers, VirtualModem
<1>2. ResetDcd \in BOOLEAN /\ 0 < OutSize
  BY ModemAssumption
<1>3. z \in Ports_ /\ Len(z.out) < OutSize /\ z.state # VirtualModem
  BY <1>1, <1>2, PortIs DEF Ports_
<1>4. z \in PortsOK
  BY <1>3, PortIs DEF PortsOK, PortOK, LineOK
<1> QED  BY <1>4 DEF ModemInit, ModemInv, Pauses

(* and so it always is.                                                     *)
LEMMA ModemInvariance == ModemSpec => []ModemInv
<1> QED  BY ModemStart, ModemStep, PTL DEF ModemSpec

(* That is what the properties ask for.                                     *)
LEMMA ModemInOrder == ModemInv => ModemTypeOK /\ OnlineHasLine
  BY DEF ModemInv, ModemTypeOK, OnlineHasLine, PortsOK, PortOK, LineOK

-----------------------------------------------------------------------------
(* The options that are kept, and what is said about them                   *)
Live == {o \in Options : o < 64}
(* The messages about options that are kept                                 *)
Said_ == Verbs \X Live

(* The messages on a line, and that none is on it twice                     *)
Said(q) == {q[i] : i \in 1..Len(q)}
Once(q) == \A i, j \in 1..Len(q) : q[i] = q[j] => i = j

(* An option that is kept has its own bit; the host asks only for such.     *)
LEMMA LiveSlots ==
  /\ Live \subseteq Slots /\ Live \subseteq Options /\ \A o \in Live : Slot(o) = o
  /\ {1, 3} \subseteq Live /\ HostWill \subseteq Live /\ HostDo \subseteq Live
<1>1. \A o \in Live : o \in 0..63
  BY TelnetAssumption DEF Live
<1>2. \A o \in 0..63 : o % 64 = o
  OBVIOUS
<1>3. {1, 3} \subseteq Live /\ HostWill \subseteq Live /\ HostDo \subseteq Live
  BY TelnetAssumption DEF Live, HostWill, HostDo
<1> QED  BY <1>1, <1>2, <1>3 DEF Slots, Slot, Live

(* There are two ends.                                                      *)
LEMMA EndsAre == \A e \in Ends : Other(e) \in Ends /\ Other(e) # e /\ Other(Other(e)) = e
                                 /\ Ends = {e, Other(e)}
  BY DEF Ends, Other

(* Taking the first message off a line on which nothing is said twice,      *)
LEMMA SaidTail ==
  ASSUME NEW T, NEW q \in Seq(T), q # <<>>, Once(q)
  PROVE  /\ Tail(q) \in Seq(T) /\ Once(Tail(q)) /\ Head(q) \in T
         /\ Said(Tail(q)) = Said(q) \ {Head(q)}
<1>1. /\ Tail(q) \in Seq(T) /\ Len(Tail(q)) = Len(q) - 1 /\ Head(q) = q[1] /\ Len(q) \in Nat \ {0}
      /\ \A i \in 1..Len(q) - 1 : Tail(q)[i] = q[i + 1]
  OBVIOUS
<1>2. Once(Tail(q))
  <2> SUFFICES ASSUME NEW i \in 1..Len(q) - 1, NEW j \in 1..Len(q) - 1, Tail(q)[i] = Tail(q)[j]
               PROVE  i = j
    BY <1>1 DEF Once
  <2>1. i + 1 \in 1..Len(q) /\ j + 1 \in 1..Len(q) /\ q[i + 1] = q[j + 1]
    BY <1>1
  <2>2. i + 1 = j + 1
    BY <2>1 DEF Once
  <2> QED  BY <2>2
<1>3. Said(Tail(q)) \subseteq Said(q) \ {Head(q)}
  <2> SUFFICES ASSUME NEW i \in 1..Len(q) - 1 PROVE Tail(q)[i] \in Said(q) /\ Tail(q)[i] # Head(q)
    BY <1>1 DEF Said
  <2>1. i + 1 \in 1..Len(q) /\ 1 \in 1..Len(q) /\ i + 1 # 1
    BY <1>1
  <2> QED  BY <1>1, <2>1 DEF Said, Once
<1>4. Said(q) \ {Head(q)} \subseteq Said(Tail(q))
  <2> SUFFICES ASSUME NEW i \in 1..Len(q), q[i] # Head(q) PROVE q[i] \in Said(Tail(q))
    BY DEF Said
  <2>1. i - 1 \in 1..Len(q) - 1 /\ i - 1 + 1 = i
    BY <1>1
  <2>2. q[i] = Tail(q)[i - 1]
    BY <1>1, <2>1
  <2> QED  BY <1>1, <2>1, <2>2 DEF Said
<1>5. Head(q) \in T
  OBVIOUS
<1> QED  BY <1>1, <1>2, <1>3, <1>4, <1>5

(* putting one on that is not there,                                        *)
LEMMA SaidAppend ==
  ASSUME NEW T, NEW q \in Seq(T), NEW x \in T, x \notin Said(q), Once(q)
  PROVE  /\ Append(q, x) \in Seq(T) /\ Once(Append(q, x))
         /\ Said(Append(q, x)) = Said(q) \cup {x}
<1> DEFINE a == Append(q, x)
<1>1. /\ a \in Seq(T) /\ Len(a) = Len(q) + 1 /\ Len(q) \in Nat
      /\ \A i \in 1..Len(q) : a[i] = q[i] /\ a[Len(q) + 1] = x
  OBVIOUS
<1>2. a[Len(q) + 1] = x
  OBVIOUS
<1> HIDE DEF a
<1>3. \A i \in 1..Len(a) : i \in 1..Len(q) \/ i = Len(q) + 1
  BY <1>1
<1>4. Once(a)
  <2> SUFFICES ASSUME NEW i \in 1..Len(a), NEW j \in 1..Len(a), a[i] = a[j] PROVE i = j
    BY DEF Once
  <2>1. \A k \in 1..Len(q) : a[k] = q[k] /\ q[k] # x
    BY <1>1 DEF Said
  <2> QED  BY <1>2, <1>3, <2>1 DEF Once
<1>5. Said(a) = Said(q) \cup {x}
  <2>1. Said(a) \subseteq Said(q) \cup {x}
    BY <1>1, <1>2, <1>3 DEF Said
  <2>2. Len(q) + 1 \in 1..Len(a) /\ \A k \in 1..Len(q) : k \in 1..Len(a)
    BY <1>1
  <2> QED  BY <1>1, <1>2, <2>1, <2>2 DEF Said
<1> QED  BY <1>1, <1>4, <1>5 DEF a

-----------------------------------------------------------------------------
(* The requests that have been put on the line, up to an option             *)
Wanted(will, do, n) ==
  {<<"WILL", o>> : o \in {p \in will : p < n}} \cup {<<"DO", o>> : o \in {p \in do : p < n}}

(* A line on which just those are, each once                                *)
Asking(will, do, n) == {q \in Seq(Said_) : Once(q) /\ Said(q) = Wanted(will, do, n)}

(* What is asked about one option                                           *)
Of(will, do, o) ==
  (IF o \in will THEN <<<<"WILL", o>>>> ELSE <<>>) \o (IF o \in do THEN <<<<"DO", o>>>> ELSE <<>>)

(* One option more                                                          *)
LEMMA AskingMore ==
  ASSUME NEW will \in SUBSET Live, NEW do \in SUBSET Live, NEW n \in Nat,
         NEW q \in Asking(will, do, n)
  PROVE  q \o Of(will, do, n) \in Asking(will, do, n + 1)
<1> DEFINE x == <<"WILL", n>>
           y == <<"DO", n>>
           a == IF n \in will THEN Append(q, x) ELSE q
           b == IF n \in do THEN Append(a, y) ELSE a
<1>1. q \in Seq(Said_) /\ Once(q) /\ Said(q) = Wanted(will, do, n)
  BY DEF Asking
<1>2. will \subseteq Int /\ do \subseteq Int
  BY TelnetAssumption DEF Live
<1>3. q \o Of(will, do, n) = b
  <2>1. CASE n \in will /\ n \in do
    <3>0. Of(will, do, n) = <<x>> \o <<y>>
      BY <2>1 DEF Of
    <3> HIDE DEF x, y
    <3>1. x \in Said_ \cup {x, y} /\ y \in Said_ \cup {x, y} /\ q \in Seq(Said_ \cup {x, y})
      BY <1>1
    <3>2. q \o (<<x>> \o <<y>>) = Append(Append(q, x), y)
      BY <3>1
    <3> QED  BY <2>1, <3>0, <3>2
  <2>2. CASE n \in will /\ n \notin do
    <3>1. Of(will, do, n) = <<x>>
      BY <2>2 DEF Of
    <3> HIDE DEF x, y
    <3> QED  BY <1>1, <2>2, <3>1
  <2>3. CASE n \notin will /\ n \in do
    <3>1. Of(will, do, n) = <<y>>
      BY <2>3 DEF Of
    <3> HIDE DEF x, y
    <3> QED  BY <1>1, <2>3, <3>1
  <2>4. CASE n \notin will /\ n \notin do
    <3>1. Of(will, do, n) = <<>>
      BY <2>4 DEF Of
    <3> HIDE DEF x, y
    <3> QED  BY <1>1, <2>4, <3>1
  <2> QED  BY <2>1, <2>2, <2>3, <2>4
<1>4. x \notin Wanted(will, do, n) /\ y \notin Wanted(will, do, n) /\ x # y
  BY <1>2 DEF Wanted
<1>5. n \in will => x \in Said_
  BY DEF Said_, Verbs
<1>6. n \in do => y \in Said_
  BY DEF Said_, Verbs
<1> \A p \in Int : p < n + 1 <=> p < n \/ p = n
  OBVIOUS
<1>7. {p \in will : p < n + 1} = {p \in will : p < n} \cup {p \in {n} : n \in will}
  BY <1>2
<1>8. {p \in do : p < n + 1} = {p \in do : p < n} \cup {p \in {n} : n \in do}
  BY <1>2
<1>9. Wanted(will, do, n + 1)
        = Wanted(will, do, n) \cup {p \in {x} : n \in will} \cup {p \in {y} : n \in do}
  BY <1>7, <1>8 DEF Wanted
<1> HIDE DEF x, y
<1>10. a \in Seq(Said_) /\ Once(a) /\ Said(a) = Wanted(will, do, n) \cup {p \in {x} : n \in will}
  BY <1>1, <1>4, <1>5, SaidAppend
<1> HIDE DEF a
<1>11. y \notin Said(a)
  BY <1>4, <1>10
<1>12. b \in Seq(Said_) /\ Once(b) /\ Said(b) = Wanted(will, do, n + 1)
  <2>1. CASE n \in do
    <3>1. /\ Append(a, y) \in Seq(Said_) /\ Once(Append(a, y))
          /\ Said(Append(a, y)) = Said(a) \cup {y}
      BY <1>6, <1>10, <1>11, <2>1, SaidAppend
    <3>2. b = Append(a, y)
      BY <2>1
    <3> HIDE DEF b
    <3>3. Said(b) = Wanted(will, do, n) \cup {p \in {x} : n \in will} \cup {p \in {y} : n \in do}
      BY <1>10, <2>1, <3>1, <3>2
    <3> QED  BY <1>9, <3>1, <3>2, <3>3
  <2>2. CASE n \notin do
    BY <1>9, <1>10, <2>2
  <2> QED  BY <2>1, <2>2
<1> QED  BY <1>3, <1>12 DEF Asking

(* All of them are, each once.                                              *)
LEMMA RequestsAsk ==
  ASSUME NEW will \in SUBSET Live, NEW do \in SUBSET Live
  PROVE  Requests(will, do) \in Asking(will, do, 64)
<1> DEFINE eq(f) == f = [n \in 0..64 |-> IF n = 0 THEN <<>> ELSE f[n - 1] \o Of(will, do, n - 1)]
           C == CHOOSE f : eq(f)
           Q == Seq(Said_)
           step == [i \in 1..64 |-> [q \in Q |-> q \o Of(will, do, i - 1)]]
           P == {p \in (0..64) \X Q : p[2] \in Asking(will, do, p[1])}
           g == [n \in 0..64 |-> <<n, C[n]>>]
<1>1. \A q \in Q : \A o \in 0..64 : q \o Of(will, do, o) \in Q
  BY DEF Of, Said_, Verbs
<1>2. <<>> \in Q /\ <<>> \in Asking(will, do, 0)
  <2>1. \A o \in Live : ~(o < 0)
    BY TelnetAssumption DEF Live
  <2>2. Wanted(will, do, 0) = {}
    BY <2>1 DEF Wanted
  <2> QED  BY <2>2 DEF Asking, Said, Once
<1> HIDE DEF Q
<1>3. step \in [1..64 -> [Q -> Q]]
  BY <1>1
<1>4. PICK h \in [0..64 -> Q] : Run(h, <<>>, step, 64)
  <2> HIDE DEF step
  <2> QED  BY <1>2, <1>3, RunExists
<1>5. \A i \in 1..64 : h[i] = h[i - 1] \o Of(will, do, i - 1)
  <2> SUFFICES ASSUME NEW i \in 1..64 PROVE h[i] = h[i - 1] \o Of(will, do, i - 1)
    OBVIOUS
  <2>1. i - 1 \in 0..64
    OBVIOUS
  <2>2. h[i - 1] \in Q
    BY <2>1
  <2> QED  BY <1>4, <2>2 DEF Run
<1>6. eq(h)
  <2>1. \A n \in 0..64 : n = 0 \/ n \in 1..64
    OBVIOUS
  <2>2. \A n \in 0..64 : h[n] = IF n = 0 THEN <<>> ELSE h[n - 1] \o Of(will, do, n - 1)
    BY <1>4, <1>5, <2>1 DEF Run
  <2> QED  BY <1>4, <2>2
<1> HIDE DEF eq
<1>7. eq(C)
  BY <1>6
<1>8. Requests(will, do) = C[64]
  BY DEF C, eq, Requests, Of
<1> HIDE DEF C
<1>9. \A n \in 0..64 : C[n] = IF n = 0 THEN <<>> ELSE C[n - 1] \o Of(will, do, n - 1)
  BY <1>7, Zenon DEF eq
<1>10. \A i \in 1..64 : g[i - 1] \in P => g[i] \in P
  <2> SUFFICES ASSUME NEW i \in 1..64, g[i - 1] \in P PROVE g[i] \in P
    OBVIOUS
  <2>1. i - 1 \in 0..64 /\ i - 1 \in Nat /\ i \in 0..64 /\ i - 1 + 1 = i /\ i # 0
    OBVIOUS
  <2>2. C[i - 1] \in Asking(will, do, i - 1)
    BY <2>1
  <2>3. C[i] = C[i - 1] \o Of(will, do, i - 1)
    BY <1>9, <2>1
  <2>4. C[i] \in Asking(will, do, i)
    BY <2>1, <2>2, <2>3, AskingMore
  <2>5. C[i] \in Q
    BY <2>4 DEF Asking, Q
  <2> QED  BY <2>1, <2>4, <2>5
<1>11. g[0] \in P
  <2>1. 0 \in 0..64
    OBVIOUS
  <2>2. C[0] = <<>>
    BY <1>9, <2>1, Zenon
  <2>3. <<0, <<>>>> \in P
    BY <1>2
  <2>4. g[0] = <<0, C[0]>>
    BY <2>1
  <2> QED  BY <2>1, <2>2, <2>3
<1> HIDE DEF g, P
<1>12. \A i \in 0..64 : g[i] \in P
  BY <1>10, <1>11, HandedOn
<1>13. g[64] \in P
  BY <1>12
<1>14. C[64] \in Asking(will, do, 64)
  BY <1>13 DEF g, P
<1> QED  BY <1>8, <1>14

-----------------------------------------------------------------------------
(* How far the ends are about one option of one of them.  The end does it,  *)
(* or has offered to (WILL); the other takes it to, or has asked it to (DO);*)
(* what is on the line to the other, and back.                              *)
PhaseOf(o, does, offers, taken, asked, there, back) ==
  LET s == o \in does
      q == o \in offers
      f == o \in taken
      r == o \in asked
      will == <<"WILL", o>> \in there
      wont == <<"WONT", o>> \in there
      do == <<"DO", o>> \in back
      dont == <<"DONT", o>> \in back
  IN  \/ ~s /\ ~q /\ ~f /\ ~r /\ ~will /\ ~wont /\ ~do /\ ~dont
      \/ s /\ ~q /\ f /\ ~r /\ ~will /\ ~wont /\ ~do /\ ~dont
      \/ ~s /\ q /\ ~f /\ ~r /\ will /\ ~wont /\ ~do /\ ~dont
      \/ ~s /\ q /\ f /\ ~r /\ ~will /\ ~wont /\ do /\ ~dont
      \/ ~s /\ q /\ ~f /\ ~r /\ ~will /\ ~wont /\ ~do /\ dont /\ o \notin Agreeable
      \/ ~s /\ ~q /\ ~f /\ r /\ ~will /\ ~wont /\ do /\ ~dont
      \/ s /\ ~q /\ ~f /\ r /\ will /\ ~wont /\ ~do /\ ~dont
      \/ ~s /\ ~q /\ ~f /\ r /\ ~will /\ wont /\ ~do /\ ~dont /\ o \notin Agreeable
      \/ ~s /\ q /\ ~f /\ r /\ will /\ ~wont /\ do /\ ~dont

(* ... with the state of the model in it                                    *)
Phase(e, o) ==
  PhaseOf(o, self[e], reqWill[e], far[Other(e)], reqDo[Other(e)],
          Said(wire[Other(e)]), Said(wire[e]))

(* An option nothing is done about is where it was.                         *)
LEMMA PhaseKept ==
  ASSUME NEW o, NEW s, NEW q, NEW f, NEW r, NEW w, NEW d,
         NEW s2, NEW q2, NEW f2, NEW r2, NEW w2, NEW d2,
         PhaseOf(o, s, q, f, r, w, d),
         o \in s2 <=> o \in s, o \in q2 <=> o \in q, o \in f2 <=> o \in f, o \in r2 <=> o \in r,
         \A v \in {"WILL", "WONT"} : <<v, o>> \in w2 <=> <<v, o>> \in w,
         \A v \in {"DO", "DONT"} : <<v, o>> \in d2 <=> <<v, o>> \in d
  PROVE  PhaseOf(o, s2, q2, f2, r2, w2, d2)
<1>1. /\ <<"WILL", o>> \in w2 <=> <<"WILL", o>> \in w
      /\ <<"WONT", o>> \in w2 <=> <<"WONT", o>> \in w
      /\ <<"DO", o>> \in d2 <=> <<"DO", o>> \in d
      /\ <<"DONT", o>> \in d2 <=> <<"DONT", o>> \in d
  OBVIOUS
<1> QED  BY <1>1, Zenon DEF PhaseOf

(* The end is asked not to do it, which it has not begun to;               *)
LEMMA AskedNotTo ==
  ASSUME NEW o, NEW s, NEW q, NEW f, NEW r, NEW w, NEW d,
         PhaseOf(o, s, q, f, r, w, d), <<"DONT", o>> \in d
  PROVE  /\ PhaseOf(o, s \ {o}, q \ {o}, f, r, w, d \ {<<"DONT", o>>})
         /\ ~(o \in s /\ o \notin q)
  BY DEF PhaseOf

(* the other is told that the end will not do it.                          *)
LEMMA ToldWont ==
  ASSUME NEW o, NEW s, NEW q, NEW f, NEW r, NEW w, NEW d,
         PhaseOf(o, s, q, f, r, w, d), <<"WONT", o>> \in w
  PROVE  /\ PhaseOf(o, s, q, f \ {o}, r \ {o}, w \ {<<"WONT", o>>}, d)
         /\ ~(o \in f /\ o \notin r) /\ o \notin Agreeable
  BY DEF PhaseOf

-----------------------------------------------------------------------------
(* What an end does with each verb                                          *)
LEMMA RepliesAre ==
  ASSUME NEW e, NEW o \in Live
  PROVE  /\ Reply(e, "DO", o) = IF o \notin self[e] /\ o \notin reqWill[e]
                                THEN <<IF o \in Agreeable THEN "WILL" ELSE "WONT", o>> ELSE <<>>
         /\ Reply(e, "WILL", o) = IF o \notin far[e] /\ o \notin reqDo[e]
                                  THEN <<IF o \in Agreeable THEN "DO" ELSE "DONT", o>> ELSE <<>>
         /\ Reply(e, "DONT", o) = IF o \in self[e] /\ o \notin reqWill[e] THEN <<"WONT", o>> ELSE <<>>
         /\ Reply(e, "WONT", o) = IF o \in far[e] /\ o \notin reqDo[e] THEN <<"DONT", o>> ELSE <<>>
<1>1. Slot(o) = o
  BY LiveSlots
<1> QED  BY <1>1 DEF Reply, NewDo, NewWill

(* What becomes of its masks                                                *)
LEMMA MasksAre ==
  ASSUME NEW e, NEW o \in Live
  PROVE  /\ SelfAfter(e, "DO", o)
               = IF o \in reqWill[e] \/ (o \notin self[e] /\ o \notin reqWill[e] /\ o \in Agreeable)
                 THEN self[e] \cup {o} ELSE self[e]
         /\ SelfAfter(e, "DONT", o) = self[e] \ {o}
         /\ SelfAfter(e, "WILL", o) = self[e] /\ SelfAfter(e, "WONT", o) = self[e]
         /\ FarAfter(e, "WILL", o)
               = IF o \in reqDo[e] \/ (o \notin far[e] /\ o \notin reqDo[e] /\ o \in Agreeable)
                 THEN far[e] \cup {o} ELSE far[e]
         /\ FarAfter(e, "WONT", o) = far[e] \ {o}
         /\ FarAfter(e, "DO", o) = far[e] /\ FarAfter(e, "DONT", o) = far[e]
<1>1. Slot(o) = o
  BY LiveSlots
<1> QED  BY <1>1 DEF SelfAfter, FarAfter, NewDo, NewWill

-----------------------------------------------------------------------------
(* The masks are of options that are kept, the lines of messages about them.*)
TelnetTyped ==
  /\ self \in [Ends -> SUBSET Live] /\ far \in [Ends -> SUBSET Live]
  /\ reqWill \in [Ends -> SUBSET Live] /\ reqDo \in [Ends -> SUBSET Live]
  /\ wire \in [Ends -> Seq(Said_)]

(* The message that is taken                                                *)
Verb(e) == Head(wire[e])[1]
Opt(e) == Head(wire[e])[2]

(* What the receipt of a message makes of the state                         *)
LEMMA RecvdIs ==
  ASSUME TelnetTyped, NEW e \in Ends, Recvd(e)
  PROVE  /\ wire[e] # <<>> /\ Head(wire[e]) = <<Verb(e), Opt(e)>>
         /\ Verb(e) \in Verbs /\ Opt(e) \in Live
         /\ self' = [self EXCEPT ![e] = SelfAfter(e, Verb(e), Opt(e))]
         /\ far' = [far EXCEPT ![e] = FarAfter(e, Verb(e), Opt(e))]
         /\ reqWill' = [reqWill EXCEPT ![e] = IF Verb(e) \in {"DO", "DONT"} THEN reqWill[e] \ {Opt(e)}
                                              ELSE reqWill[e]]
         /\ reqDo' = [reqDo EXCEPT ![e] = IF Verb(e) \in {"WILL", "WONT"} THEN reqDo[e] \ {Opt(e)}
                                          ELSE reqDo[e]]
         /\ wire' = [wire EXCEPT ![e] = Tail(wire[e]),
                                 ![Other(e)] = IF Reply(e, Verb(e), Opt(e)) = <<>> THEN wire[Other(e)]
                                               ELSE Append(wire[Other(e)], Reply(e, Verb(e), Opt(e)))]
<1>1. wire[e] # <<>> /\ wire[e] \in Seq(Said_)
  BY DEF TelnetTyped, Recvd
<1>2. Head(wire[e]) \in Said_
  BY <1>1
<1>3. Head(wire[e]) = <<Verb(e), Opt(e)>> /\ Verb(e) \in Verbs /\ Opt(e) \in Live
  BY <1>2 DEF Said_, Verb, Opt
<1>4. Slot(Opt(e)) = Opt(e)
  BY <1>3, LiveSlots
<1>5. Other(e) # e
  BY EndsAre
<1>6. /\ self' = [self EXCEPT ![e] = SelfAfter(e, Verb(e), Opt(e))]
      /\ far' = [far EXCEPT ![e] = FarAfter(e, Verb(e), Opt(e))]
  BY DEF Recvd, Verb, Opt
<1>7. /\ reqWill' = [reqWill EXCEPT ![e] = IF Verb(e) \in {"DO", "DONT"} THEN reqWill[e] \ {Opt(e)}
                                           ELSE reqWill[e]]
      /\ reqDo' = [reqDo EXCEPT ![e] = IF Verb(e) \in {"WILL", "WONT"} THEN reqDo[e] \ {Opt(e)}
                                       ELSE reqDo[e]]
  BY <1>4 DEF Recvd, Verb, Opt
<1>8. wire' = [wire EXCEPT ![e] = Tail(wire[e]),
                          ![Other(e)] = IF Reply(e, Verb(e), Opt(e)) = <<>> THEN wire[Other(e)]
                                        ELSE Append(wire[Other(e)], Reply(e, Verb(e), Opt(e)))]
  BY <1>5 DEF Recvd, Verb, Opt
<1> QED  BY <1>1, <1>3, <1>6, <1>7, <1>8

(* A reply is a message about an option that is kept.                       *)
LEMMA ReplyType ==
  ASSUME NEW e \in Ends, NEW v \in Verbs, NEW o \in Live
  PROVE  Reply(e, v, o) \in Said_ \cup {<<>>}
<1>1. v \in {"WILL", "WONT", "DO", "DONT"}
  BY DEF Verbs
<1>2. \A w \in Verbs : <<w, o>> \in Said_
  BY DEF Said_
<1>3. <<"WILL", o>> \in Said_ /\ <<"WONT", o>> \in Said_ /\ <<"DO", o>> \in Said_ /\ <<"DONT", o>> \in Said_
  BY <1>2 DEF Verbs
<1> QED  BY <1>1, <1>3, RepliesAre

(* The types are kept.                                                      *)
LEMMA TypedKept ==
  ASSUME TelnetTyped, NEW e \in Ends, Recvd(e)
  PROVE  TelnetTyped'
<1> DEFINE v == Verb(e)
           o == Opt(e)
           x == Other(e)
           r == Reply(e, v, o)
<1>1. v \in Verbs /\ o \in Live /\ x \in Ends /\ x # e /\ wire[e] # <<>>
  BY RecvdIs, EndsAre
<1>2. /\ self' = [self EXCEPT ![e] = SelfAfter(e, v, o)] /\ far' = [far EXCEPT ![e] = FarAfter(e, v, o)]
      /\ reqWill' = [reqWill EXCEPT ![e] = IF v \in {"DO", "DONT"} THEN reqWill[e] \ {o}
                                           ELSE reqWill[e]]
      /\ reqDo' = [reqDo EXCEPT ![e] = IF v \in {"WILL", "WONT"} THEN reqDo[e] \ {o} ELSE reqDo[e]]
      /\ wire' = [wire EXCEPT ![e] = Tail(wire[e]),
                              ![x] = IF r = <<>> THEN wire[x] ELSE Append(wire[x], r)]
  BY RecvdIs
<1>3. r \in Said_ \cup {<<>>}
  BY <1>1, ReplyType
<1> HIDE DEF v, o, x, r
<1>4. wire[e] \in Seq(Said_) /\ wire[x] \in Seq(Said_)
  BY <1>1 DEF TelnetTyped
<1>5. Tail(wire[e]) \in Seq(Said_) /\ (r # <<>> => Append(wire[x], r) \in Seq(Said_))
  BY <1>1, <1>3, <1>4
<1>6. wire' \in [Ends -> Seq(Said_)]
  BY <1>1, <1>2, <1>4, <1>5 DEF TelnetTyped
<1>7. self[e] \subseteq Live /\ far[e] \subseteq Live
  BY DEF TelnetTyped
<1>8. SelfAfter(e, v, o) \subseteq Live /\ FarAfter(e, v, o) \subseteq Live
  <2>1. SelfAfter(e, v, o) \in {self[e], self[e] \cup {o}, self[e] \ {o}}
    BY <1>1, MasksAre DEF Verbs
  <2>2. FarAfter(e, v, o) \in {far[e], far[e] \cup {o}, far[e] \ {o}}
    BY <1>1, MasksAre DEF Verbs
  <2> QED  BY <1>1, <1>7, <2>1, <2>2
<1>9. self' \in [Ends -> SUBSET Live] /\ far' \in [Ends -> SUBSET Live]
  BY <1>2, <1>8 DEF TelnetTyped
<1>10. reqWill' \in [Ends -> SUBSET Live] /\ reqDo' \in [Ends -> SUBSET Live]
  BY <1>2 DEF TelnetTyped
<1> QED  BY <1>6, <1>9, <1>10 DEF TelnetTyped

(* A message about option o is taken, with what it makes of the requests    *)
(* and of the lines,                                                        *)
Taking(e, x, v, o, w, d, reply, q2, r2, w2, d2) ==
  /\ PhaseOf(o, self[e], reqWill[e], far[x], reqDo[x], w, d)
  /\ PhaseOf(o, self[x], reqWill[x], far[e], reqDo[e], d, w)
  /\ <<v, o>> \in d /\ reply = Reply(e, v, o)
  /\ q2 = IF v \in {"DO", "DONT"} THEN reqWill[e] \ {o} ELSE reqWill[e]
  /\ r2 = IF v \in {"WILL", "WONT"} THEN reqDo[e] \ {o} ELSE reqDo[e]
  /\ w2 = IF reply = <<>> THEN w ELSE w \cup {reply}
  /\ d2 = d \ {<<v, o>>}

(* and where the option is then in both directions                          *)
LEMMA OptionMoves ==
  ASSUME NEW e, NEW x, NEW v \in Verbs, NEW o \in Live, NEW w, NEW d, NEW reply,
         NEW q2, NEW r2, NEW w2, NEW d2, Taking(e, x, v, o, w, d, reply, q2, r2, w2, d2)
  PROVE  /\ reply # <<>> => reply \notin w
         /\ PhaseOf(o, SelfAfter(e, v, o), q2, far[x], reqDo[x], w2, d2)
         /\ PhaseOf(o, self[x], reqWill[x], FarAfter(e, v, o), r2, d2, w2)
<1> /\ PhaseOf(o, self[e], reqWill[e], far[x], reqDo[x], w, d)
    /\ PhaseOf(o, self[x], reqWill[x], far[e], reqDo[e], d, w)
    /\ <<v, o>> \in d /\ reply = Reply(e, v, o)
    /\ q2 = IF v \in {"DO", "DONT"} THEN reqWill[e] \ {o} ELSE reqWill[e]
    /\ r2 = IF v \in {"WILL", "WONT"} THEN reqDo[e] \ {o} ELSE reqDo[e]
    /\ w2 = IF reply = <<>> THEN w ELSE w \cup {reply}
    /\ d2 = d \ {<<v, o>>}
  BY DEF Taking
<1>1. CASE v = "DO"
  <2>1. /\ reply # <<>> => reply \notin w
        /\ PhaseOf(o, SelfAfter(e, v, o), q2, far[x], reqDo[x], w2, d2)
    <3>1. reply = IF o \notin self[e] /\ o \notin reqWill[e]
                  THEN <<IF o \in Agreeable THEN "WILL" ELSE "WONT", o>> ELSE <<>>
      BY <1>1, RepliesAre
    <3>2. SelfAfter(e, v, o)
            = IF o \in reqWill[e] \/ (o \notin self[e] /\ o \notin reqWill[e] /\ o \in Agreeable)
              THEN self[e] \cup {o} ELSE self[e]
      BY <1>1, MasksAre
    <3>3. q2 = reqWill[e] \ {o} /\ d2 = d \ {<<"DO", o>>} /\ <<"DO", o>> \in d
      BY <1>1
    <3> QED  BY <3>1, <3>2, <3>3 DEF PhaseOf
  <2>2. FarAfter(e, v, o) = far[e] /\ r2 = reqDo[e] /\ (reply # <<>> => reply[1] \in {"WILL", "WONT"})
    BY <1>1, RepliesAre, MasksAre
  <2>3. /\ \A u \in {"WILL", "WONT"} : <<u, o>> \in d2 <=> <<u, o>> \in d
        /\ \A u \in {"DO", "DONT"} : <<u, o>> \in w2 <=> <<u, o>> \in w
    BY <1>1, <2>2
  <2> QED  BY <2>1, <2>2, <2>3, PhaseKept
<1>2. CASE v = "DONT"
  <2>1. PhaseOf(o, SelfAfter(e, v, o), q2, far[x], reqDo[x], w, d2) /\ reply = <<>>
    <3>1. /\ PhaseOf(o, self[e] \ {o}, reqWill[e] \ {o}, far[x], reqDo[x], w, d \ {<<"DONT", o>>})
          /\ ~(o \in self[e] /\ o \notin reqWill[e])
      BY <1>2, AskedNotTo
    <3>2. SelfAfter(e, v, o) = self[e] \ {o} /\ q2 = reqWill[e] \ {o} /\ d2 = d \ {<<"DONT", o>>}
      BY <1>2, MasksAre
    <3>3. reply = <<>>
      BY <1>2, <3>1, RepliesAre
    <3> QED  BY <3>1, <3>2, <3>3
  <2>2. FarAfter(e, v, o) = far[e] /\ r2 = reqDo[e] /\ w2 = w
    BY <1>2, <2>1, MasksAre
  <2>3. \A u \in {"WILL", "WONT"} : <<u, o>> \in d2 <=> <<u, o>> \in d
    BY <1>2
  <2>4. PhaseOf(o, self[x], reqWill[x], far[e], reqDo[e], d2, w)
    BY <2>3 DEF PhaseOf
  <2> QED  BY <2>1, <2>2, <2>4
<1>3. CASE v = "WILL"
  <2>1. /\ reply # <<>> => reply \notin w
        /\ PhaseOf(o, self[x], reqWill[x], FarAfter(e, v, o), r2, d2, w2)
    <3>1. reply = IF o \notin far[e] /\ o \notin reqDo[e]
                  THEN <<IF o \in Agreeable THEN "DO" ELSE "DONT", o>> ELSE <<>>
      BY <1>3, RepliesAre
    <3>2. FarAfter(e, v, o)
            = IF o \in reqDo[e] \/ (o \notin far[e] /\ o \notin reqDo[e] /\ o \in Agreeable)
              THEN far[e] \cup {o} ELSE far[e]
      BY <1>3, MasksAre
    <3>3. r2 = reqDo[e] \ {o} /\ d2 = d \ {<<"WILL", o>>} /\ <<"WILL", o>> \in d
      BY <1>3
    <3> QED  BY <3>1, <3>2, <3>3 DEF PhaseOf
  <2>2. SelfAfter(e, v, o) = self[e] /\ q2 = reqWill[e] /\ (reply # <<>> => reply[1] \in {"DO", "DONT"})
    BY <1>3, RepliesAre, MasksAre
  <2>3. /\ \A u \in {"DO", "DONT"} : <<u, o>> \in d2 <=> <<u, o>> \in d
        /\ \A u \in {"WILL", "WONT"} : <<u, o>> \in w2 <=> <<u, o>> \in w
    BY <1>3, <2>2
  <2> QED  BY <2>1, <2>2, <2>3, PhaseKept
<1>4. CASE v = "WONT"
  <2>1. PhaseOf(o, self[x], reqWill[x], FarAfter(e, v, o), r2, d2, w) /\ reply = <<>>
    <3>1. /\ PhaseOf(o, self[x], reqWill[x], far[e] \ {o}, reqDo[e] \ {o}, d \ {<<"WONT", o>>}, w)
          /\ ~(o \in far[e] /\ o \notin reqDo[e])
      BY <1>4, ToldWont
    <3>2. FarAfter(e, v, o) = far[e] \ {o} /\ r2 = reqDo[e] \ {o} /\ d2 = d \ {<<"WONT", o>>}
      BY <1>4, MasksAre
    <3>3. reply = <<>>
      BY <1>4, <3>1, RepliesAre
    <3> QED  BY <3>1, <3>2, <3>3
  <2>2. SelfAfter(e, v, o) = self[e] /\ q2 = reqWill[e] /\ w2 = w
    BY <1>4, <2>1, MasksAre
  <2>3. \A u \in {"DO", "DONT"} : <<u, o>> \in d2 <=> <<u, o>> \in d
    BY <1>4
  <2>4. PhaseOf(o, self[e], reqWill[e], far[x], reqDo[x], w, d2)
    BY <2>3 DEF PhaseOf
  <2> QED  BY <2>1, <2>2, <2>4
<1> QED  BY <1>1, <1>2, <1>3, <1>4 DEF Verbs

-----------------------------------------------------------------------------
(* The ends are in step about every option, both ways.                      *)
InStep ==
  /\ \A e \in Ends : Once(wire[e])
  /\ \A e \in Ends, o \in Live : Phase(e, o)

(* The step of e that has taken verb v about option o from x                *)
MovedOn(e, x, v, o, r) ==
  /\ Taking(e, x, v, o, Said(wire[x]), Said(wire[e]), r,
            reqWill'[e], reqDo'[e], Said(wire'[x]), Said(wire'[e]))
  /\ reqWill'[x] = reqWill[x] /\ reqDo'[x] = reqDo[x]
  /\ \A p \in Live : p # o =>
       /\ p \in reqWill'[e] <=> p \in reqWill[e]
       /\ p \in reqDo'[e] <=> p \in reqDo[e]
       /\ \A u \in Verbs : /\ <<u, p>> \in Said(wire'[x]) <=> <<u, p>> \in Said(wire[x])
                           /\ <<u, p>> \in Said(wire'[e]) <=> <<u, p>> \in Said(wire[e])

(* A message taken moves its option on, both ways, and no other.            *)
LEMMA InStepKept ==
  ASSUME TelnetTyped, InStep, NEW e \in Ends, Recvd(e)
  PROVE  InStep' /\ MovedOn(e, Other(e), Verb(e), Opt(e), Reply(e, Verb(e), Opt(e)))
<1> DEFINE v == Verb(e)
           o == Opt(e)
           x == Other(e)
           r == Reply(e, v, o)
           w == Said(wire[x])
           d == Said(wire[e])
           w2 == IF r = <<>> THEN w ELSE w \cup {r}
           d2 == d \ {<<v, o>>}
<1>1. v \in Verbs /\ o \in Live /\ wire[e] # <<>> /\ Head(wire[e]) = <<v, o>>
  BY RecvdIs
<1>2. /\ x \in Ends /\ x # e /\ Other(x) = e /\ Ends = {e, x} /\ Other(e) = x
  BY EndsAre
<1>3. /\ self' = [self EXCEPT ![e] = SelfAfter(e, v, o)] /\ far' = [far EXCEPT ![e] = FarAfter(e, v, o)]
      /\ reqWill' = [reqWill EXCEPT ![e] = IF v \in {"DO", "DONT"} THEN reqWill[e] \ {o}
                                           ELSE reqWill[e]]
      /\ reqDo' = [reqDo EXCEPT ![e] = IF v \in {"WILL", "WONT"} THEN reqDo[e] \ {o} ELSE reqDo[e]]
      /\ wire' = [wire EXCEPT ![e] = Tail(wire[e]),
                              ![x] = IF r = <<>> THEN wire[x] ELSE Append(wire[x], r)]
  BY RecvdIs
<1>4. r \in Said_ \cup {<<>>} /\ (r # <<>> => r[2] = o)
  BY <1>1, ReplyType, RepliesAre DEF Verbs
<1>5. r = Reply(e, v, o)
  OBVIOUS
<1> HIDE DEF v, o, x, r
<1>6. /\ wire[e] \in Seq(Said_) /\ Once(wire[e]) /\ wire[x] \in Seq(Said_) /\ Once(wire[x])
  BY <1>2 DEF TelnetTyped, InStep
<1>7. Tail(wire[e]) \in Seq(Said_) /\ Once(Tail(wire[e])) /\ Said(Tail(wire[e])) = d2
  BY <1>1, <1>6, SaidTail
<1>8. <<v, o>> \in d
  <2>1. 1 \in 1..Len(wire[e]) /\ wire[e][1] = <<v, o>>
    BY <1>1, <1>6
  <2> QED  BY <2>1 DEF Said
<1>9. /\ \A p \in Live : PhaseOf(p, self[e], reqWill[e], far[x], reqDo[x], w, d)
      /\ \A p \in Live : PhaseOf(p, self[x], reqWill[x], far[e], reqDo[e], d, w)
  BY <1>2 DEF InStep, Phase
<1> HIDE DEF w, d
<1>10. /\ self'[e] = SelfAfter(e, v, o) /\ far'[e] = FarAfter(e, v, o)
       /\ reqWill'[e] = IF v \in {"DO", "DONT"} THEN reqWill[e] \ {o} ELSE reqWill[e]
       /\ reqDo'[e] = IF v \in {"WILL", "WONT"} THEN reqDo[e] \ {o} ELSE reqDo[e]
       /\ self'[x] = self[x] /\ far'[x] = far[x] /\ reqWill'[x] = reqWill[x] /\ reqDo'[x] = reqDo[x]
       /\ wire'[e] = Tail(wire[e])
       /\ wire'[x] = IF r = <<>> THEN wire[x] ELSE Append(wire[x], r)
  BY <1>2, <1>3 DEF TelnetTyped
<1> HIDE DEF w2, d2
<1>11. /\ r # <<>> => r \notin w
       /\ PhaseOf(o, self'[e], reqWill'[e], far'[x], reqDo'[x], w2, d2)
       /\ PhaseOf(o, self'[x], reqWill'[x], far'[e], reqDo'[e], d2, w2)
       /\ Taking(e, x, v, o, w, d, r, reqWill'[e], reqDo'[e], w2, d2)
  <2>1. w2 = IF r = <<>> THEN w ELSE w \cup {r}
    BY DEF w2
  <2>2. d2 = d \ {<<v, o>>}
    BY DEF d2
  <2> DEFINE q3 == reqWill'[e]
             r3 == reqDo'[e]
  <2>3. q3 = IF v \in {"DO", "DONT"} THEN reqWill[e] \ {o} ELSE reqWill[e]
    BY <1>10
  <2>4. r3 = IF v \in {"WILL", "WONT"} THEN reqDo[e] \ {o} ELSE reqDo[e]
    BY <1>10
  <2> HIDE DEF q3, r3
  <2>5. /\ PhaseOf(o, self[e], reqWill[e], far[x], reqDo[x], w, d)
        /\ PhaseOf(o, self[x], reqWill[x], far[e], reqDo[e], d, w)
    BY <1>1, <1>9
  <2>6. /\ r # <<>> => r \notin w
        /\ PhaseOf(o, SelfAfter(e, v, o), q3, far[x], reqDo[x], w2, d2)
        /\ PhaseOf(o, self[x], reqWill[x], FarAfter(e, v, o), r3, d2, w2)
        /\ Taking(e, x, v, o, w, d, r, q3, r3, w2, d2)
    <3>1. Taking(e, x, v, o, w, d, r, q3, r3, w2, d2)
      BY <1>5, <1>8, <2>1, <2>2, <2>3, <2>4, <2>5 DEF Taking
    <3> QED  BY <1>1, <3>1, OptionMoves
  <2> QED  BY <1>10, <2>6 DEF q3, r3
<1>12. Once(wire'[x]) /\ Said(wire'[x]) = w2 /\ Once(wire'[e]) /\ Said(wire'[e]) = d2
  <2>1. CASE r = <<>>
    BY <1>6, <1>7, <1>10, <2>1 DEF w2, w
  <2>2. CASE r # <<>>
    <3>1. r \in Said_ /\ r \notin Said(wire[x])
      BY <1>4, <1>11, <2>2 DEF w
    <3>2. Once(Append(wire[x], r)) /\ Said(Append(wire[x], r)) = Said(wire[x]) \cup {r}
      BY <1>6, <3>1, SaidAppend
    <3> QED  BY <1>7, <1>10, <2>2, <3>2 DEF w2, w
  <2> QED  BY <2>1, <2>2
<1>13. ASSUME NEW p \in Live, p # o
       PROVE  /\ PhaseOf(p, self'[e], reqWill'[e], far'[x], reqDo'[x], w2, d2)
              /\ PhaseOf(p, self'[x], reqWill'[x], far'[e], reqDo'[e], d2, w2)
              /\ (p \in reqWill'[e] <=> p \in reqWill[e]) /\ (p \in reqDo'[e] <=> p \in reqDo[e])
              /\ \A u : (<<u, p>> \in w2 <=> <<u, p>> \in w) /\ (<<u, p>> \in d2 <=> <<u, p>> \in d)
  <2>1. p \in SelfAfter(e, v, o) <=> p \in self[e]
    BY <1>1, <1>13, MasksAre DEF Verbs
  <2>2. p \in FarAfter(e, v, o) <=> p \in far[e]
    BY <1>1, <1>13, MasksAre DEF Verbs
  <2>3. /\ p \in reqWill'[e] <=> p \in reqWill[e]
        /\ p \in reqDo'[e] <=> p \in reqDo[e]
    BY <1>10, <1>13
  <2>4. \A u : (<<u, p>> \in w2 <=> <<u, p>> \in w) /\ (<<u, p>> \in d2 <=> <<u, p>> \in d)
    BY <1>4, <1>13 DEF w2, d2
  <2>5. /\ PhaseOf(p, self[e], reqWill[e], far[x], reqDo[x], w, d)
        /\ PhaseOf(p, self[x], reqWill[x], far[e], reqDo[e], d, w)
    BY <1>9
  <2>6. PhaseOf(p, self'[e], reqWill'[e], far'[x], reqDo'[x], w2, d2)
    BY <1>10, <2>1, <2>3, <2>4, <2>5 DEF PhaseOf
  <2>7. PhaseOf(p, self'[x], reqWill'[x], far'[e], reqDo'[e], d2, w2)
    BY <1>10, <2>2, <2>3, <2>4, <2>5 DEF PhaseOf
  <2> QED  BY <2>3, <2>4, <2>6, <2>7
<1>14. \A p \in Live :
         /\ PhaseOf(p, self'[e], reqWill'[e], far'[x], reqDo'[x], w2, d2)
         /\ PhaseOf(p, self'[x], reqWill'[x], far'[e], reqDo'[e], d2, w2)
  BY <1>11, <1>13
<1>15. \A p \in Live : Phase(e, p)' /\ Phase(x, p)'
  BY <1>2, <1>12, <1>14 DEF Phase
<1>16. InStep'
  BY <1>2, <1>12, <1>15 DEF InStep
<1>17. MovedOn(e, x, v, o, r)
  <2>1. Taking(e, x, v, o, Said(wire[x]), Said(wire[e]), r,
               reqWill'[e], reqDo'[e], Said(wire'[x]), Said(wire'[e]))
    BY <1>11, <1>12 DEF w, d
  <2>2. \A p \in Live : p # o =>
          /\ p \in reqWill'[e] <=> p \in reqWill[e]
          /\ p \in reqDo'[e] <=> p \in reqDo[e]
          /\ \A u \in Verbs : /\ <<u, p>> \in Said(wire'[x]) <=> <<u, p>> \in Said(wire[x])
                              /\ <<u, p>> \in Said(wire'[e]) <=> <<u, p>> \in Said(wire[e])
    BY <1>12, <1>13 DEF w, d
  <2> QED  BY <1>10, <2>1, <2>2 DEF MovedOn
<1> QED  BY <1>16, <1>17 DEF v, o, x, r

-----------------------------------------------------------------------------
(* The messages that an option of an end is still good for: a request is    *)
(* one and its answer another; where both have asked, the one request is    *)
(* the answer to the other.                                                 *)
DueOf(o, offers, asked, there, back) ==
  IF (o \in offers /\ <<"WILL", o>> \in there) \/ (o \in asked /\ <<"DO", o>> \in back) THEN 2
  ELSE IF \/ <<"WILL", o>> \in there \/ <<"WONT", o>> \in there
          \/ <<"DO", o>> \in back \/ <<"DONT", o>> \in back
  THEN 1 ELSE 0

Due(e, o) == DueOf(o, reqWill[e], reqDo[Other(e)], Said(wire[Other(e)]), Said(wire[e]))

(* A message that is taken leaves fewer of its option, in its direction,    *)
(* and has nothing to do with the other direction.                          *)
LEMMA DueLess ==
  ASSUME NEW e, NEW x, NEW v \in Verbs, NEW o \in Live, NEW w, NEW d, NEW reply,
         NEW q2, NEW r2, NEW w2, NEW d2, Taking(e, x, v, o, w, d, reply, q2, r2, w2, d2)
  PROVE  LET there == DueOf(o, reqWill[e], reqDo[x], w, d)
             back  == DueOf(o, reqWill[x], reqDo[e], d, w)
             there2 == DueOf(o, q2, reqDo[x], w2, d2)
             back2  == DueOf(o, reqWill[x], r2, d2, w2)
         IN  (there2 < there /\ back2 = back) \/ (there2 = there /\ back2 < back)
<1> /\ PhaseOf(o, self[e], reqWill[e], far[x], reqDo[x], w, d)
    /\ PhaseOf(o, self[x], reqWill[x], far[e], reqDo[e], d, w)
    /\ <<v, o>> \in d /\ reply = Reply(e, v, o)
    /\ q2 = IF v \in {"DO", "DONT"} THEN reqWill[e] \ {o} ELSE reqWill[e]
    /\ r2 = IF v \in {"WILL", "WONT"} THEN reqDo[e] \ {o} ELSE reqDo[e]
    /\ w2 = IF reply = <<>> THEN w ELSE w \cup {reply}
    /\ d2 = d \ {<<v, o>>}
  BY DEF Taking
<1>1. CASE v \in {"DO", "DONT"}
  <2>1. r2 = reqDo[e] /\ q2 = reqWill[e] \ {o} /\ (reply # <<>> => reply[1] \in {"WILL", "WONT"})
    BY <1>1, RepliesAre
  <2>2. /\ \A u \in {"WILL", "WONT"} : <<u, o>> \in d2 <=> <<u, o>> \in d
        /\ \A u \in {"DO", "DONT"} : <<u, o>> \in w2 <=> <<u, o>> \in w
    BY <1>1, <2>1
  <2>3. DueOf(o, reqWill[x], r2, d2, w2) = DueOf(o, reqWill[x], reqDo[e], d, w)
    BY <2>1, <2>2 DEF DueOf
  <2>4. CASE v = "DO"
    <3>1. reply = IF o \notin self[e] /\ o \notin reqWill[e]
                  THEN <<IF o \in Agreeable THEN "WILL" ELSE "WONT", o>> ELSE <<>>
      BY <2>4, RepliesAre
    <3>2. /\ <<"DO", o>> \in d /\ <<"DO", o>> \notin d2 /\ (<<"DONT", o>> \in d2 <=> <<"DONT", o>> \in d)
      BY <2>4
    <3>3. /\ <<"WILL", o>> \in w2 <=> <<"WILL", o>> \in w \/ reply = <<"WILL", o>>
          /\ <<"WONT", o>> \in w2 <=> <<"WONT", o>> \in w \/ reply = <<"WONT", o>>
      OBVIOUS
    <3>4. o \notin q2
      BY <2>1
    <3>5. DueOf(o, q2, reqDo[x], w2, d2) < DueOf(o, reqWill[e], reqDo[x], w, d)
      BY <3>1, <3>2, <3>3, <3>4 DEF DueOf, PhaseOf
    <3> QED  BY <2>3, <3>5
  <2>5. CASE v = "DONT"
    <3>1. reply = <<>>
      BY <2>5, AskedNotTo, RepliesAre
    <3>2. w2 = w /\ <<"DONT", o>> \in d /\ <<"DONT", o>> \notin d2 /\ (<<"DO", o>> \in d2 <=> <<"DO", o>> \in d)
      BY <2>5, <3>1
    <3>3. DueOf(o, q2, reqDo[x], w2, d2) < DueOf(o, reqWill[e], reqDo[x], w, d)
      BY <2>1, <3>2 DEF DueOf, PhaseOf
    <3> QED  BY <2>3, <3>3
  <2> QED  BY <1>1, <2>4, <2>5
<1>2. CASE v \in {"WILL", "WONT"}
  <2>1. q2 = reqWill[e] /\ r2 = reqDo[e] \ {o} /\ (reply # <<>> => reply[1] \in {"DO", "DONT"})
    BY <1>2, RepliesAre
  <2>2. /\ \A u \in {"DO", "DONT"} : <<u, o>> \in d2 <=> <<u, o>> \in d
        /\ \A u \in {"WILL", "WONT"} : <<u, o>> \in w2 <=> <<u, o>> \in w
    BY <1>2, <2>1
  <2>3. DueOf(o, q2, reqDo[x], w2, d2) = DueOf(o, reqWill[e], reqDo[x], w, d)
    BY <2>1, <2>2 DEF DueOf
  <2>4. CASE v = "WILL"
    <3>1. reply = IF o \notin far[e] /\ o \notin reqDo[e]
                  THEN <<IF o \in Agreeable THEN "DO" ELSE "DONT", o>> ELSE <<>>
      BY <2>4, RepliesAre
    <3>2. /\ <<"WILL", o>> \in d /\ <<"WILL", o>> \notin d2
          /\ (<<"WONT", o>> \in d2 <=> <<"WONT", o>> \in d)
      BY <2>4
    <3>3. /\ <<"DO", o>> \in w2 <=> <<"DO", o>> \in w \/ reply = <<"DO", o>>
          /\ <<"DONT", o>> \in w2 <=> <<"DONT", o>> \in w \/ reply = <<"DONT", o>>
      OBVIOUS
    <3>4. o \notin r2
      BY <2>1
    <3>5. DueOf(o, reqWill[x], r2, d2, w2) < DueOf(o, reqWill[x], reqDo[e], d, w)
      BY <3>1, <3>2, <3>3, <3>4 DEF DueOf, PhaseOf
    <3> QED  BY <2>3, <3>5
  <2>5. CASE v = "WONT"
    <3>1. reply = <<>>
      BY <2>5, ToldWont, RepliesAre
    <3>2. /\ w2 = w /\ <<"WONT", o>> \in d /\ <<"WONT", o>> \notin d2
          /\ (<<"WILL", o>> \in d2 <=> <<"WILL", o>> \in d)
      BY <2>5, <3>1
    <3>3. DueOf(o, reqWill[x], r2, d2, w2) < DueOf(o, reqWill[x], reqDo[e], d, w)
      BY <2>1, <3>2 DEF DueOf, PhaseOf
    <3> QED  BY <2>3, <3>3
  <2> QED  BY <1>2, <2>4, <2>5
<1> QED  BY <1>1, <1>2 DEF Verbs

(* Of no option are more due, and of one fewer.                             *)
RunsDown ==
  /\ \A e \in Ends, o \in Live : Due(e, o)' <= Due(e, o)
  /\ \E e \in Ends, o \in Live : Due(e, o)' < Due(e, o)

LEMMA DueFalls ==
  ASSUME TelnetTyped, InStep, NEW e \in Ends, Recvd(e)
  PROVE  RunsDown
<1>1. PICK v \in Verbs, o \in Live, x \in Ends : x = Other(e) /\ \E r : MovedOn(e, x, v, o, r)
  BY InStepKept, RecvdIs, EndsAre
<1>2. /\ x # e /\ Other(x) = e /\ Ends = {e, x} /\ Other(e) = x
  BY <1>1, EndsAre
<1>3. PICK r : MovedOn(e, x, v, o, r)
  BY <1>1
<1>4. \A p : /\ Due(e, p) = DueOf(p, reqWill[e], reqDo[x], Said(wire[x]), Said(wire[e]))
             /\ Due(x, p) = DueOf(p, reqWill[x], reqDo[e], Said(wire[e]), Said(wire[x]))
             /\ Due(e, p)' = DueOf(p, reqWill'[e], reqDo[x], Said(wire'[x]), Said(wire'[e]))
             /\ Due(x, p)' = DueOf(p, reqWill[x], reqDo'[e], Said(wire'[e]), Said(wire'[x]))
  BY <1>2, <1>3 DEF Due, MovedOn
<1>5. \/ Due(e, o)' < Due(e, o) /\ Due(x, o)' = Due(x, o)
      \/ Due(e, o)' = Due(e, o) /\ Due(x, o)' < Due(x, o)
  <2>1. Taking(e, x, v, o, Said(wire[x]), Said(wire[e]), r,
               reqWill'[e], reqDo'[e], Said(wire'[x]), Said(wire'[e]))
    BY <1>3 DEF MovedOn
  <2> DEFINE there == DueOf(o, reqWill[e], reqDo[x], Said(wire[x]), Said(wire[e]))
             back  == DueOf(o, reqWill[x], reqDo[e], Said(wire[e]), Said(wire[x]))
             there2 == DueOf(o, reqWill'[e], reqDo[x], Said(wire'[x]), Said(wire'[e]))
             back2  == DueOf(o, reqWill[x], reqDo'[e], Said(wire'[e]), Said(wire'[x]))
  <2>2. (there2 < there /\ back2 = back) \/ (there2 = there /\ back2 < back)
    BY <2>1, DueLess
  <2>3. Due(e, o) = there /\ Due(x, o) = back /\ Due(e, o)' = there2 /\ Due(x, o)' = back2
    BY <1>4
  <2> HIDE DEF there, back, there2, back2
  <2> QED  BY <2>2, <2>3
<1>6. ASSUME NEW p \in Live, p # o PROVE Due(e, p)' = Due(e, p) /\ Due(x, p)' = Due(x, p)
  <2>1. /\ p \in reqWill'[e] <=> p \in reqWill[e]
        /\ p \in reqDo'[e] <=> p \in reqDo[e]
        /\ \A u \in Verbs : /\ <<u, p>> \in Said(wire'[x]) <=> <<u, p>> \in Said(wire[x])
                            /\ <<u, p>> \in Said(wire'[e]) <=> <<u, p>> \in Said(wire[e])
    BY <1>3, <1>6 DEF MovedOn
  <2> QED  BY <1>4, <2>1 DEF DueOf, Verbs
<1>7. \A f \in Ends, p \in Live : Due(f, p) \in Nat /\ Due(f, p)' \in Nat
  <2>1. \A p, q, a, w, d : DueOf(p, q, a, w, d) \in Nat
    BY DEF DueOf
  <2>2. \A p : Due(e, p) \in Nat /\ Due(x, p) \in Nat /\ Due(e, p)' \in Nat /\ Due(x, p)' \in Nat
    BY <1>4, <2>1
  <2> QED  BY <1>2, <2>2
<1>8. \A f \in Ends, p \in Live : Due(f, p)' <= Due(f, p)
  BY <1>1, <1>2, <1>5, <1>6, <1>7
<1>9. \E f \in Ends, p \in Live : Due(f, p)' < Due(f, p)
  BY <1>1, <1>2, <1>5
<1> QED  BY <1>8, <1>9 DEF RunsDown

-----------------------------------------------------------------------------
(* Before the call nothing is on, and nothing is said; from then on the     *)
(* host has asked for option 1 or takes the other end to do it, and so does *)
(* not begin again.                                                         *)
Resting ==
  \A e \in Ends :
    /\ self[e] = {} /\ far[e] = {} /\ reqWill[e] = {} /\ reqDo[e] = {} /\ wire[e] = <<>>

Called == 1 \in reqDo["host"] \/ 1 \in far["host"]

(* The host agrees to option 1, so that it is not undone.                   *)
LEMMA CalledKept ==
  ASSUME TelnetTyped, InStep, Called, NEW e \in Ends, Recvd(e)
  PROVE  Called'
<1> DEFINE v == Verb(e)
           o == Opt(e)
<1>1. /\ v \in Verbs /\ o \in Live /\ wire[e] # <<>> /\ Head(wire[e]) = <<v, o>>
      /\ far' = [far EXCEPT ![e] = FarAfter(e, v, o)]
      /\ reqDo' = [reqDo EXCEPT ![e] = IF v \in {"WILL", "WONT"} THEN reqDo[e] \ {o} ELSE reqDo[e]]
  BY RecvdIs
<1> HIDE DEF v, o
<1>2. <<v, o>> \in Said(wire[e])
  <2>1. 1 \in 1..Len(wire[e]) /\ wire[e][1] = <<v, o>>
    BY <1>1 DEF TelnetTyped
  <2> QED  BY <2>1 DEF Said
<1>3. CASE e = "host" /\ v = "WONT" /\ o = 1
  <2>1. PhaseOf(1, self["peer"], reqWill["peer"], far["host"], reqDo["host"],
                Said(wire["host"]), Said(wire["peer"]))
    BY <1>1, <1>3 DEF InStep, Phase, Ends, Other
  <2>2. 1 \notin Agreeable
    BY <1>2, <1>3, <2>1, ToldWont
  <2> QED  BY <2>2 DEF Agreeable
<1>4. CASE e = "host" /\ v = "WILL" /\ o = 1
  <2>1. 1 \in FarAfter(e, v, o)
    BY <1>1, <1>4, MasksAre DEF Called, Agreeable
  <2> QED  BY <1>1, <1>4, <2>1 DEF Called, TelnetTyped
<1>5. CASE e = "host" /\ ~(v \in {"WILL", "WONT"} /\ o = 1)
  <2>1. 1 \in FarAfter(e, v, o) <=> 1 \in far[e]
    BY <1>1, <1>5, MasksAre DEF Verbs
  <2> QED  BY <1>1, <1>5, <2>1 DEF Called, TelnetTyped
<1>6. CASE e # "host"
  BY <1>1, <1>6 DEF Called, TelnetTyped, Ends
<1> QED  BY <1>3, <1>4, <1>5, <1>6

(* The types, and with a modem at the host the agreement                    *)
TelnetInv ==
  /\ TelnetTyped
  /\ Answers = "modem" => InStep /\ (Resting \/ Called)

(* A call in the modem's way: what each end asks for is on the line.        *)
LEMMA CallStep ==
  ASSUME TelnetInv, Call
  PROVE  TelnetInv'
<1>1. PICK will \in SUBSET Live, do \in SUBSET Live :
        /\ reqWill' = [e \in Ends |-> IF e = "host" THEN HostWill ELSE will]
        /\ reqDo' = [e \in Ends |-> IF e = "host" THEN HostDo ELSE do]
        /\ wire' = [e \in Ends |->
             IF e = "host" THEN Requests(will, do)
             ELSE IF Answers = "modem" THEN Requests(HostWill, HostDo) ELSE <<>>]
  BY DEF Call, Live
<1>2. HostWill \subseteq Live /\ HostDo \subseteq Live
  BY LiveSlots
<1>3. /\ Requests(will, do) \in Asking(will, do, 64)
      /\ Requests(HostWill, HostDo) \in Asking(HostWill, HostDo, 64)
  BY <1>2, RequestsAsk
<1>4. self' = self /\ far' = far
  BY DEF Call
<1>5. TelnetTyped'
  BY <1>1, <1>2, <1>3, <1>4 DEF TelnetInv, TelnetTyped, Asking
<1>6. ASSUME Answers = "modem" PROVE InStep' /\ Called'
  <2>1. Resting
    BY <1>6 DEF TelnetInv, Call, Called
  <2>2. wire'["host"] \in Asking(will, do, 64) /\ wire'["peer"] \in Asking(HostWill, HostDo, 64)
    BY <1>1, <1>3, <1>6 DEF Ends
  <2>3. \A e \in Ends : Once(wire'[e])
    BY <2>2 DEF Ends, Asking
  <2>4. \A e \in Ends : Said(wire'[Other(e)]) = Wanted(reqWill'[e], reqDo'[e], 64)
    BY <1>1, <2>2 DEF Ends, Other, Asking
  <2>5. \A e \in Ends : self'[e] = {} /\ far'[e] = {}
    BY <1>4, <2>1 DEF Resting
  <2>6. \A e \in Ends : reqWill'[e] \subseteq Live /\ reqDo'[e] \subseteq Live
    BY <1>5 DEF TelnetTyped
  <2>7. \A o \in Live : o < 64
    BY DEF Live
  <2>8. ASSUME NEW e \in Ends, NEW o \in Live PROVE Phase(e, o)'
    <3> DEFINE x == Other(e)
    <3>1. x \in Ends /\ Other(x) = e
      BY EndsAre
    <3>2. /\ <<"WILL", o>> \in Said(wire'[x]) <=> o \in reqWill'[e]
          /\ <<"WONT", o>> \notin Said(wire'[x])
      BY <2>4, <2>6, <2>7 DEF Wanted
    <3>3. /\ <<"DO", o>> \in Said(wire'[e]) <=> o \in reqDo'[x]
          /\ <<"DONT", o>> \notin Said(wire'[e])
      <4>1. Said(wire'[e]) = Wanted(reqWill'[x], reqDo'[x], 64)
        BY <2>4, <3>1
      <4> QED  BY <2>6, <2>7, <3>1, <4>1 DEF Wanted
    <3>4. o \notin self'[e] /\ o \notin far'[x]
      BY <2>5, <3>1
    <3>5. PhaseOf(o, self'[e], reqWill'[e], far'[x], reqDo'[x], Said(wire'[x]), Said(wire'[e]))
      BY <3>2, <3>3, <3>4 DEF PhaseOf
    <3> QED  BY <3>5 DEF Phase
  <2>9. Called'
    BY <1>1 DEF Called, HostDo, Ends
  <2> QED  BY <2>3, <2>8, <2>9 DEF InStep
<1> QED  BY <1>5, <1>6 DEF TelnetInv

(* Every action keeps it,                                                   *)
LEMMA TelnetStep == TelnetInv /\ [TelnetNext]_telnetVars => TelnetInv'
<1> SUFFICES ASSUME TelnetInv, [TelnetNext]_telnetVars PROVE TelnetInv'
  OBVIOUS
<1>1. ASSUME NEW e \in Ends, Recvd(e) PROVE TelnetInv'
  <2>1. TelnetTyped /\ wire[e] # <<>>
    BY <1>1 DEF TelnetInv, Recvd
  <2>2. TelnetTyped'
    BY <1>1, <2>1, TypedKept
  <2>3. ASSUME Answers = "modem" PROVE InStep' /\ Called'
    <3>1. InStep /\ Called
      BY <2>1, <2>3 DEF TelnetInv, Resting
    <3> QED  BY <1>1, <2>1, <3>1, InStepKept, CalledKept
  <2> QED  BY <2>2, <2>3 DEF TelnetInv
<1>2. CASE UNCHANGED telnetVars
  BY <1>2 DEF TelnetInv, TelnetTyped, InStep, Phase, Resting, Called, telnetVars
<1> QED  BY <1>1, <1>2, CallStep DEF TelnetNext

(* it holds before the call,                                                *)
LEMMA TelnetStart == TelnetInit => TelnetInv
<1> SUFFICES ASSUME TelnetInit PROVE TelnetInv
  OBVIOUS
<1>1. Resting
  BY DEF TelnetInit, Resting
<1>2. TelnetTyped
  BY DEF TelnetInit, TelnetTyped
<1>3. \A e \in Ends : Said(wire[e]) = {} /\ Once(wire[e])
  BY <1>1 DEF Resting, Said, Once
<1>4. InStep
  <2>1. ASSUME NEW e \in Ends, NEW o \in Live PROVE Phase(e, o)
    <3>1. /\ self[e] = {} /\ reqWill[e] = {} /\ far[Other(e)] = {} /\ reqDo[Other(e)] = {}
          /\ Said(wire[Other(e)]) = {} /\ Said(wire[e]) = {}
      BY <1>1, <1>3, EndsAre DEF Resting
    <3>2. PhaseOf(o, {}, {}, {}, {}, {}, {})
      BY DEF PhaseOf
    <3> QED  BY <3>1, <3>2 DEF Phase
  <2> QED  BY <1>3, <2>1 DEF InStep
<1> QED  BY <1>1, <1>2, <1>4 DEF TelnetInv

(* and so it always holds.                                                  *)
LEMMA TelnetInvariance == TelnetSpec => []TelnetInv
<1> QED  BY TelnetStart, TelnetStep, PTL DEF TelnetSpec

(* Its types are those of the property.                                     *)
LEMMA TelnetTypes == TelnetInv => TelnetTypeOK
<1> SUFFICES ASSUME TelnetInv PROVE TelnetTypeOK
  OBVIOUS
<1>1. Live \subseteq Slots /\ Live \subseteq Options
  BY LiveSlots
<1>2. \A e \in Ends : \A i \in 1..Len(wire[e]) : wire[e][i] \in Verbs \X Options
  <2> SUFFICES ASSUME NEW e \in Ends, NEW i \in 1..Len(wire[e]) PROVE wire[e][i] \in Verbs \X Options
    OBVIOUS
  <2>1. wire[e] \in Seq(Said_)
    BY DEF TelnetInv, TelnetTyped
  <2>2. wire[e][i] \in Said_
    BY <2>1
  <2> QED  BY <1>1, <2>2 DEF Said_
<1> QED  BY <1>1, <1>2 DEF TelnetInv, TelnetTyped, TelnetTypeOK

(* When the line is silent the ends mean the same, and wait for nothing.    *)
LEMMA SilenceIsAgreement == TelnetInv => AgreedWhenQuiet
<1> SUFFICES ASSUME TelnetInv, Answers = "modem", Quiet
             PROVE  EndsAgree /\ \A e \in Ends : reqWill[e] = {} /\ reqDo[e] = {}
  BY DEF AgreedWhenQuiet
<1>1. \A e \in Ends : Said(wire[e]) = {}
  BY DEF Quiet, Said
<1>2. ASSUME NEW e \in Ends, NEW o \in Live
      PROVE  (o \in self[e] <=> o \in far[Other(e)]) /\ o \notin reqWill[e] /\ o \notin reqDo[Other(e)]
  <2>1. PhaseOf(o, self[e], reqWill[e], far[Other(e)], reqDo[Other(e)], {}, {})
    BY <1>1, EndsAre DEF TelnetInv, InStep, Phase
  <2> QED  BY <2>1 DEF PhaseOf
<1>3. \A e \in Ends : self[e] \subseteq Live /\ far[Other(e)] \subseteq Live
                      /\ reqWill[e] \subseteq Live /\ reqDo[e] \subseteq Live
  BY EndsAre DEF TelnetInv, TelnetTyped
<1>4. EndsAgree
  BY <1>2, <1>3 DEF EndsAgree
<1>5. \A e \in Ends : reqWill[e] = {} /\ reqDo[e] = {}
  BY <1>2, <1>3, EndsAre
<1> QED  BY <1>4, <1>5

-----------------------------------------------------------------------------
(* The results about the port and its line                                  *)

(* A virtual modem that is on line has a caller on its socket, and rings    *)
(* only for one, for every setting of the port, whatever the host's calls   *)
(* give, and wherever a hang-up, an escape or a change of the settings      *)
(* comes in.                                                                *)
THEOREM ModemAlwaysHasLine == ModemSpec => [](ModemTypeOK /\ OnlineHasLine)
<1> QED  BY ModemInvariance, ModemInOrder, PTL

(* Two ends that follow the same rules cannot come to rest in disagreement: *)
(* with every option either asks for, and every order in which the requests *)
(* and replies cross, when the line is silent both mean the same options    *)
(* and neither waits for an answer.                                         *)
THEOREM SilentEndsAgree == TelnetSpec => []AgreedWhenQuiet
<1> QED  BY TelnetInvariance, SilenceIsAgreement, PTL

(* The negotiation runs down: every message that an end takes leaves fewer  *)
(* to be said about its option, the answer to it counted in, and no more    *)
(* about any other.  As no option is good for more than two messages each   *)
(* way, two ends that answer each other come to an end of it.               *)
THEOREM NegotiationRunsDown ==
  ASSUME Answers = "modem"
  PROVE  TelnetSpec => [][\A e \in Ends : Recvd(e) => RunsDown]_telnetVars
<1>1. TelnetInv /\ [TelnetNext]_telnetVars => [\A e \in Ends : Recvd(e) => RunsDown]_telnetVars
  <2> SUFFICES ASSUME TelnetInv, NEW e \in Ends, Recvd(e) PROVE RunsDown
    OBVIOUS
  <2> QED  BY DueFalls DEF TelnetInv
<1> QED  BY <1>1, TelnetInvariance, PTL DEF TelnetSpec

(* The chip, the port and the line together                                 *)
THEOREM LinesAlwaysHeld == SerialSpec => []LinesHeld
<1>1. SccSpec => []SccTypeOK
  BY SccTypeCorrect
<1>2. SccTypeOK /\ ModemTypeOK /\ OnlineHasLine /\ TelnetTypeOK /\ AgreedWhenQuiet => LinesHeld
  BY DEF LinesHeld, SerialTypeOK
<1> QED
  BY <1>1, <1>2, ModemInvariance, ModemInOrder, TelnetInvariance, TelnetTypes, SilenceIsAgreement, PTL
  DEF SerialSpec
=============================================================================
