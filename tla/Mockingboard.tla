---------------------------- MODULE Mockingboard ----------------------------
(***************************************************************************)
(* The timers of the two 6522s as mockingboard.c computes them: only when a *)
(* register is looked at or an event comes, from the microseconds that have *)
(* passed since the last time.  One event on the emulator's event list      *)
(* stands for all four timers.                                              *)
(*                                                                          *)
(* Times are relative: behind is the time since the timers were brought up  *)
(* to date, due holds the time until the event, if there is one.  A byte    *)
(* has Byte values in place of 256, so that a timer counts Byte * Byte.     *)
(***************************************************************************)
EXTENDS Integers, FiniteSetsExt

CONSTANTS
  Byte,
  MaxInstr,     \* the microseconds an instruction may take
  MaxAlone,     \* bound: how long the timers may be left alone
  MockQuirks    \* what the program may run into: "mode" and "first"

ASSUME MockAssumption ==
  /\ Byte \in Nat \ {0, 1} /\ MaxInstr \in Nat /\ MaxAlone \in Nat

VARIABLE mock   \* g_mockingboard, its two times and its bits of g_irq_pending

(* mockingboard_reset sets g_mockingboard_last_int_dusec to dfcyc, which is *)
(* in 65536ths of a microsecond, so that the next update finds a nonsensical *)
(* time that has passed.  It matters modulo the periods only.               *)
Skews == 0..Byte * Byte - 1

Word == Byte * Byte
Pairs == {0, 1}
Timers == {"t1", "t2"}

Chip ==
  [ t1 : 0..Word + 1, ran1 : BOOLEAN,   \* timer1_counter and its bit 17
    latch1 : 0..Word - 1,
    t2 : 0..Word + 1, ran2 : BOOLEAN, low2 : 0..Byte - 1,
    ifr : SUBSET Timers, ier : SUBSET Timers,
    free : BOOLEAN, pulses : BOOLEAN ]  \* bits 6 and 5 of acr

MockTypeOK ==
  /\ mock.pair \in [Pairs -> Chip] /\ mock.behind \in 0..MaxAlone
  /\ mock.adrift \subseteq Skews /\ Cardinality(mock.adrift) <= 1
  /\ mock.due \subseteq (-MaxInstr)..(Word + 1) /\ Cardinality(mock.due) <= 1
  /\ mock.irq \subseteq Pairs

-----------------------------------------------------------------------------
(* A mutant: the period is a microsecond short.                             *)
RunsOutEarly(c, d) ==
  LET period == c.latch1 + 1
      rest   == (d - c.t1) % period
  IN  [c EXCEPT !.t1 = IF rest = 0 THEN 0 ELSE period - rest, !.ran1 = ~c.free,
                !.ifr = IF c.ran1 THEN @ ELSE @ \cup {"t1"}]

(* mock_update_timers, one chip: d microseconds at once.  A timer 1 that    *)
(* runs out is loaded from the latch again, perhaps several times.          *)
RunsOut(c, d) ==
  LET period == c.latch1 + 2
      over   == d - c.t1
      rest   == over % period
  IN  [c EXCEPT !.t1 = IF rest = 0 THEN 0 ELSE period - rest, !.ran1 = ~c.free,
                !.ifr = IF c.ran1 THEN @ ELSE @ \cup {"t1"}]

Elapsed1(c, d) == IF d < c.t1 THEN [c EXCEPT !.t1 = @ - d] ELSE RunsOut(c, d)

Elapsed2(c, d) ==
  LET n == IF c.pulses THEN 0 ELSE d IN
  IF n < c.t2 THEN [c EXCEPT !.t2 = @ - n]
  ELSE [c EXCEPT !.t2 = (@ - n) % Word, !.ran2 = TRUE,
                 !.ifr = IF c.ran2 THEN @ ELSE @ \cup {"t2"}]

Elapsed(c, d) == Elapsed2(Elapsed1(c, d), d)

(* When the chip will interrupt, as far as that is foreseen: for a timer    *)
(* that has not run out just now, is enabled, and whose flag is clear.      *)
Foreseen(c, d) ==
  LET e == Elapsed(c, d)
      n == IF c.pulses THEN 0 ELSE d
  IN  (IF d < c.t1 /\ "t1" \in c.ier \ c.ifr THEN {e.t1} ELSE {})
      \cup (IF n < c.t2 /\ "t2" \in c.ier \ c.ifr THEN {e.t2} ELSE {})

(* mock_6522_new_ifr                                                        *)
NewIfr(b, i, flags) ==
  [b EXCEPT !.pair[i].ifr = flags,
            !.irq = IF flags \cap b.pair[i].ier = {} THEN @ \ {i} ELSE @ \cup {i}]

(* ddiff                                                                    *)
Since(b) == IF b.adrift = {} THEN b.behind ELSE b.behind + Max(b.adrift)

UpdateOne(b, i) ==
  LET c == b.pair[i]
      e == Elapsed(c, Since(b))
      n == [b EXCEPT !.pair[i] = e]
  IN  IF e.ifr = c.ifr THEN n ELSE NewIfr(n, i, e.ifr)

(* A mutant: an event that is there stays.                                  *)
NextDueKept(b) ==
  LET times == UNION {Foreseen(b.pair[i], Since(b)) : i \in Pairs} IN
  IF times = {} \/ b.due # {} THEN b.due ELSE {Min(times)}

(* An event later than what is foreseen now is replaced; an earlier one     *)
(* stays, even if it is for nothing.                                        *)
NextDue(b) ==
  LET times == UNION {Foreseen(b.pair[i], Since(b)) : i \in Pairs} IN
  IF times = {} THEN b.due ELSE {Min(times \cup b.due)}

(* mock_update_timers(1, dfcyc); with 0 it does nothing in the microsecond  *)
(* of the last update, nor after a reset.                                   *)
Update(b) ==
  [UpdateOne(UpdateOne(b, 0), 1) EXCEPT !.due = NextDue(b), !.behind = 0, !.adrift = {}]

UpdateIfLater(b) == IF b.behind = 0 \/ b.adrift # {} THEN b ELSE Update(b)

-----------------------------------------------------------------------------
(* mock_6522_read and mock_6522_write                                       *)
ClearFlag(b, i, ts) ==
  LET u == Update(b) IN Update(NewIfr(u, i, u.pair[i].ifr \ ts))

WriteLatchLow(b, i, v) ==
  [UpdateIfLater(b) EXCEPT !.pair[i].latch1 = (@ \div Byte) * Byte + v]

WriteT1High(b, i, v) ==
  LET u == Update(b)
      w == v * Byte + (u.pair[i].latch1 % Byte)
      c == [u EXCEPT !.pair[i] = [@ EXCEPT !.latch1 = w, !.t1 = w + 2, !.ran1 = FALSE]]
  IN  Update(NewIfr(c, i, c.pair[i].ifr \ {"t1"}))

WriteLatchHigh(b, i, v) ==
  LET u == Update(b)
      c == [u EXCEPT !.pair[i].latch1 = v * Byte + (@ % Byte)]
  IN  Update(NewIfr(c, i, c.pair[i].ifr \ {"t1"}))

WriteT2Low(b, i, v) == [b EXCEPT !.pair[i].low2 = v]

WriteT2High(b, i, v) ==
  LET u == Update(b)
      c == [u EXCEPT !.pair[i] = [@ EXCEPT !.t2 = v * Byte + u.pair[i].low2 + 2, !.ran2 = FALSE]]
  IN  Update(NewIfr(c, i, c.pair[i].ifr \ {"t2"}))

WriteAcr(b, i, f, p) ==
  Update([UpdateIfLater(b) EXCEPT !.pair[i] = [@ EXCEPT !.free = f, !.pulses = p]])

WriteIer(b, i, s) ==
  LET u == [Update(b) EXCEPT !.pair[i].ier = s] IN Update(NewIfr(u, i, u.pair[i].ifr))

-----------------------------------------------------------------------------
FreshChip ==
  [ t1 |-> Word - Byte, ran1 |-> TRUE, latch1 |-> Word - Byte,
    t2 |-> Word - Byte, ran2 |-> TRUE, low2 |-> 0,
    ifr |-> {}, ier |-> {}, free |-> FALSE, pulses |-> FALSE ]

MockInit ==
  mock = [pair |-> [i \in Pairs |-> FreshChip], behind |-> 0, adrift |-> {},
          due |-> {}, irq |-> {}]

(* An instruction: n microseconds pass, then perhaps an access.  The events *)
(* that are due are handled before the next one.                            *)
MockPassed(n) == [mock EXCEPT !.behind = @ + n, !.due = {t - n : t \in @}]

(* Quirk "mode": a timer 1 that ran out once, made free-running since, gets *)
(* to 0 again.  That is not foreseen, so that its interrupt would be late.  *)
Forgotten(c, d) == c.free /\ c.ran1 /\ d >= c.t1

MockRuns(n) ==
  /\ \A t \in mock.due : t > 0
  /\ mock.behind + n <= MaxAlone
  /\ "mode" \in MockQuirks \/ \A i \in Pairs : ~Forgotten(mock.pair[i], Since(mock) + n)

MockIdle(n) == MockRuns(n) /\ n > 0 /\ mock' = MockPassed(n)

(* Quirk "first": after a reset, a latch or the mode is written before the  *)
(* timers have been brought up to date, so that it counts for the past too. *)
First == "first" \in MockQuirks \/ mock.adrift = {}

(* The program uses the timers ts of chip i.                                *)
Latches(n, i, ts) ==
  /\ MockRuns(n) /\ First
  /\ \E v \in 0..Byte - 1 :
       \/ "t1" \in ts /\ mock' \in {WriteLatchLow(MockPassed(n), i, v), WriteLatchHigh(MockPassed(n), i, v)}
       \/ "t2" \in ts /\ mock' = WriteT2Low(MockPassed(n), i, v)

Loads(n, i, ts) ==
  /\ MockRuns(n)
  /\ \E v \in 0..Byte - 1 :
       \/ "t1" \in ts /\ mock' = WriteT1High(MockPassed(n), i, v)
       \/ "t2" \in ts /\ mock' = WriteT2High(MockPassed(n), i, v)

(* Reads of T1C-L and T2C-L, writes of IFR; reads of T1C-H, T2C-H and IFR.  *)
Reads(n, i, ts) ==
  /\ MockRuns(n)
  /\ \/ \E t \in ts : mock' = ClearFlag(MockPassed(n), i, {t})
     \/ mock' = Update(MockPassed(n))

Modes(n, i, ts) ==
  /\ MockRuns(n) /\ First
  /\ \E f, p \in BOOLEAN :
       /\ (f => "t1" \in ts) /\ (p => "t2" \in ts)
       /\ mock' = WriteAcr(MockPassed(n), i, f, p)
       /\ LET c == Elapsed(mock.pair[i], Since(mock) + n) IN
          "mode" \in MockQuirks \/ ~Forgotten([c EXCEPT !.free = f], 0)

Enables(n, i, ts) == MockRuns(n) /\ \E s \in SUBSET ts : mock' = WriteIer(MockPassed(n), i, s)

(* mockingboard_event                                                       *)
MockEvent ==
  /\ \E t \in mock.due : t <= 0
  /\ mock' = Update([mock EXCEPT !.due = {}])

(* mockingboard_reset; do_reset clears g_irq_pending.                       *)
MockReset ==
  \E t \in Skews :
    mock' = [pair |-> [i \in Pairs |-> FreshChip], behind |-> 0, adrift |-> {t},
             due |-> {}, irq |-> {}]

(* Programs that use the timers used[i] of chip i, and set latches and      *)
(* modes if tuned, in instructions of ns microseconds.                      *)
MockSteps(used, tuned, ns) ==
  \/ \E n \in ns : MockIdle(n)
  \/ \E n \in ns, i \in Pairs :
       \/ Loads(n, i, used[i]) \/ Reads(n, i, used[i]) \/ Enables(n, i, used[i])
       \/ tuned /\ (Latches(n, i, used[i]) \/ Modes(n, i, used[i]))
  \/ MockEvent \/ MockReset

MockNext == MockSteps([i \in Pairs |-> Timers], TRUE, 0..MaxInstr)

MockSpec == MockInit /\ [][MockNext]_mock

-----------------------------------------------------------------------------
(* The chips as somebody who looks now finds them.                          *)
Now == [i \in Pairs |-> Elapsed(mock.pair[i], Since(mock))]

Chips == INSTANCE Via6522 WITH chip <- Now

(* Looking seldom changes nothing: however the time between two accesses is *)
(* divided into updates, flags, counters and latches are those of chips     *)
(* that count every microsecond.                                            *)
TimersExact == Chips!ViaSpec

(* No timer interrupt is late: a chip whose flag is up and enabled requests *)
(* one, unless the event that will is due in this very instruction.         *)
InterruptsOnTime ==
  /\ MockTypeOK
  /\ \A i \in Pairs :
       LET wants == Now[i].ifr \cap Now[i].ier # {} IN
       /\ i \in mock.irq => wants
       /\ wants => i \in mock.irq \/ \E t \in mock.due : t <= 0
=============================================================================
