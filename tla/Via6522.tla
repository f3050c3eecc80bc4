------------------------------ MODULE Via6522 ------------------------------
(***************************************************************************)
(* What mockingboard.c promises of the timers of its two 6522s: chips that  *)
(* count every microsecond and raise a flag the moment a timer runs out.    *)
(* The comment above mock_update_timers and the cases of mock_6522_read and *)
(* mock_6522_write say how; that the code computes the timers only when     *)
(* somebody looks does not show.                                            *)
(*                                                                          *)
(* A counter is one more than what the program reads: 0 means that the      *)
(* timer interrupts now.  A timer that must not raise its flag again before *)
(* it is written has "ran".                                                 *)
(***************************************************************************)
EXTENDS Integers

CONSTANTS
  Byte,         \* the number of values of a byte
  MaxInstr      \* the microseconds an instruction may take

Word == Byte * Byte
Pairs == {0, 1}
Timers == {"t1", "t2"}

VARIABLE chip   \* g_mockingboard.pair[].mos6522

Chip ==
  [ t1 : 0..Word + 1, ran1 : BOOLEAN, latch1 : 0..Word - 1,
    t2 : 0..Word + 1, ran2 : BOOLEAN, low2 : 0..Byte - 1,
    ifr : SUBSET Timers, ier : SUBSET Timers,
    free : BOOLEAN,       \* bit 6 of ACR: timer 1 is free-running
    pulses : BOOLEAN ]    \* bit 5 of ACR: timer 2 counts pulses, of which there are none

(* The values at reset.                                                     *)
Fresh ==
  [ t1 |-> Word - Byte, ran1 |-> TRUE, latch1 |-> Word - Byte,
    t2 |-> Word - Byte, ran2 |-> TRUE, low2 |-> 0,
    ifr |-> {}, ier |-> {}, free |-> FALSE, pulses |-> FALSE ]

-----------------------------------------------------------------------------
(* One microsecond.                                                         *)
Tick1(c) ==
  LET left == IF c.t1 = 0 THEN c.latch1 + 1 ELSE c.t1 - 1 IN
  IF left # 0 THEN [c EXCEPT !.t1 = left]
  ELSE [c EXCEPT !.t1 = 0, !.ran1 = ~c.free,
                 !.ifr = IF c.ran1 THEN @ ELSE @ \cup {"t1"}]

Tick2(c) ==
  LET left == IF c.t2 = 0 THEN Word - 1 ELSE c.t2 - 1 IN
  IF c.pulses THEN c
  ELSE IF left # 0 THEN [c EXCEPT !.t2 = left]
  ELSE [c EXCEPT !.t2 = 0, !.ran2 = TRUE,
                 !.ifr = IF c.ran2 THEN @ ELSE @ \cup {"t2"}]

Ticks(c, n) ==
  LET After[i \in 0..n] == IF i = 0 THEN c ELSE Tick2(Tick1(After[i - 1])) IN After[n]

(* A timer 1 that is at 0 runs out for the whole microsecond: the flag of a *)
(* free-running one cannot be cleared, and a change of mode counts for it.  *)
Held(c) ==
  IF c.t1 # 0 THEN c
  ELSE [c EXCEPT !.ran1 = ~c.free, !.ifr = IF c.ran1 THEN @ ELSE @ \cup {"t1"}]

-----------------------------------------------------------------------------
(* What an access does to a chip c that is up to date.                      *)
Cleared(c, t) == Held([c EXCEPT !.ifr = @ \ {t}])

Access(c, d) ==
  \/ d = c
  \/ \E t \in Timers : d = Cleared(c, t)                  \* T1C-L, T2C-L read; IFR
  \/ \E v \in 0..Byte - 1 :
       \/ d = [c EXCEPT !.latch1 = (@ \div Byte) * Byte + v]
       \/ d = [c EXCEPT !.low2 = v]
       \/ LET w == v * Byte + (c.latch1 % Byte)
          IN  d = [c EXCEPT !.latch1 = w, !.t1 = w + 2, !.ran1 = FALSE, !.ifr = @ \ {"t1"}]
       \/ d = Cleared([c EXCEPT !.latch1 = v * Byte + (@ % Byte)], "t1")
       \/ d = [c EXCEPT !.t2 = v * Byte + c.low2 + 2, !.ran2 = FALSE, !.ifr = @ \ {"t2"}]
  \/ \E f, p \in BOOLEAN : d = Held([c EXCEPT !.free = f, !.pulses = p])
  \/ \E s \in SUBSET Timers : d = [c EXCEPT !.ier = s]

(* Time passes, and there is an access to one chip, or none.                *)
Instruction ==
  \E n \in 0..MaxInstr, i \in Pairs :
    /\ chip'[1 - i] = Ticks(chip[1 - i], n)
    /\ Access(Ticks(chip[i], n), chip'[i])

(* A reset leaves the counters anywhere, but lets neither timer interrupt   *)
(* before it is written.  (The program "MB-audit" finds the latch it left   *)
(* in the first chip, which is left out.)                                   *)
ViaReset ==
  \A i \in Pairs :
    /\ chip'[i] = [Fresh EXCEPT !.t1 = chip'[i].t1, !.t2 = chip'[i].t2]
    /\ chip'[i].t1 \in 0..Fresh.latch1 + 1 /\ chip'[i].t2 \in 0..Word - 1

ViaInit == chip = [i \in Pairs |-> Fresh]

ViaNext == Instruction \/ ViaReset

ViaSpec == ViaInit /\ [][ViaNext]_chip
=============================================================================
