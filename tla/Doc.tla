-------------------------------- MODULE Doc --------------------------------
(***************************************************************************)
(* The oscillators of the Ensoniq DOC as doc.c plays them: only when a      *)
(* register is touched, an event comes or the frame ends, from the samples  *)
(* that have passed since the last time (sound_play).  An oscillator that   *)
(* reaches the end of its wave may stop, start again or start its partner,  *)
(* in the past, and may interrupt; $E0 hands the interrupts out in order.   *)
(*                                                                          *)
(* Time is in samples and relative to now, or within sound_play to the last *)
(* time.  A byte of a wave is a sample.                                     *)
(***************************************************************************)
EXTENDS Integers, FiniteSets, FiniteSetsExt

CONSTANTS
  NumOscs,      \* the oscillators there are (32), an even number
  MaxBehind,    \* bound: samples between two calls of sound_play
  MaxSize,      \* bound: samples in a wave
  Quirks        \* what the program may run into; see the guards that name one

ASSUME DocAssumption ==
  /\ NumOscs \in Nat \ {0} /\ NumOscs % 2 = 0
  /\ MaxBehind \in Nat /\ MaxSize \in Nat \ {0}

VARIABLE doc    \* g_doc_regs and the DOC's other registers, as a record

Oscs == 0..NumOscs - 1
NoOsc == NumOscs            \* $E0 with bit 7: none interrupts
Partner(o) == IF o % 2 = 0 THEN o + 1 ELSE o - 1
DocModes == {"free", "shot", "sync", "swap"}

(* The samples of a wave, where its first zero byte is (at size: none), and *)
(* whether the volume is 0.                                                 *)
Waves == {[size |-> s, zero |-> z] : s \in 1..MaxSize, z \in 0..MaxSize}

Osc ==
  [ halt : BOOLEAN, mode : DocModes, ie : BOOLEAN,  \* ctl, bits 0, 1-2 and 3
    running : BOOLEAN,
    wave : Waves, silent : BOOLEAN,
    pos : 0..MaxSize - 1,       \* cur_acc
    left : 0..MaxSize + 1,      \* samps_left
    at : Int,                   \* complete_dsamp, of use within sound_play
    event : SUBSET Int,         \* when its event is due, if there is one
    rank : 0..NumOscs ]         \* has_irq_pending

DocTypeOK ==
  /\ \A o \in Oscs : doc.osc[o] \in Osc /\ Cardinality(doc.osc[o].event) <= 1
  /\ doc.num \in 1..NumOscs     \* g_doc_num_osc_en
  /\ doc.e0 \in 0..NumOscs      \* doc_reg_e0
  /\ doc.count \in 0..NumOscs   \* g_num_osc_interrupting
  /\ doc.irq \in BOOLEAN        \* its bit of g_irq_pending
  /\ doc.behind \in 0..MaxBehind
  /\ doc.halted \in BOOLEAN     \* has a halt_printf stopped the emulator?

HaltIf(d, complaint) == IF complaint THEN [d EXCEPT !.halted = TRUE] ELSE d

-----------------------------------------------------------------------------
(* The interrupts *)

AddSoundIrq(d, o) ==
  [d EXCEPT !.count = @ + 1, !.osc[o].rank = d.count + 1, !.irq = TRUE,
            !.e0 = IF d.count = 0 THEN o ELSE @]

(* A mutant: nobody moves up.                                               *)
LeavesGap(d, o) ==
  LET left == [d EXCEPT !.osc[o].rank = 0]
      next == {i \in 0..d.num - 1 : left.osc[i].rank = d.osc[o].rank + 1}
  IN  [left EXCEPT !.count = @ - 1, !.irq = @ /\ d.count > 1,
                   !.e0 = IF d.osc[o].rank # 1 THEN @
                          ELSE IF next = {} THEN NoOsc ELSE Max(next)]

(* doc_remove_sound_irq: those behind it in the queue move up.  Only the    *)
(* oscillators that are enabled are looked through.                         *)
Leaves(d, o) ==
  LET r == d.osc[o].rank
      moved == [d EXCEPT !.osc = [i \in Oscs |->
                 [d.osc[i] EXCEPT !.rank = IF i = o THEN 0
                                       ELSE IF i < d.num /\ @ > r THEN @ - 1 ELSE @]]]
      firsts == {i \in 0..d.num - 1 : moved.osc[i].rank = 1}
  IN  [moved EXCEPT !.count = @ - 1, !.irq = @ /\ d.count > 1,
                    !.e0 = IF r # 1 THEN @ ELSE IF firsts = {} THEN NoOsc ELSE Max(firsts)]

RemoveSoundIrq(d, o, must) ==
  LET d1 == IF d.osc[o].rank = 0 THEN HaltIf(d, must) ELSE Leaves(d, o)
  IN  HaltIf(d1, d1.e0 = NoOsc /\ \E i \in Oscs : d1.osc[i].rank > 0)

-----------------------------------------------------------------------------
(* The end of a wave *)

(* Where the sound stops, if it is played from pos on.                      *)
MeetsZero(c) == c.pos <= c.wave.zero /\ c.wave.zero < c.wave.size
Stop(c) == IF MeetsZero(c) THEN c.wave.zero + 1 ELSE c.wave.size

(* doc_wave_end_estimate.  Zero bytes and events matter only if the         *)
(* oscillator or its partner interrupts.                                    *)
Estimated(c, foreseen, eff, now) ==
  LET left == (IF foreseen /\ MeetsZero(c) THEN c.wave.zero ELSE c.wave.size) - c.pos + 1
  IN  [c EXCEPT !.left = left, !.event = IF foreseen THEN {eff + left - now} ELSE {}]

WaveEndEstimate(d, o, eff, now) ==
  [d EXCEPT !.osc[o] = Estimated(@, @.ie \/ d.osc[Partner(o)].ie, eff, now)]

(* doc_start_sound.  The even one of a pair in sync mode takes the odd one  *)
(* along, if that is stopped.                                               *)
StartOne(d, o, eff, now) ==
  IF o >= d.num THEN [d EXCEPT !.osc[o].halt = TRUE]
  ELSE WaveEndEstimate([HaltIf(d, d.osc[o].running)
                          EXCEPT !.osc[o].running = TRUE, !.osc[o].at = eff], o, eff, now)

StartSound(d, o, eff, now) ==
  LET p == Partner(o)
      along == /\ o < d.num /\ o % 2 = 0 /\ d.osc[o].mode = "sync"
               /\ d.osc[p].halt /\ d.osc[p].mode = "sync"
      d1 == IF along THEN StartOne([d EXCEPT !.osc[p].halt = FALSE], p, eff, now) ELSE d
  IN  StartOne(d1, o, eff, now)

(* A mutant: the partner is started even if it plays.                       *)
EndsTwice(d, o, canRepeat, eff, now) ==
  LET c == d.osc[o]
      p == Partner(o)
      d1 == IF c.ie /\ c.rank = 0 THEN AddSoundIrq(d, o) ELSE d
      d2 == [HaltIf(d1, ~c.running) EXCEPT !.osc[o].running = FALSE]
      d3 == [d2 EXCEPT !.osc[o].halt = TRUE]
  IN  IF c.mode = "free" /\ canRepeat THEN StartSound(d2, o, eff, now)
      ELSE IF "swap" \in {c.mode, d.osc[p].mode} /\ ~(c.mode = "shot" /\ ~canRepeat)
           THEN StartSound([d3 EXCEPT !.osc[p].halt = FALSE], p, eff, now)
           ELSE d3

(* doc_sound_end                                                            *)
Ends(d, o, canRepeat, eff, now) ==
  LET c == d.osc[o]
      p == Partner(o)
      d1 == IF c.ie /\ c.rank = 0 THEN AddSoundIrq(d, o) ELSE d
      d2 == [HaltIf(d1, ~c.running) EXCEPT !.osc[o].running = FALSE]
      d3 == [d2 EXCEPT !.osc[o].halt = TRUE]
      swap == "swap" \in {c.mode, d.osc[p].mode}
      takesOver == ~(c.mode = "shot" /\ ~canRepeat) /\ ~d3.osc[p].running /\ d3.osc[p].halt
  IN  IF c.mode = "free" /\ canRepeat THEN StartSound(d2, o, eff, now)
      ELSE IF swap /\ takesOver
           THEN StartSound([d3 EXCEPT !.osc[p].halt = FALSE], p, eff, now)
           ELSE d3

SoundEnd(d, o, canRepeat, eff, now) ==
  LET d1 == [d EXCEPT !.osc[o].event = {}, !.osc[o].pos = 0]
  IN  IF d.osc[o].halt THEN HaltIf(d1, TRUE) ELSE Ends(d1, o, canRepeat, eff, now)

-----------------------------------------------------------------------------
(* sound_play and doc_play: the samples from the last time to now.          *)

(* One oscillator, from at on.  Silent, it ends when samps_left does; else  *)
(* at the zero byte or the end of the wave.                                 *)
PlayOne(d, o, now) ==
  LET c    == d.osc[o]
      todo == Min({c.left, now - c.at})
      on   == [d EXCEPT !.osc[o].at = now, !.osc[o].left = @ - todo,
                        !.osc[o].pos = (@ + todo) % c.wave.size]
  IN  IF c.silent \/ todo = 0
      THEN IF c.left - todo > 0 THEN on ELSE SoundEnd(on, o, TRUE, c.at + todo, now)
      ELSE IF todo < Stop(c) - c.pos THEN on
           ELSE SoundEnd([on EXCEPT !.osc[o].left = 0], o, ~MeetsZero(c),
                         c.at + Stop(c) - c.pos, now)

(* In order of number, again and again until none has anything left to      *)
(* play: s.o is looked at next, and s.idle says that nothing has been       *)
(* played since the first.  A silent one that ended is looked at again.     *)
Turn(s, now) ==
  LET c == s.doc.osc[s.o]
      again == (c.silent \/ c.left = 0) /\ c.left <= now - c.at
  IN  IF s.o = s.doc.num THEN IF s.idle THEN s ELSE [s EXCEPT !.o = 0, !.idle = TRUE]
      ELSE IF ~c.running \/ c.at >= now THEN [s EXCEPT !.o = @ + 1]
      ELSE [doc |-> PlayOne(s.doc, s.o, now), o |-> IF again THEN s.o ELSE s.o + 1, idle |-> FALSE]

(* Turns until there is nothing left: in a round no oscillator has more     *)
(* than a turn for each sample, and a sample that all have played.          *)
Enough(d) == (d.behind + 1) * (d.num * (d.behind + 1) + 1)

Scan(d) ==
  LET s[n \in Nat] == IF n = 0 THEN [doc |-> d, o |-> 0, idle |-> TRUE] ELSE Turn(s[n - 1], d.behind)
  IN  s[Enough(d)].doc

SoundPlay(d) ==
  IF d.behind = 0 THEN d
  ELSE LET d1 == Scan(d)
       IN  [d1 EXCEPT !.behind = 0, !.osc = [i \in Oscs |-> [@[i] EXCEPT !.at = 0]]]

-----------------------------------------------------------------------------
(* A mutant: an interrupt that is switched on later is not foreseen.        *)
WriteCtlUnforeseen(d, o, h, m, e, other) ==
  LET c == d.osc[o]
      d1 == RemoveSoundIrq(d, o, FALSE)
      d2 == [d1 EXCEPT !.osc[o].event = {}]
      Ctl(b) == [b EXCEPT !.osc[o].halt = h, !.osc[o].mode = m, !.osc[o].ie = e]
      Stopped(b) == [b EXCEPT !.osc[o].running = FALSE,
                              !.osc[o].pos = IF c.mode = "free" THEN @ ELSE 0]
  IN  IF <<c.halt, c.mode, c.ie>> = <<h, m, e>> /\ ~other THEN d
      ELSE IF h THEN Ctl(Stopped(IF c.halt THEN d2 ELSE SoundPlay(d2)))
      ELSE IF c.halt THEN StartSound(Ctl(SoundPlay(d1)), o, 0, 0)
      ELSE Ctl(SoundPlay(d1))

(* doc_write_ctl_reg; other says whether a bit that is not modelled changes. *)
WriteCtl(d, o, h, m, e, other) ==
  LET c == d.osc[o]
      d1 == RemoveSoundIrq(d, o, FALSE)
      d2 == [d1 EXCEPT !.osc[o].event = {}]
      Ctl(b) == [b EXCEPT !.osc[o].halt = h, !.osc[o].mode = m, !.osc[o].ie = e]
      Stopped(b) == [b EXCEPT !.osc[o].running = FALSE,
                              !.osc[o].pos = IF c.mode = "free" THEN @ ELSE 0]
  IN  IF <<c.halt, c.mode, c.ie>> = <<h, m, e>> /\ ~other THEN d
      ELSE IF h THEN Ctl(Stopped(IF c.halt THEN d2 ELSE SoundPlay(d2)))
      ELSE IF c.halt THEN StartSound(Ctl(SoundPlay(d1)), o, 0, 0)
      ELSE IF e /\ ~c.ie THEN WaveEndEstimate(Ctl(SoundPlay(d1)), o, 0, 0)
      ELSE Ctl(SoundPlay(d1))

HaltOsc(d, o) == WriteCtl(d, o, TRUE, d.osc[o].mode, d.osc[o].ie, FALSE)

(* Writing $E1: oscillators that are no longer enabled are stopped.         *)
SetNumOscs(d, k) ==
  LET halted[o \in k..NumOscs] ==
        IF o = k THEN [d EXCEPT !.num = k] ELSE HaltOsc(halted[o - 1], o - 1)
  IN  halted[NumOscs]

(* doc_reset; do_reset clears g_irq_pending.                                *)
ResetOsc(d, o) ==
  LET d1 == [HaltOsc(d, o) EXCEPT !.e0 = NoOsc]
  IN  [HaltIf(d1, d1.osc[o].rank > 0) EXCEPT !.osc[o].rank = 0]

AfterReset(d) ==
  LET fresh[o \in 0..NumOscs] == IF o = 0 THEN d ELSE ResetOsc(fresh[o - 1], o - 1)
      d1 == fresh[NumOscs]
  IN  [HaltIf(d1, d1.count > 0) EXCEPT !.count = 0, !.irq = FALSE]

-----------------------------------------------------------------------------
(* doc_init; the program may have set the waves.                            *)
FreshOsc(w) ==
  [ halt |-> TRUE, mode |-> "free", ie |-> FALSE, running |-> FALSE,
    wave |-> w, silent |-> FALSE,
    pos |-> 0, left |-> 0, at |-> 0, event |-> {}, rank |-> 0 ]

DocInit ==
  \E w \in Waves :
    doc = [osc |-> [o \in Oscs |-> FreshOsc(w)], num |-> NumOscs, e0 |-> NoOsc, count |-> 0,
           irq |-> FALSE, behind |-> 0, halted |-> FALSE]

(* An instruction: at most one sample passes.  Events that are due are      *)
(* handled before the next one.                                             *)
DocPassed(n) ==
  [doc EXCEPT !.behind = @ + n,
              !.osc = [o \in Oscs |-> [doc.osc[o] EXCEPT !.event = {t - n : t \in @}]]]

DocRuns(n) ==
  /\ ~doc.halted
  /\ \A o \in Oscs : \A t \in doc.osc[o].event : t > 0
  /\ doc.behind + n <= MaxBehind

DocIdle(n) == DocRuns(n) /\ n > 0 /\ doc' = DocPassed(n)

(* Quirk "race": the oscillator has ended, or was started by its partner,   *)
(* and the program does not know yet.                                       *)
Known(d, o) ==
  LET c == SoundPlay(d).osc[o]
  IN  "race" \in Quirks \/ <<c.halt, c.running>> = <<d.osc[o].halt, d.osc[o].running>>

Control(n, o, modes, enables) ==
  /\ DocRuns(n) /\ Known(DocPassed(n), o)
  /\ \E h, other \in BOOLEAN, m \in modes, e \in enables :
       /\ other => <<h, m, e>> = <<doc.osc[o].halt, doc.osc[o].mode, doc.osc[o].ie>>
       /\ doc' = WriteCtl(DocPassed(n), o, h, m, e, other)

(* The other registers of an oscillator.  Quirk "retune": the wave of one   *)
(* that plays changes, and with it the end.                                 *)
Played(d, o) == IF d.osc[o].halt THEN d ELSE SoundPlay(d)

Retune(n, o, waves) ==
  /\ DocRuns(n)
  /\ "retune" \in Quirks \/ ~doc.osc[o].running
  /\ \E w \in waves :
       doc' = [Played(DocPassed(n), o) EXCEPT !.osc[o].wave = w, !.osc[o].pos = @ % w.size]

(* Quirk "volume": a silent one that has one sample left, the one by which  *)
(* the estimate is too long, begins to sound, from the start of its wave.   *)
Volume(n, o) ==
  LET d == Played(DocPassed(n), o)
      c == d.osc[o]
  IN  /\ DocRuns(n)
      /\ "volume" \in Quirks \/ ~(c.running /\ c.silent /\ c.left = 1)
      /\ doc' = [d EXCEPT !.osc[o].silent = ~@]

ReadE0(n) ==
  /\ DocRuns(n)
  /\ doc' = IF doc.e0 = NoOsc THEN DocPassed(n) ELSE RemoveSoundIrq(DocPassed(n), doc.e0, TRUE)

(* Quirk "fewer": one of the oscillators disabled interrupts.               *)
WriteE1(n) ==
  /\ DocRuns(n)
  /\ \E k \in 1..NumOscs :
       /\ "fewer" \in Quirks \/ \A o \in k..NumOscs - 1 : doc.osc[o].rank = 0
       /\ doc' = SetNumOscs(DocPassed(n), k)

(* The end of the frame (sound_update), or a read of the data register.     *)
SoundUpdate == ~doc.halted /\ doc' = SoundPlay(doc)

DocEvent(o) ==
  /\ ~doc.halted
  /\ \E t \in doc.osc[o].event : t <= 0
  /\ doc' = SoundPlay([doc EXCEPT !.osc[o].event = {}])

(* Quirk "reset": an oscillator interrupts.                                 *)
DocReset ==
  /\ ~doc.halted
  /\ "reset" \in Quirks \/ SoundPlay(doc).count = 0
  /\ doc' = AfterReset(doc)

(* Programs that use the oscillators oscs in the modes given, with and      *)
(* without interrupts as enables says, and set waves, volumes and, if more  *)
(* is true, the number of oscillators.                                      *)
DocSteps(oscs, modes, enables, waves, more) ==
  \/ \E n \in 0..1 : DocIdle(n) \/ ReadE0(n) \/ (more /\ WriteE1(n))
  \/ \E n \in 0..1, o \in oscs :
       \/ Control(n, o, modes, enables) \/ Retune(n, o, waves)
       \/ (waves # {} /\ Volume(n, o))
  \/ \E o \in Oscs : DocEvent(o)
  \/ SoundUpdate \/ DocReset

DocNext == DocSteps(Oscs, DocModes, BOOLEAN, Waves, TRUE)

DocSpec == DocInit /\ [][DocNext]_doc

-----------------------------------------------------------------------------
Ranked == {o \in Oscs : doc.osc[o].rank > 0}

(* The queue behind $E0: the oscillators that interrupt have the places 1   *)
(* to count, each one, the CPU is interrupted while there are any, and $E0  *)
(* names the first.                                                         *)
RanksAgree ==
  /\ DocTypeOK
  /\ {doc.osc[o].rank : o \in Ranked} = 1..Cardinality(Ranked)
  /\ doc.count = Cardinality(Ranked)
  /\ doc.irq <=> doc.count > 0
  /\ doc.e0 = NoOsc <=> Ranked = {}
  /\ doc.e0 # NoOsc => doc.osc[doc.e0].rank = 1

(* No interrupt is late: an oscillator that plays and is to interrupt has   *)
(* its event on the list, at the sample in which it ends.                   *)
EndsForeseen ==
  \A o \in Oscs : LET c == doc.osc[o] IN
    c.running /\ c.ie => c.event = {c.left - doc.behind}

(* The code's own checks never stop the emulator, and the control register  *)
(* says which oscillators play.                                             *)
NeverComplains ==
  /\ ~doc.halted
  /\ \A o \in Oscs : doc.osc[o].running <=> ~doc.osc[o].halt
=============================================================================
