------------------------------ MODULE SoundRing ------------------------------
(***************************************************************************)
(* The way of a sample from sound_play to the loudspeaker of a Mac: the     *)
(* emulator's ring (sound.c), the counts handed to the driver               *)
(* (sound_driver.c), and the driver's own ring, which the emulator's thread *)
(* fills (mac_send_audio) and CoreAudio's thread empties (audio_callback).  *)
(*                                                                          *)
(* A sample is the number it was made with, 0 for one of silence.           *)
(***************************************************************************)
EXTENDS Integers, SequencesExt

CONSTANTS
  ShmSize,      \* SOUND_SHM_SAMP_SIZE
  RebufSize,    \* MACSND_REBUF_SIZE
  Quantum,      \* g_audio_rate/60: samples queued before they are sent
  Plays,        \* how many samples a call of sound_play may be for
  MinSamples,   \* g_sound_min_samples
  MaxSamples,   \* ... times g_sound_max_multiplier
  Frames,       \* how many samples CoreAudio may ask for
  PauseAfter,   \* ZERO_PAUSE_NUM_SAMPS
  PauseSafety,  \* ZERO_PAUSE_SAFETY_SAMPS
  MaxMade       \* bound: samples made

(* CoreAudio asks for no more than is left when the driver has skipped what *)
(* was too much; more than that is not checked for by the code.             *)
ASSUME RingAssumption ==
  /\ {ShmSize, RebufSize, Quantum} \subseteq Nat \ {0}
  /\ {MinSamples, MaxSamples, PauseAfter, PauseSafety, MaxMade} \subseteq Nat
  /\ Plays \subseteq 1..ShmSize - Quantum
  /\ Frames \subseteq 1..MaxSamples - (MaxSamples \div 2) + 1

VARIABLES
  made,         \* the number of the last sample
  shm, shmPos,  \* g_sound_shm_addr, g_sound_shm_pos
  samps, nonsamps,        \* g_queued_samps, g_queued_nonsamps
  childPos,     \* g_childsnd_pos
  zeroesSeen, zeroesBuffered, paused,   \* g_zeroes_seen, g_zeroes_buffered, g_sound_paused
  sending,      \* what mac_send_audio is called with next, and next but one, ...
  copied,       \* it has copied the first of these, and not moved g_macsnd_wr_pos yet
  rebuf, macWr, macRd,          \* g_macsnd_rebuf, g_macsnd_wr_pos, g_macsnd_rd_pos
  playing,      \* g_macsnd_playing
  avail, asked, \* audio_callback's samps_avail and in_num_frame; asked is 0 outside of it
  last          \* history: the last sample that was heard

emuVars    == <<made, shm, shmPos, samps, nonsamps>>
driverVars == <<childPos, zeroesSeen, zeroesBuffered, paused>>
sendVars   == <<sending, copied, macWr>>
callVars   == <<macRd, playing, avail, asked, last>>
ringVars   == <<emuVars, driverVars, sendVars, rebuf, callVars>>

RingTypeOK ==
  /\ made \in 0..MaxMade
  /\ shm \in [0..ShmSize - 1 -> 0..MaxMade] /\ shmPos \in 0..ShmSize - 1
  /\ {samps, nonsamps, zeroesSeen, zeroesBuffered, avail} \subseteq Nat
  /\ childPos \in 0..ShmSize - 1 /\ paused \in BOOLEAN
  /\ sending \in Seq(Seq(0..MaxMade)) /\ copied \in BOOLEAN
  /\ rebuf \in [0..RebufSize - 1 -> 0..MaxMade]
  /\ {macWr, macRd} \subseteq 0..RebufSize - 1
  /\ playing \in BOOLEAN /\ asked \in Frames \cup {0} /\ last \in 0..MaxMade

RingInit ==
  /\ made = 0 /\ shm = [i \in 0..ShmSize - 1 |-> 0] /\ shmPos = 0
  /\ samps = 0 /\ nonsamps = 0
  /\ childPos = 0 /\ zeroesSeen = 0 /\ zeroesBuffered = 0 /\ paused = FALSE
  /\ sending = <<>> /\ copied = FALSE
  /\ rebuf = [i \in 0..RebufSize - 1 |-> 0] /\ macWr = 0 /\ macRd = 0
  /\ playing = FALSE /\ avail = 0 /\ asked = 0 /\ last = 0

-----------------------------------------------------------------------------
(* The emulator's side *)

Zeroes(n) == [i \in 1..n |-> 0]
FromRing(ring, size, from, n) == [i \in 1..n |-> ring[(from + i - 1) % size]]

(* child_sound_playit: what each of the messages of sound_play writes, a    *)
(* stretch across the end of the ring in two pieces.  Silence is not sent   *)
(* on for ever, but paused; then some of it is kept.  (That long silence    *)
(* goes out in buffers of ZERO_BUF_SIZE is left out.)                       *)
Driver == [pos |-> childPos, seen |-> zeroesSeen, kept |-> zeroesBuffered,
           paused |-> paused, out |-> sending]

Pieces(ring, pos, size) ==
  LET first == Min({size, ShmSize - pos})
      rest  == FromRing(ring, ShmSize, 0, size - first)
  IN  <<FromRing(ring, ShmSize, pos, first)>> \o IF rest = <<>> THEN <<>> ELSE <<rest>>

PlayReal(d, ring, size) ==
  [d EXCEPT !.pos = (@ + size) % ShmSize, !.seen = 0, !.kept = 0, !.paused = FALSE,
            !.out = @ \o (IF d.kept > 0 THEN <<Zeroes(d.kept)>> ELSE <<>>)
                      \o Pieces(ring, d.pos, size)]

PlayZeroes(d, size) ==
  LET on == [d EXCEPT !.pos = (@ + size) % ShmSize] IN
  IF d.paused THEN [on EXCEPT !.kept = IF @ < PauseSafety THEN @ + size ELSE @]
  ELSE [on EXCEPT !.seen = @ + size, !.paused = d.seen + size >= PauseAfter,
                  !.out = Append(@, Zeroes(size))]

(* snddrv_send_sound, if there is anything to send, or enough               *)
SendSound(d, ring, real, size, enough) ==
  IF size < enough THEN d ELSE IF real THEN PlayReal(d, ring, size) ELSE PlayZeroes(d, size)

(* The end of sound_play, for n samples of sound or of silence: what is     *)
(* queued of the other kind is sent first, and enough of either at once.    *)
Play(real, n) ==
  LET ring  == [i \in 0..ShmSize - 1 |->
                  LET k == (i + ShmSize - shmPos) % ShmSize
                  IN  IF real /\ k < n THEN made + k + 1 ELSE shm[i]]
      other == IF real THEN nonsamps ELSE samps
      same  == n + IF real THEN samps ELSE nonsamps
      left  == IF same >= Quantum THEN 0 ELSE same
      d     == SendSound(SendSound(Driver, ring, ~real, other, 1), ring, real, same, Quantum)
  IN  /\ sending = <<>>
      /\ made + n <= MaxMade
      /\ made' = IF real THEN made + n ELSE made
      /\ shm' = ring /\ shmPos' = (shmPos + n) % ShmSize
      /\ samps' = IF real THEN left ELSE 0
      /\ nonsamps' = IF real THEN 0 ELSE left
      /\ childPos' = d.pos /\ zeroesSeen' = d.seen /\ zeroesBuffered' = d.kept
      /\ paused' = d.paused /\ sending' = d.out
      /\ UNCHANGED <<copied, macWr, rebuf, callVars>>

(* mac_send_audio: first the samples, then the position.                    *)
Filled(at, s) ==
  [i \in 0..RebufSize - 1 |->
     LET k == (i + RebufSize - at) % RebufSize
     IN  IF k < Len(s) THEN s[k + 1] ELSE rebuf[i]]

(* Assumed: CoreAudio's thread is never so late that the ring is too small. *)
Room(n) == ((macWr + RebufSize - macRd) % RebufSize) + n < RebufSize

Copy ==
  /\ sending # <<>> /\ ~copied
  /\ Room(Len(Head(sending)))
  /\ rebuf' = Filled(macWr, Head(sending))
  /\ copied' = TRUE
  /\ UNCHANGED <<emuVars, driverVars, sending, macWr, callVars>>

Publish ==
  /\ copied
  /\ macWr' = (macWr + Len(Head(sending))) % RebufSize
  /\ sending' = Tail(sending) /\ copied' = FALSE
  /\ UNCHANGED <<emuVars, driverVars, rebuf, callVars>>

-----------------------------------------------------------------------------
(* audio_callback, with a first look at g_macsnd_wr_pos and, if there is    *)
(* too little, a second.                                                    *)
Look ==
  /\ asked = 0
  /\ asked' \in Frames
  /\ avail' = (macWr + RebufSize - macRd) % RebufSize
  /\ UNCHANGED <<emuVars, driverVars, sendVars, rebuf, macRd, playing, last>>

Short  == asked > avail
PlaysOn == (playing /\ ~Short) \/ avail > MinSamples + asked

(* A mutant: all of the maximum is skipped.                                 *)
FromFar ==
  ((IF Short THEN macWr ELSE macRd)
   + IF PlaysOn /\ avail > MaxSamples THEN MaxSamples ELSE 0) % RebufSize

(* Where it plays from: what is too much is skipped, half of the maximum.   *)
From ==
  ((IF Short THEN macWr ELSE macRd)
   + IF PlaysOn /\ avail > MaxSamples THEN MaxSamples \div 2 ELSE 0) % RebufSize

(* What CoreAudio gets; silence if nothing plays.                           *)
Heard == IF PlaysOn THEN FromRing(rebuf, RebufSize, From, asked) ELSE Zeroes(asked)

Answer ==
  /\ asked > 0
  /\ playing' = PlaysOn
  /\ last' = Max({last} \cup ToSet(Heard))
  /\ macRd' = IF PlaysOn THEN (From + asked) % RebufSize ELSE From
  /\ asked' = 0 /\ avail' = 0
  /\ UNCHANGED <<emuVars, driverVars, sendVars, rebuf>>

RingNext ==
  \/ \E real \in BOOLEAN, n \in Plays : Play(real, n)
  \/ Copy \/ Publish \/ Look \/ Answer

RingSpec == RingInit /\ [][RingNext]_ringVars

-----------------------------------------------------------------------------
(* Whatever the two threads and the pauses do, what is heard is what was    *)
(* made: no sample is heard twice or after a later one, and one call of     *)
(* CoreAudio plays a stretch of them without gaps.                          *)
HeardInOrder ==
  /\ RingTypeOK
  /\ \A i \in 1..asked : Heard[i] # 0 =>
       /\ Heard[i] > last
       /\ \A j \in 1..i - 1 : Heard[j] < Heard[i]
       /\ i > 1 /\ Heard[i - 1] # 0 => Heard[i] = Heard[i - 1] + 1
=============================================================================
