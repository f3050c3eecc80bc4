------------------------------- MODULE MCSound -------------------------------
(***************************************************************************)
(* Sound for TLC: the oscillators (Doc), the timers of the Mockingboard and *)
(* the way of the samples to CoreAudio (SoundRing).  They share no variable *)
(* and are checked one at a time; a scene bounds what the program does.     *)
(***************************************************************************)
EXTENDS Doc, Mockingboard, SoundRing

CONSTANT Units    \* the scenes that are checked

VARIABLE unit

(* Two oscillators in all modes; one with all kinds of wave; interrupts of  *)
(* both, while their number changes.                                        *)
DocScenes ==
  [ pair  |-> [oscs |-> {0, 1}, modes |-> DocModes, enables |-> BOOLEAN,
               waves |-> {}, more |-> FALSE],
    waves |-> [oscs |-> {0}, modes |-> {"free", "shot"}, enables |-> BOOLEAN,
               waves |-> Waves, more |-> FALSE],
    queue |-> [oscs |-> {0, 1}, modes |-> {"shot"}, enables |-> {TRUE},
               waves |-> {}, more |-> TRUE] ]

(* Each kind of timer alone, with its latch and its modes; one of each kind *)
(* on the two chips.                                                        *)
MockScenes ==
  [ timer1 |-> [used |-> (0 :> {"t1"} @@ 1 :> {}), tuned |-> TRUE, ns |-> 0..MaxInstr],
    timer2 |-> [used |-> (0 :> {"t2"} @@ 1 :> {}), tuned |-> TRUE, ns |-> 0..MaxInstr],
    both   |-> [used |-> (0 :> {"t1"} @@ 1 :> {"t2"}), tuned |-> FALSE, ns |-> 1..MaxInstr] ]

(* The pair plays the shortest waves, so that several end at once.          *)
Wave(n) == [size |-> n, zero |-> n]

Init ==
  /\ unit \in Units
  /\ DocInit /\ doc.osc[0].wave = Wave(IF unit = "pair" THEN 1 ELSE 2)
  /\ MockInit /\ RingInit

DocStep  == LET s == DocScenes[unit] IN DocSteps(s.oscs, s.modes, s.enables, s.waves, s.more)
MockStep == LET s == MockScenes[unit] IN MockSteps(s.used, s.tuned, s.ns)

Next ==
  /\ \/ unit \in DOMAIN DocScenes /\ DocStep /\ UNCHANGED <<mock, ringVars>>
     \/ unit \in DOMAIN MockScenes /\ MockStep /\ UNCHANGED <<doc, ringVars>>
     \/ unit = "ring" /\ RingNext /\ UNCHANGED <<doc, mock>>
  /\ UNCHANGED unit

vars == <<doc, mock, ringVars, unit>>

Spec == Init /\ [][Next]_vars
=============================================================================
