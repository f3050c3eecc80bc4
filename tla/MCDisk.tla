------------------------------- MODULE MCDisk -------------------------------
(* The drives under a program that reads and writes tracks, and a unit of    *)
(* the SmartPort under calls, each with images to insert.                    *)
EXTENDS SmartPort

VARIABLE scene
mcVars == <<portVars, scene>>

MCBays == {<<35, 0>>, <<525, 0>>}
MCUnits == {<<7, 0>>}
MCStart == [i \in Images |-> IF i = "header" THEN 1 ELSE 0]

Locations(s) == IF s = "choosing" THEN 8..15 ELSE (8..9) \cup (12..15)
(* what the host may answer to an attempt to save a disk                      *)
Host(s) == IF s = "choosing" THEN {TRUE} ELSE BOOLEAN
Answers(loc) == IF loc \in {8, 10, 11} THEN Host(scene) ELSE {TRUE}
Written(s) == IF s = "plain" THEN {"new", "odd"} ELSE {"new"}

Rotating ==       \* a program that reads and writes tracks
  /\ scene \in {"plain", "woz", "choosing"}
  /\ \/ \E loc \in Locations(scene) : \E ok \in Answers(loc) :
          ReadIwm(loc, ok) \/ \E v \in Written(scene) : WriteIwm(loc, v, ok)
     \/ scene # "choosing" /\ \E t \in Tracks, ok \in BOOLEAN : MoveHead(t, ok)
     \/ scene = "choosing" /\ \E on \in BOOLEAN : WriteC031(on)
     \/ \E ok \in Host(scene) : VblUpdate(ok)
     \/ IwmReset
  /\ Drive

(* the images to insert, and where, in each scene                            *)
Inserts ==
  [plain |-> {<<<<525, 0>>, "plain">>},
   woz |-> {<<<<525, 0>>, "woz">>},
   choosing |-> {},
   blocks |-> ({<<35, 0>>} \cup Units) \X {"zip", "header", "locked"}]

Changing ==
  \E ok \in BOOLEAN :
    \/ \E c \in Inserts[scene] : PortInsert(c[1], c[2], ok)
    \/ \E d \in {c[1] : c \in Inserts[scene]} : PortEject(d, ok) \/ (ToggleLock(d) /\ Drive)

Calling == scene = "blocks" /\ \E u \in Units : Call(u)

(* When a program chooses between drives, both have a disk.                  *)
MCInit ==
  /\ scene \in {"plain", "woz", "choosing", "blocks"}
  /\ PortInit
MCInsert ==
  /\ scene = "choosing" /\ ~iwm.motorOn
  /\ \E i \in {"plain", "woz"}, d \in Bays : disk[d].img = NoImage /\ PortInsert(d, i, TRUE)
MCNext == (Rotating \/ Changing \/ MCInsert \/ Calling) /\ UNCHANGED scene

(* iwm_vbl_update is called in every frame; the host's answer is its own.   *)
MCSpec ==
  /\ MCInit /\ [][MCNext]_mcVars
  /\ WF_mcVars(scene # "blocks" /\ (\E ok \in BOOLEAN : VblUpdate(ok)) /\ Drive /\ UNCHANGED scene)
=============================================================================
