-------------------------------- MODULE MCAdb --------------------------------
(* The ADB controller for TLC in two scenes: the bus (commands, answers and  *)
(* keys for register 0) under a program that leaves the mouse alone, and the *)
(* mouse under one that only reads $C024, enables its interrupt and          *)
(* synchronises. In one scene with both the states would multiply and tell   *)
(* nothing more: what they share (modes, addresses, $C027 and the reset) is  *)
(* in each.                                                                  *)
EXTENDS Adb

VARIABLE scene
mcVars == <<vars, scene>>

Arguments ==
  [bus   |-> [modes |-> {"kbd_off"},   mouse |-> {MouseAddr}, kbd |-> KbdAddrs],
   mouse |-> [modes |-> {"mouse_off"}, mouse |-> MouseAddrs,  kbd |-> {KbdAddr}]]
Enabling == [bus |-> {"data"}, mouse |-> {"mouse"}]
Writing  == [bus |-> Ops \ {"sync"}, mouse |-> {"sync"}]

LastArgs(modes, mouse, kbd) ==
  \/ \E s \in SUBSET modes : DoSetModes(s)
  \/ \E m \in mouse, k \in kbd : DoSetConfig(m, k)
  \/ \E s \in SUBSET modes, m \in mouse, k \in kbd : DoSync(s, m, k)
  \/ DoNothing \/ DoReadMem \/ DoSendKey
  \/ \E addr \in kbd, h \in {"move", "known", "other"} : DoListen3(addr, h)

Devices == KbdAddrs \cup {MouseAddr}

MCProgram ==
  \/ \E o \in Writing[scene], d \in Devices : WriteCommand(o, d)
  \/ WriteWhileSending \/ WriteArg
  \/ LET a == Arguments[scene] IN LastArgs(a.modes, a.mouse, a.kbd)
  \/ ReadStatus \/ ReadData
  \/ \E s \in SUBSET Enabling[scene] : WriteC027(s)
  \/ scene = "mouse" /\ (ReadMouse \/ ReadMouseOff)

MCHost ==
  \/ Reset
  \/ scene = "bus" /\ ((\E b \in Codes : HostKey(b)) \/ HostDeskManager)
  \/ /\ scene = "mouse"
     /\ \/ \E at \in Position, btn \in BOOLEAN : HostMouse(at, btn)
        \/ \E at \in Position : HostWarp(at)
        \/ HostToggleWarp

MCInit == scene \in {"bus", "mouse"} /\ Init
MCNext == (MCProgram \/ MCHost) /\ UNCHANGED scene

(* The fairness of Adb, in the scene with the mouse.                         *)
MCSpec ==
  /\ MCInit /\ [][MCNext]_mcVars
  /\ WF_mcVars(scene = "mouse" /\ (ReadMouse \/ ReadMouseOff) /\ UNCHANGED scene)
=============================================================================
