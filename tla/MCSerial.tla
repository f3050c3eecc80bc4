------------------------------- MODULE MCSerial -------------------------------
(***************************************************************************)
(* Serial for TLC.  The chip, the port and the line of Serial share no      *)
(* variable, so that checking them one at a time, chosen by unit, checks    *)
(* the same states of each as checking them side by side would.             *)
(* The chip is checked in three scenes; the bounds of a scene are the ports *)
(* in use, the characters on the line and the bytes the guest writes.       *)
(***************************************************************************)
EXTENDS Serial

VARIABLE unit

CONSTANTS x, y

(* Loopback and the order of characters; all sources of one channel; both   *)
(* channels under the one master enable.                                    *)
Scenes ==
  [ receive  |-> [ports |-> {A},    chars |-> {x, y}, values |-> {1, 9, 14, 16, 56, 200}],
    sources  |-> [ports |-> {A},    chars |-> {x},    values |-> {1, 9, 14, 15, 40, 56}],
    channels |-> [ports |-> {A, B}, chars |-> {x},    values |-> {1, 9, 74}] ]

Units == DOMAIN Scenes \cup {"modem", "telnet"}

Init ==
  /\ unit \in Units
  /\ SccInit
  /\ ModemInit /\ (unit # "modem" => cfg = Outgoing)
  /\ TelnetInit

Next ==
  /\ \/ /\ unit \in DOMAIN Scenes
        /\ Steps(Scenes[unit].ports, Scenes[unit].chars, Scenes[unit].values)
        /\ UNCHANGED <<modemVars, telnetVars>>
     \/ unit = "modem" /\ ModemNext /\ UNCHANGED <<sccVars, telnetVars>>
     \/ unit = "telnet" /\ TelnetNext /\ UNCHANGED <<sccVars, modemVars>>
  /\ UNCHANGED unit

vars == <<sccVars, modemVars, telnetVars, unit>>

(* The fairness of Modem and of Telnet, each while it is the unit checked.  *)
Fairness ==
  /\ WF_vars(unit = "modem" /\ VblUpdate /\ UNCHANGED <<sccVars, telnetVars, unit>>)
  /\ WF_vars(unit = "modem" /\ Wait /\ UNCHANGED <<sccVars, telnetVars, unit>>)
  /\ \A e \in Ends :
       WF_vars(unit = "telnet" /\ Recvd(e) /\ UNCHANGED <<sccVars, modemVars, unit>>)

Spec == Init /\ [][Next]_vars /\ Fairness
=============================================================================
