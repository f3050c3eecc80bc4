-------------------------------- MODULE Serial --------------------------------
(***************************************************************************)
(* The serial side of the emulator: the chip (Scc), the port as the host    *)
(* sees it (Modem) and the telnet options of its line (Telnet).  In the     *)
(* model they share no variable: what one has of another, a character       *)
(* received or a caller on the line, the other may do at any time.          *)
(***************************************************************************)
EXTENDS Scc, Modem, Telnet

SerialSpec == SccSpec /\ ModemSpec /\ TelnetSpec

(* The variables of all three modules have their types; the chip's queue    *)
(* and buffer and the port's output buffer stay within their arrays.        *)
SerialTypeOK == SccTypeOK /\ ModemTypeOK /\ TelnetTypeOK

(* A modem that is on line, or rings, has somebody at the other end,        *)
(* however calls, answers, hang-ups and changes of the settings cross; the  *)
(* two ends of a silent line mean the same options; and no ring, queue or   *)
(* buffer overflows on the way.                                             *)
LinesHeld == SerialTypeOK /\ OnlineHasLine /\ AgreedWhenQuiet
=============================================================================
