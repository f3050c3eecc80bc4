----------------------------- MODULE SerialLine -----------------------------
(***************************************************************************)
(* What the receiving side of a serial port promises: a line of characters  *)
(* that the guest takes in the order in which they came, each once.  A      *)
(* character that finds the line full is not put on it, and a reset of the  *)
(* channel throws away the oldest, at most as many as the chip holds, or    *)
(* (with the whole machine) all of them.                                    *)
(***************************************************************************)
EXTENDS Integers, Sequences

CONSTANTS Chars, Held   \* characters; how many of them the chip itself holds

VARIABLE line

LineInit == line = <<>>

LineReceive == \E c \in Chars : line' = Append(line, c)

(* The guest takes the first character, perhaps one that came just now.     *)
LineTake ==
  \E more \in {<<>>} \cup {<<c>> : c \in Chars} :
    /\ line \o more # <<>>
    /\ line' = Tail(line \o more)

LineDiscard ==
  \E n \in 0..Held : n <= Len(line) /\ line' = SubSeq(line, n + 1, Len(line))

LineClear == line' = <<>>

LineNext == LineReceive \/ LineTake \/ LineDiscard \/ LineClear

LineSpec == LineInit /\ [][LineNext]_line
=============================================================================
