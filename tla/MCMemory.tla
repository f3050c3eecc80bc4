------------------------------- MODULE MCMemory -------------------------------
(* The page tables under four kinds of program, each with the switches it    *)
(* uses, and one with breakpoints.                                           *)
EXTENDS MemoryMap

VARIABLE scene
mcVars == <<sw, map, breaks, scene>>

MCBreakPages == {<<"00", "text1">>, <<"00", "d0">>, Odd, Debug}

Card ==           \* a language card, with and without inhibited I/O
  /\ scene = "card"
  /\ \/ \E on \in BOOLEAN : SoftSwitch("altzp", on)
     \/ \E a0, a1, a3, read \in BOOLEAN : LanguageCard(a0, a1, a3, read)
     \/ \E bits \in SUBSET {6} : WriteC035(bits)
     \/ \E z, r, l \in BOOLEAN : WriteC068([sw EXCEPT !.altzp = z, !.rdrom = r, !.lcbank2 = l])

UpToTwo == {{a, b} : a, b \in 0..5}        \* bits of $C035 that change at once
Display ==        \* 80 columns, double hires and the shadowing of $C035
  /\ scene = "display"
  /\ \/ \E f \in {"page2", "ramrd", "ramwrt"}, on \in BOOLEAN : SoftSwitch(f, on)
     \/ \E on \in BOOLEAN : Set80Store(on) \/ SetHires(on)
     \/ \E bits \in UpToTwo : WriteC035((sw.inhibit \ bits) \cup (bits \ sw.inhibit))
     \/ \E p, r, w \in BOOLEAN : WriteC068([sw EXCEPT !.page2 = p, !.ramrd = r, !.ramwrt = w])

Cards ==          \* the ROMs of the slots
  /\ scene = "slots"
  /\ \/ \E on \in BOOLEAN : SoftSwitch("intcx", on)
     \/ \E b \in Banks : AccessC3(b) \/ AccessCfff(b)
     \/ \E cards \in SUBSET Slots : SetCards(cards)
     \/ \E bits \in SUBSET {6} : WriteC035(bits)

Debugging ==      \* breakpoints under changing switches
  /\ scene = "breaks"
  /\ \/ \E p \in BreakPages : SetBreak(p)
     \/ \E pages \in {{p} : p \in BreakPages} \cup {BreakPages} : DeleteBreaks(pages)
     \/ \E f \in {"altzp", "page2", "ramwrt"}, on \in BOOLEAN : SoftSwitch(f, on)
     \/ \E on \in BOOLEAN : Set80Store(on) \/ SetAllBanks(on)
     \/ \E bit \in {0, 3, 6} : WriteC035((sw.inhibit \ {bit}) \cup ({bit} \ sw.inhibit))

MCInit == MemInit /\ scene \in {"card", "display", "slots", "breaks"}
MCNext ==
  /\ Card \/ Display \/ Cards \/ Debugging \/ \E panel \in BOOLEAN : DoReset(panel)
  /\ UNCHANGED scene

MCSpec == MCInit /\ [][MCNext]_mcVars
=============================================================================
