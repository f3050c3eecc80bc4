----------------------------- MODULE MemoryProofs -----------------------------
(***************************************************************************)
(* The page tables always are what the soft switches say, whatever program  *)
(* runs and whichever breakpoints are set.                                  *)
(*                                                                          *)
(* WantRd and WantWr say what one page's entries should be, page by page    *)
(* and as a function of the switches alone; the program has no such         *)
(* function, only the fixups.  Each fixup is shown to write what is wanted  *)
(* of the pages it renews (the ...Put lemmas) and to leave the others alone *)
(* (the ...Fixes lemmas); sequences of them compose (Composed).  A step     *)
(* keeps the invariant IInv when every page whose wanted entries it changes *)
(* is among those it renews (Stepped): BecomeWants and UpdateWants show it  *)
(* for set_statereg and update_shadow_reg.                                  *)
(***************************************************************************)
EXTENDS MemoryMap, TLAPS

Tables == [rd : [Pages -> Entries], wr : [Pages -> Entries],
           brkRd : SUBSET Pages, brkWr : SUBSET Pages]

-----------------------------------------------------------------------------
(* What the switches want of a page *)

Aux(on) == IF on THEN 1 ELSE 0
IoSpace == {"c0", "c3", "c4", "c7", "c8", "cf"}
CardSpace == {"d0", "e0"}

RdAux(s, r) ==
  CASE r = "zp"     -> s.altzp
    [] r = "text1"  -> (IF s.st80 THEN s.showPage2 ELSE s.ramrd)
    [] r = "hires1" -> (IF s.st80 /\ s.hires THEN s.showPage2 ELSE s.ramrd)
    [] OTHER        -> s.ramrd
WrAux(s, r) ==
  CASE r = "zp"     -> s.altzp
    [] r = "text1"  -> (IF s.st80 THEN s.showPage2 ELSE s.ramwrt)
    [] r = "hires1" -> (IF s.st80 /\ s.hires THEN s.showPage2 ELSE s.ramwrt)
    [] OTHER        -> s.ramwrt

(* Whether a write to a page of the main or auxiliary half is copied.       *)
Copied(s, b, r, aux) ==
  CASE r = "text1"  -> ~(0 \in s.inhibit /\ b \in Fast)
    [] r = "text2"  -> Text2(s) \/ b \in Slow
    [] r = "hires1" -> (IF aux THEN AuxHires(s, 1) ELSE 1 \notin s.inhibit) \/ b \in Slow
    [] r = "hires2" -> (IF aux THEN AuxHires(s, 2) ELSE 2 \notin s.inhibit) \/ b \in Slow
    [] r = "shr"    -> aux /\ (3 \notin s.inhibit \/ b \in Slow)
    [] OTHER        -> FALSE
CopyTag(copied, aux) == IF ~copied THEN "none" ELSE IF aux THEN "shadow2" ELSE "shadow"

SlotRd(s, r) ==
  CASE r = "c0" -> Io
    [] r = "c3" -> (IF ~s.intc8 THEN Io ELSE IF 3 \notin s.card \/ s.intcx THEN RomAt(r) ELSE CardAt(r))
    [] r = "c4" -> (IF 4 \notin s.card \/ s.intcx THEN RomAt(r) ELSE Io)
    [] r = "c7" -> (IF 7 \notin s.card \/ s.intcx THEN RomAt(r) ELSE CardAt(r))
    [] r = "c8" -> (IF s.intcx \/ s.intc8 THEN RomAt(r) ELSE Io)
    [] r = "cf" -> (IF s.intcx /\ ~s.intc8 THEN RomAt(r) ELSE Io)

CardHalf(s, b) == IF b \in Even /\ s.altzp THEN 1 ELSE Half(b)
CardPlace(r, shifted) == IF r = "d0" /\ shifted THEN "c0" ELSE r
CardRd(s, b, r) ==
  IF Inhibited(s, b) THEN Mem(b, CardHalf(s, b), CardPlace(r, TRUE), "none")
  ELSE IF b \in Fast /\ s.rdrom THEN RomAt(r)
  ELSE Mem(b, CardHalf(s, b), CardPlace(r, ~s.lcbank2 /\ ~s.rdrom), "none")
CardWr(s, b, r) ==
  IF Inhibited(s, b) THEN Mem(b, CardHalf(s, b), CardPlace(r, TRUE), "none")
  ELSE Mem(b, CardHalf(s, b), CardPlace(r, ~s.lcbank2),
           IF b \in Fast /\ ~s.wrdefram THEN "readonly" ELSE "none")

OddAt(tag) == [area |-> "fast", half |-> 3, place |-> "video", tag |-> tag]
DebugAt == [area |-> "debug", half |-> 0, place |-> "debug", tag |-> "none"]

WantRd(s, p) ==
  LET b == p[1]  r == p[2]
  IN  IF p = Odd THEN OddAt("none")
      ELSE IF p = Debug THEN DebugAt
      ELSE IF r \in CardSpace THEN CardRd(s, b, r)
      ELSE IF r \in IoSpace
           THEN IF Inhibited(s, b) THEN Mem(b, Half(b), "d0", "none") ELSE SlotRd(s, r)
      ELSE Mem(b, IF b \in Even THEN Aux(RdAux(s, r)) ELSE 1, r, "none")
WantWr(s, p) ==
  LET b == p[1]  r == p[2]
      aux == b \notin Even \/ WrAux(s, r)
  IN  IF p = Odd THEN OddAt(IF s.allBanks /\ 3 \notin s.inhibit THEN "shadow2" ELSE "none")
      ELSE IF p = Debug THEN DebugAt
      ELSE IF r \in CardSpace THEN CardWr(s, b, r)
      ELSE IF r \in IoSpace
           THEN IF Inhibited(s, b) THEN Mem(b, Half(b), "d0", "none") ELSE Io
      ELSE Mem(b, Aux(aux), r, CopyTag(Copied(s, b, r, aux), aux))

(* u is t with the reads of the pages R and the writes of the pages W as    *)
(* the switches s want them, and perhaps marks put back.                    *)
Fixes(s, t, u, R, W, brks) ==
  /\ u \in Tables
  /\ \A p \in Pages : /\ u.rd[p] = IF p \in R THEN WantRd(s, p) ELSE t.rd[p]
                      /\ u.wr[p] = IF p \in W THEN WantWr(s, p) ELSE t.wr[p]
  /\ u.brkRd \subseteq t.brkRd \cup brks /\ u.brkWr \subseteq t.brkWr \cup brks

(* Two fixups one after the other                                           *)
LEMMA Composed ==
  ASSUME NEW s, NEW t, NEW u, NEW v, NEW R, NEW W, NEW R2, NEW W2, NEW brks,
         Fixes(s, t, u, R, W, brks), Fixes(s, u, v, R2, W2, brks)
  PROVE  Fixes(s, t, v, R \cup R2, W \cup W2, brks)
<1> QED BY DEF Fixes

LEMMA PageOf ==
  ASSUME NEW p \in Pages
  PROVE  \/ p \in Banks \X Regions /\ p = <<p[1], p[2]>> /\ p[1] \in Banks /\ p[2] \in Regions /\ p # Odd /\ p # Debug
         \/ p = Odd /\ p[1] = "03" /\ p[2] = "video"
         \/ p = Debug /\ p[1] = "d0" /\ p[2] = "debug"
  BY DEF Pages, Odd, Debug, Banks, Fast, Slow, Regions

(* What is wanted is an entry.                                              *)
LEMMA WantTyped ==
  ASSUME NEW s \in Switches, NEW p \in Pages
  PROVE  WantRd(s, p) \in Entries /\ WantWr(s, p) \in Entries
<1>1. CASE p = Odd
  <2>1. \A tag \in Tags : OddAt(tag) \in Entries
    BY DEF OddAt, Entries, Places
  <2>2. "none" \in Tags /\ "shadow2" \in Tags
    BY DEF Tags
  <2>3. WantRd(s, p) = OddAt("none")
    BY <1>1 DEF WantRd
  <2>4. WantWr(s, p) = OddAt(IF s.allBanks /\ 3 \notin s.inhibit THEN "shadow2" ELSE "none")
    BY <1>1 DEF WantWr
  <2> QED BY <2>1, <2>2, <2>3, <2>4
<1>2. CASE p = Debug
  <2>1. WantRd(s, p) = DebugAt /\ WantWr(s, p) = DebugAt
    BY <1>2 DEF WantRd, WantWr, Odd, Debug
  <2> QED BY <2>1 DEF DebugAt, Entries, Tags, Places
<1>3. ASSUME NEW b \in Banks, NEW r \in Regions, p = <<b, r>>
      PROVE  WantRd(s, p) \in Entries /\ WantWr(s, p) \in Entries
  <2>1. p # Odd /\ p # Debug /\ p[1] = b /\ p[2] = r
    BY <1>3 DEF Odd, Debug, Banks, Fast, Slow
  <2>2. \A half \in {0, 1, 3}, place \in Places, tag \in Tags : Mem(b, half, place, tag) \in Entries
    BY DEF Mem, Entries
  <2>3. Half(b) \in {0, 1, 3} /\ CardHalf(s, b) \in {0, 1, 3} /\ \A on : Aux(on) \in {0, 1, 3}
    BY DEF Half, CardHalf, Aux
  <2>4. r \in Places /\ \A shifted : CardPlace(r, shifted) \in Places
    BY DEF Regions, CardPlace, Places
  <2>5. \A c, aux : CopyTag(c, aux) \in Tags
    BY DEF CopyTag, Tags
  <2>6. RomAt(r) \in Entries /\ CardAt(r) \in Entries /\ Io \in Entries
    BY <2>4 DEF RomAt, CardAt, Io, Entries, Tags, Places
  <2>7. CardRd(s, b, r) \in Entries /\ CardWr(s, b, r) \in Entries
    <3>1. {"none", "readonly"} \subseteq Tags
      BY DEF Tags
    <3> QED BY <2>2, <2>3, <2>4, <2>6, <3>1 DEF CardRd, CardWr
  <2>8. r \in IoSpace => SlotRd(s, r) \in Entries
    BY <2>6 DEF SlotRd, IoSpace
  <2>9. "none" \in Tags /\ "d0" \in Places
    BY DEF Tags, Places, Regions
  <2>10. WantRd(s, p) \in Entries
    BY <2>1, <2>2, <2>3, <2>4, <2>6, <2>7, <2>8, <2>9 DEF WantRd
  <2>11. WantWr(s, p) \in Entries
    BY <2>1, <2>2, <2>3, <2>4, <2>5, <2>6, <2>7, <2>8, <2>9 DEF WantWr
  <2> QED BY <2>10, <2>11
<1> QED BY <1>1, <1>2, <1>3, PageOf

-----------------------------------------------------------------------------
(* Each fixup function writes what the switches want of some pages.         *)

PutRd(s, t, R) ==
  [t EXCEPT !.rd = [p \in Pages |-> IF p \in R THEN WantRd(s, p) ELSE @[p]], !.brkRd = @ \ R]
PutWr(s, t, W) ==
  [t EXCEPT !.wr = [p \in Pages |-> IF p \in W THEN WantWr(s, p) ELSE @[p]], !.brkWr = @ \ W]

LEMMA PutRdFixes ==
  ASSUME NEW s \in Switches, NEW t \in Tables, NEW R, NEW brks
  PROVE  Fixes(s, t, PutRd(s, t, R), R, {}, brks)
<1>1. [p \in Pages |-> IF p \in R THEN WantRd(s, p) ELSE t.rd[p]] \in [Pages -> Entries]
  BY WantTyped DEF Tables
<1> QED BY <1>1 DEF Fixes, PutRd, Tables

LEMMA PutWrFixes ==
  ASSUME NEW s \in Switches, NEW t \in Tables, NEW W, NEW brks
  PROVE  Fixes(s, t, PutWr(s, t, W), {}, W, brks)
<1>1. [p \in Pages |-> IF p \in W THEN WantWr(s, p) ELSE t.wr[p]] \in [Pages -> Entries]
  BY WantTyped DEF Tables
<1> QED BY <1>1 DEF Fixes, PutWr, Tables

LEMMA PutFixes ==
  ASSUME NEW s \in Switches, NEW t \in Tables, NEW R, NEW W, NEW brks
  PROVE  Fixes(s, t, PutWr(s, PutRd(s, t, R), W), R, W, brks)
<1>1. Fixes(s, t, PutRd(s, t, R), R, {}, brks)
  BY PutRdFixes
<1>2. Fixes(s, PutRd(s, t, R), PutWr(s, PutRd(s, t, R), W), {}, W, brks)
  <2>1. PutRd(s, t, R) \in Tables
    BY <1>1 DEF Fixes
  <2> QED BY <2>1, PutWrFixes
<1>3. R \cup {} = R /\ {} \cup W = W
  OBVIOUS
<1> QED BY <1>1, <1>2, <1>3, Composed

LEMMA MarkFixes ==
  ASSUME NEW s, NEW t \in Tables, NEW brks \in SUBSET Pages
  PROVE  Fixes(s, t, MarkBreaks(t, brks), {}, {}, brks)
  BY DEF Fixes, MarkBreaks, Tables

ZeroPages == Even \X {"zp"}
OtherPages == Even \X Others
Text1 == Even \X {"text1"}
Hires1 == Even \X {"hires1"}

LEMMA PagesIn ==
  ASSUME NEW b, NEW S, NEW p \in b \X S
  PROVE  p = <<p[1], p[2]>> /\ p[1] \in b /\ p[2] \in S
  OBVIOUS

LEMMA Text1Put ==
  ASSUME NEW s, NEW t \in Tables
  PROVE  FixText1(s, t) = PutWr(s, PutRd(s, t, Text1), Text1)
<1>1. \A p \in Text1 : WantRd(s, p) = Mem(p[1], IF (IF s.st80 THEN s.showPage2 ELSE s.ramrd) THEN 1 ELSE 0, p[2], "none")
  BY DEF Text1, WantRd, Odd, Debug, CardSpace, IoSpace, Even, Aux, RdAux
<1>2. \A p \in Text1 : WantWr(s, p) =
        Mem(p[1], IF (IF s.st80 THEN s.showPage2 ELSE s.ramwrt) THEN 1 ELSE 0, p[2],
            IF 0 \in s.inhibit /\ p[1] = "00" THEN "none"
            ELSE IF (IF s.st80 THEN s.showPage2 ELSE s.ramwrt) THEN "shadow2" ELSE "shadow")
  BY DEF Text1, WantWr, Odd, Debug, CardSpace, IoSpace, Even, Aux, WrAux, Copied, CopyTag, Fast
<1> QED
  BY <1>1, <1>2, ZenonT(40) DEF FixText1, SetRd, SetWr, PutRd, PutWr, Tables, Text1

LEMMA Hires1Put ==
  ASSUME NEW s, NEW t \in Tables
  PROVE  FixHires1(s, t) = PutWr(s, PutRd(s, t, Hires1), Hires1)
<1> DEFINE both == s.st80 /\ s.hires
           auxRd == IF both THEN s.showPage2 ELSE s.ramrd
           auxWr == IF both THEN s.showPage2 ELSE s.ramwrt
<1>1. \A p \in Hires1 : WantRd(s, p) = Mem(p[1], IF auxRd THEN 1 ELSE 0, p[2], "none")
  BY DEF Hires1, WantRd, Odd, Debug, CardSpace, IoSpace, Even, Aux, RdAux
<1>2. \A p \in Hires1 : WantWr(s, p) =
        Mem(p[1], IF auxWr THEN 1 ELSE 0, p[2],
            IF auxWr THEN (IF AuxHires(s, 1) \/ p[1] = "e0" THEN "shadow2" ELSE "none")
            ELSE IF 1 \notin s.inhibit \/ p[1] = "e0" THEN "shadow" ELSE "none")
  BY DEF Hires1, WantWr, Odd, Debug, CardSpace, IoSpace, Even, Aux, WrAux, Copied, CopyTag, Slow
<1> QED
  BY <1>1, <1>2, ZenonT(40) DEF FixHires1, SetRd, SetWr, PutRd, PutWr, Tables, Hires1

LEMMA AltzpPut ==
  ASSUME NEW s, NEW t \in Tables
  PROVE  FixAltzp(s, t) = PutWr(s, PutRd(s, t, ZeroPages), ZeroPages)
<1>1. \A p \in ZeroPages :
        /\ WantRd(s, p) = Mem(p[1], IF s.altzp THEN 1 ELSE 0, p[2], "none")
        /\ WantWr(s, p) = Mem(p[1], IF s.altzp THEN 1 ELSE 0, p[2], "none")
  BY DEF ZeroPages, WantRd, WantWr, Odd, Debug, CardSpace, IoSpace, Even, Aux, RdAux, WrAux,
         Copied, CopyTag
<1> QED
  BY <1>1 DEF FixAltzp, SetRd, SetWr, PutRd, PutWr, Tables, ZeroPages

LEMMA RamrdPut ==
  ASSUME NEW s, NEW t, FixDisplay(s, t) \in Tables
  PROVE  FixRamrd(s, t) = PutRd(s, FixDisplay(s, t), OtherPages)
<1>1. \A p \in OtherPages : WantRd(s, p) = Mem(p[1], IF s.ramrd THEN 1 ELSE 0, p[2], "none")
  BY DEF OtherPages, Others, WantRd, Odd, Debug, CardSpace, IoSpace, Even, Aux, RdAux
<1> HIDE DEF FixDisplay
<1> QED
  BY <1>1 DEF FixRamrd, SetRd, PutRd, Tables, OtherPages

LEMMA RamwrtPut ==
  ASSUME NEW s, NEW t, FixDisplay(s, t) \in Tables
  PROVE  FixRamwrt(s, t) = PutWr(s, FixDisplay(s, t), OtherPages)
<1> DEFINE aux == s.ramwrt
           Tag(b, r) ==
             CASE r = "plain"  -> "none"
               [] r = "text2"  -> IF ~Text2(s) /\ b = "00"
                                  THEN "none" ELSE (IF aux THEN "shadow2" ELSE "shadow")
               [] r = "hires2" -> IF aux THEN (IF AuxHires(s, 2) \/ b = "e0" THEN "shadow2" ELSE "none")
                                  ELSE (IF 2 \notin s.inhibit \/ b = "e0" THEN "shadow" ELSE "none")
               [] r = "shr"    -> (IF aux /\ (3 \notin s.inhibit \/ b = "e0") THEN "shadow2" ELSE "none")
<1>1. \A p \in OtherPages : WantWr(s, p) = Mem(p[1], IF aux THEN 1 ELSE 0, p[2], Tag(p[1], p[2]))
  BY DEF OtherPages, Others, WantWr, Odd, Debug, CardSpace, IoSpace, Even, Aux, WrAux,
         Copied, CopyTag, Slow
<1> HIDE DEF FixDisplay
<1> QED
  BY <1>1, ZenonT(40) DEF FixRamwrt, SetWr, PutWr, Tables, OtherPages

(* Bank 1 *)
LEMMA Bank1Put ==
  ASSUME NEW s, NEW t \in Tables, NEW r, NEW on,
         WantWr(s, <<"01", r>>) = Mem("01", 1, r, IF on THEN "shadow2" ELSE "none")
  PROVE  ShadowBank1(s, t, r, on) = PutWr(s, t, {<<"01", r>>})
<1>1. \A p \in {<<"01", r>>} : WantWr(s, p) = Mem(p[1], 1, p[2], IF on THEN "shadow2" ELSE "none")
  OBVIOUS
<1> QED
  BY <1>1 DEF ShadowBank1, SetWr, PutWr, Tables

LEMMA Bank1Wants ==
  ASSUME NEW s
  PROVE  /\ WantWr(s, <<"01", "text1">>) = Mem("01", 1, "text1", IF 0 \notin s.inhibit THEN "shadow2" ELSE "none")
         /\ WantWr(s, <<"01", "text2">>) = Mem("01", 1, "text2", IF Text2(s) THEN "shadow2" ELSE "none")
         /\ WantWr(s, <<"01", "hires1">>) = Mem("01", 1, "hires1", IF AuxHires(s, 1) THEN "shadow2" ELSE "none")
         /\ WantWr(s, <<"01", "hires2">>) = Mem("01", 1, "hires2", IF AuxHires(s, 2) THEN "shadow2" ELSE "none")
         /\ WantWr(s, <<"01", "shr">>) = Mem("01", 1, "shr", IF 3 \notin s.inhibit THEN "shadow2" ELSE "none")
  BY DEF WantWr, Odd, Debug, CardSpace, IoSpace, Even, Aux, Copied, CopyTag, Slow, Fast

LEMMA Bank0Wants ==
  ASSUME NEW s
  PROVE  /\ WantWr(s, <<"00", "text2">>) =
              Mem("00", IF s.ramwrt THEN 1 ELSE 0, "text2",
                  IF ~Text2(s) THEN "none" ELSE IF s.ramwrt THEN "shadow2" ELSE "shadow")
         /\ WantWr(s, <<"00", "hires2">>) =
              (IF s.ramwrt THEN Mem("00", 1, "hires2", IF AuxHires(s, 2) THEN "shadow2" ELSE "none")
               ELSE Mem("00", 0, "hires2", IF 2 \notin s.inhibit THEN "shadow" ELSE "none"))
         /\ WantWr(s, <<"00", "shr">>) =
              Mem("00", IF s.ramwrt THEN 1 ELSE 0, "shr",
                  IF s.ramwrt /\ 3 \notin s.inhibit THEN "shadow2" ELSE "none")
  BY DEF WantWr, Odd, Debug, CardSpace, IoSpace, Even, Aux, WrAux, Copied, CopyTag, Slow

(* $C000-$FFFF *)
Slots0(s) == {b \in Banks : ~Inhibited(s, b)} \X IoSpace

LEMMA IntcxPut ==
  ASSUME NEW s, NEW t \in Tables, NEW brks
  PROVE  FixIntcx(s, t, brks) = MarkBreaks(PutWr(s, PutRd(s, t, Slots0(s)), Slots0(s)), brks)
<1> DEFINE Slot == [c3 |-> 3, c4 |-> 4, c7 |-> 7]
           E(b, r) ==
            CASE r = "c0" -> Io
              [] r = "c3" /\ ~s.intc8 -> Io
              [] r \in DOMAIN Slot /\ (Slot[r] \notin s.card \/ s.intcx) /\ (r = "c3" => s.intc8) -> RomAt(r)
              [] r = "c4" /\ 4 \in s.card /\ ~s.intcx -> Io
              [] r \in {"c3", "c7"} /\ Slot[r] \in s.card /\ ~s.intcx /\ (r = "c3" => s.intc8) -> CardAt(r)
              [] r = "c8" -> (IF s.intcx \/ s.intc8 THEN RomAt(r) ELSE Io)
              [] r = "cf" -> (IF s.intcx /\ ~s.intc8 THEN RomAt(r) ELSE Io)
<1>1. \A p \in Slots0(s) : WantRd(s, p) = SlotRd(s, p[2]) /\ WantWr(s, p) = Io
  BY DEF Slots0, WantRd, WantWr, Odd, Debug, CardSpace, IoSpace, Banks, Fast, Slow
<1>2. \A b : \A r \in IoSpace : E(b, r) = SlotRd(s, r)
  <2>1. DOMAIN Slot = {"c3", "c4", "c7"} /\ Slot["c3"] = 3 /\ Slot["c4"] = 4 /\ Slot["c7"] = 7
    OBVIOUS
  <2> HIDE DEF Slot
  <2> QED BY <2>1 DEF IoSpace, SlotRd
<1>3. \A p \in Slots0(s) : WantRd(s, p) = E(p[1], p[2]) /\ WantWr(s, p) = Io
  <2> HIDE DEF E
  <2> QED BY <1>1, <1>2 DEF Slots0
<1> QED
  BY <1>3, ZenonT(40) DEF FixIntcx, SetRd, SetWr, PutRd, PutWr, Tables, Slots0, IoSpace

LcPages == Banks \X CardSpace
LEMMA LcPut ==
  ASSUME NEW s, NEW t \in Tables
  PROVE  FixLc(s, t) = PutWr(s, PutRd(s, t, LcPages), LcPages)
<1> DEFINE H(b) == IF b \in Even /\ s.altzp THEN 1 ELSE Half(b)
           second(b) == s.lcbank2 /\ ~Inhibited(s, b)
           rom(b) == s.rdrom /\ ~Inhibited(s, b)
           Place(r, shifted) == IF r = "d0" /\ shifted THEN "c0" ELSE r
<1>1. \A p \in LcPages : WantRd(s, p) = CardRd(s, p[1], p[2]) /\ WantWr(s, p) = CardWr(s, p[1], p[2])
  BY DEF LcPages, WantRd, WantWr, Odd, Debug, CardSpace, Banks, Fast, Slow
<1>2. \A b, r : /\ CardRd(s, b, r) = IF b \in Fast /\ rom(b) THEN RomAt(r)
                                     ELSE Mem(b, H(b), Place(r, ~second(b) /\ ~rom(b)), "none")
                /\ CardWr(s, b, r) = Mem(b, H(b), Place(r, ~second(b)),
                     (IF b \in Fast /\ ~s.wrdefram /\ ~Inhibited(s, b) THEN "readonly" ELSE "none"))
  BY DEF CardRd, CardWr, CardHalf, CardPlace
<1>3. \A p \in LcPages :
        /\ WantRd(s, p) = IF p[1] \in Fast /\ rom(p[1]) THEN RomAt(p[2])
                          ELSE Mem(p[1], H(p[1]), Place(p[2], ~second(p[1]) /\ ~rom(p[1])), "none")
        /\ WantWr(s, p) = Mem(p[1], H(p[1]), Place(p[2], ~second(p[1])),
             (IF p[1] \in Fast /\ ~s.wrdefram /\ ~Inhibited(s, p[1]) THEN "readonly" ELSE "none"))
  BY <1>1, <1>2
<1> QED
  BY <1>3 DEF FixLc, SetRd, SetWr, PutRd, PutWr, Tables, LcPages, CardSpace

InhibitedPages == Fast \X (IoSpace \cup CardSpace)
LEMMA InhibitedWants ==
  ASSUME NEW s, 6 \in s.inhibit, NEW p \in InhibitedPages
  PROVE  LET half == IF p[2] \in {"d0", "e0"} /\ p[1] = "00" /\ s.altzp THEN 1 ELSE Half(p[1])
             e == Mem(p[1], half, CASE p[2] = "d0" -> "c0" [] p[2] = "e0" -> "e0" [] OTHER -> "d0", "none")
         IN  WantRd(s, p) = e /\ WantWr(s, p) = e
<1>1. p # Odd /\ p # Debug /\ Inhibited(s, p[1])
  BY DEF InhibitedPages, Odd, Debug, Fast, Inhibited
<1>2. CASE p[2] \in CardSpace
  <2>1. p[1] = "00" <=> p[1] \in Even
    BY DEF InhibitedPages, Fast, Even
  <2> QED BY <1>1, <1>2, <2>1 DEF WantRd, WantWr, CardRd, CardWr, CardHalf, CardPlace, CardSpace
<1>3. CASE p[2] \in IoSpace
  BY <1>1, <1>3 DEF WantRd, WantWr, CardSpace, IoSpace
<1> QED BY <1>2, <1>3 DEF InhibitedPages

-----------------------------------------------------------------------------
(* What each of them fixes *)

LEMMA NothingFixes ==
  ASSUME NEW s, NEW t \in Tables, NEW brks
  PROVE  Fixes(s, t, t, {}, {}, brks)
  BY DEF Fixes, Tables

(* The second of two fixups has tables to work on.                          *)
LEMMA FixesTables ==
  ASSUME NEW s, NEW t, NEW u, NEW R, NEW W, NEW brks, Fixes(s, t, u, R, W, brks)
  PROVE  u \in Tables
  BY DEF Fixes

LEMMA MarkedFixes ==
  ASSUME NEW s, NEW t, NEW u, NEW R, NEW W, NEW brks \in SUBSET Pages, Fixes(s, t, u, R, W, brks)
  PROVE  Fixes(s, t, MarkBreaks(u, brks), R, W, brks)
<1>1. Fixes(s, u, MarkBreaks(u, brks), {}, {}, brks)
  BY FixesTables, MarkFixes
<1>2. R \cup {} = R /\ W \cup {} = W
  OBVIOUS
<1> QED BY <1>1, <1>2, Composed

LEMMA Text1Fixes ==
  ASSUME NEW s \in Switches, NEW t \in Tables, NEW brks
  PROVE  Fixes(s, t, FixText1(s, t), Text1, Text1, brks)
  BY PutFixes, Text1Put

LEMMA Hires1Fixes ==
  ASSUME NEW s \in Switches, NEW t \in Tables, NEW brks
  PROVE  Fixes(s, t, FixHires1(s, t), Hires1, Hires1, brks)
  BY PutFixes, Hires1Put

LEMMA AltzpFixes ==
  ASSUME NEW s \in Switches, NEW t \in Tables, NEW brks
  PROVE  Fixes(s, t, FixAltzp(s, t), ZeroPages, ZeroPages, brks)
  BY PutFixes, AltzpPut

LEMMA LcFixes ==
  ASSUME NEW s \in Switches, NEW t \in Tables, NEW brks
  PROVE  Fixes(s, t, FixLc(s, t), LcPages, LcPages, brks)
  BY PutFixes, LcPut

LEMMA IntcxFixes ==
  ASSUME NEW s \in Switches, NEW t \in Tables, NEW brks \in SUBSET Pages
  PROVE  Fixes(s, t, FixIntcx(s, t, brks), Slots0(s), Slots0(s), brks)
<1>1. Fixes(s, t, PutWr(s, PutRd(s, t, Slots0(s)), Slots0(s)), Slots0(s), Slots0(s), brks)
  BY PutFixes
<1> QED BY <1>1, MarkedFixes, IntcxPut

(* The display pages that 80STORE leaves to RAMRD and RAMWRT.               *)
DisplayPages(s) ==
  (IF s.st80 THEN {} ELSE Text1) \cup (IF s.st80 /\ s.hires THEN {} ELSE Hires1)

LEMMA DisplayFixes ==
  ASSUME NEW s \in Switches, NEW t \in Tables, NEW brks
  PROVE  Fixes(s, t, FixDisplay(s, t), DisplayPages(s), DisplayPages(s), brks)
<1> DEFINE u == IF s.st80 THEN t ELSE FixText1(s, t)
           v == IF s.st80 /\ s.hires THEN u ELSE FixHires1(s, u)
           A == IF s.st80 THEN {} ELSE Text1
           B == IF s.st80 /\ s.hires THEN {} ELSE Hires1
<1>1. Fixes(s, t, u, A, A, brks)
  BY NothingFixes, Text1Fixes
<1>2. u \in Tables
  BY <1>1, FixesTables
<1>3. Fixes(s, u, v, B, B, brks)
  <2> HIDE DEF u
  <2> QED BY <1>2, NothingFixes, Hires1Fixes
<1>4. v = FixDisplay(s, t)
  BY DEF FixDisplay
<1> HIDE DEF u, v, A, B
<1>5. Fixes(s, t, v, A \cup B, A \cup B, brks)
  BY <1>1, <1>3, Composed
<1>6. A \cup B = DisplayPages(s)
  BY DEF A, B, DisplayPages
<1> QED BY <1>4, <1>5, <1>6

LEMMA RamrdFixes ==
  ASSUME NEW s \in Switches, NEW t \in Tables, NEW brks
  PROVE  Fixes(s, t, FixRamrd(s, t), DisplayPages(s) \cup OtherPages, DisplayPages(s), brks)
<1> DEFINE u == FixDisplay(s, t)
<1>1. Fixes(s, t, u, DisplayPages(s), DisplayPages(s), brks)
  BY DisplayFixes
<1>2. u \in Tables
  BY <1>1, FixesTables
<1>3. FixRamrd(s, t) = PutRd(s, u, OtherPages)
  BY <1>2, RamrdPut
<1> HIDE DEF u
<1>4. Fixes(s, u, FixRamrd(s, t), OtherPages, {}, brks)
  BY <1>2, <1>3, PutRdFixes
<1>5. DisplayPages(s) \cup {} = DisplayPages(s)
  OBVIOUS
<1> QED BY <1>1, <1>4, <1>5, Composed

LEMMA RamwrtFixes ==
  ASSUME NEW s \in Switches, NEW t \in Tables, NEW brks
  PROVE  Fixes(s, t, FixRamwrt(s, t), DisplayPages(s), DisplayPages(s) \cup OtherPages, brks)
<1> DEFINE u == FixDisplay(s, t)
<1>1. Fixes(s, t, u, DisplayPages(s), DisplayPages(s), brks)
  BY DisplayFixes
<1>2. u \in Tables
  BY <1>1, FixesTables
<1>3. FixRamwrt(s, t) = PutWr(s, u, OtherPages)
  BY <1>2, RamwrtPut
<1> HIDE DEF u
<1>4. Fixes(s, u, FixRamwrt(s, t), {}, OtherPages, brks)
  BY <1>2, <1>3, PutWrFixes
<1>5. DisplayPages(s) \cup {} = DisplayPages(s)
  OBVIOUS
<1> QED BY <1>1, <1>4, <1>5, Composed

(* The pages that PAGE2 switches.                                           *)
StorePages(s) == Text1 \cup (IF s.hires THEN Hires1 ELSE {})

LEMMA StoreFixes ==
  ASSUME NEW s \in Switches, NEW t \in Tables, NEW brks
  PROVE  Fixes(s, t, IF s.hires THEN FixHires1(s, FixText1(s, t)) ELSE FixText1(s, t),
               StorePages(s), StorePages(s), brks)
<1> DEFINE u == FixText1(s, t)
           B == IF s.hires THEN Hires1 ELSE {}
           v == IF s.hires THEN FixHires1(s, u) ELSE u
<1>1. Fixes(s, t, u, Text1, Text1, brks)
  BY Text1Fixes
<1>2. u \in Tables
  BY <1>1, FixesTables
<1> HIDE DEF u
<1>3. Fixes(s, u, v, B, B, brks)
  BY <1>2, NothingFixes, Hires1Fixes
<1> HIDE DEF B, v
<1>4. Fixes(s, t, v, Text1 \cup B, Text1 \cup B, brks)
  BY <1>1, <1>3, Composed
<1> QED BY <1>4 DEF v, u, B, StorePages

LEMMA Page2Fixes ==
  ASSUME NEW s \in Switches, NEW t \in Tables, NEW brks
  PROVE  LET P == IF s.st80 THEN StorePages(s) ELSE {}
         IN  Fixes(s, t, FixPage2(s, t), P, P, brks)
<1>1. CASE s.st80
  <2>1. FixPage2(s, t) = IF s.hires THEN FixHires1(s, FixText1(s, t)) ELSE FixText1(s, t)
    BY <1>1 DEF FixPage2
  <2> QED BY <1>1, <2>1, StoreFixes
<1>2. CASE ~s.st80
  <2>1. FixPage2(s, t) = t
    BY <1>2 DEF FixPage2
  <2> QED BY <1>2, <2>1, NothingFixes
<1> QED BY <1>1, <1>2

LEMMA St80Fixes ==
  ASSUME NEW s \in Switches, NEW t \in Tables, NEW brks \in SUBSET Pages
  PROVE  Fixes(s, t, FixSt80(s, t, brks), StorePages(s), StorePages(s), brks)
  BY StoreFixes, MarkedFixes DEF FixSt80

LEMMA HiresOnFixes ==
  ASSUME NEW s \in Switches, NEW t \in Tables, NEW brks \in SUBSET Pages
  PROVE  LET P == IF s.st80 THEN Hires1 ELSE {}
         IN  Fixes(s, t, FixHiresOn(s, t, brks), P, P, brks)
<1>1. CASE s.st80
  BY <1>1, Hires1Fixes, MarkedFixes DEF FixHiresOn
<1>2. CASE ~s.st80
  BY <1>2, NothingFixes DEF FixHiresOn
<1> QED BY <1>1, <1>2

-----------------------------------------------------------------------------
(* $C035 *)

Bank1(r) == {<<"01", r>>}

LEMMA Bank1Fixes ==
  ASSUME NEW s \in Switches, NEW t \in Tables, NEW r, NEW on, NEW brks,
         WantWr(s, <<"01", r>>) = Mem("01", 1, r, IF on THEN "shadow2" ELSE "none")
  PROVE  Fixes(s, t, ShadowBank1(s, t, r, on), {}, Bank1(r), brks)
  BY Bank1Put, PutWrFixes DEF Bank1

LEMMA ShadowText1Fixes ==
  ASSUME NEW s \in Switches, NEW t \in Tables, NEW brks
  PROVE  Fixes(s, t, ShadowText1(s, t), Text1, Text1 \cup Bank1("text1"), brks)
<1> DEFINE u == FixText1(s, t)
<1>1. Fixes(s, t, u, Text1, Text1, brks)
  BY Text1Fixes
<1>2. u \in Tables
  BY <1>1, FixesTables
<1>3. ShadowText1(s, t) = ShadowBank1(s, u, "text1", 0 \notin s.inhibit)
  BY DEF ShadowText1
<1> HIDE DEF u
<1>4. Fixes(s, u, ShadowText1(s, t), {}, Bank1("text1"), brks)
  BY <1>2, <1>3, Bank1Fixes, Bank1Wants
<1>5. Text1 \cup {} = Text1
  OBVIOUS
<1> QED BY <1>1, <1>4, <1>5, Composed

LEMMA ShadowHires1Fixes ==
  ASSUME NEW s \in Switches, NEW t \in Tables, NEW brks
  PROVE  Fixes(s, t, ShadowHires1(s, t), Hires1, Hires1 \cup Bank1("hires1"), brks)
<1> DEFINE u == FixHires1(s, t)
<1>1. Fixes(s, t, u, Hires1, Hires1, brks)
  BY Hires1Fixes
<1>2. u \in Tables
  BY <1>1, FixesTables
<1>3. ShadowHires1(s, t) = ShadowBank1(s, u, "hires1", AuxHires(s, 1))
  BY DEF ShadowHires1
<1> HIDE DEF u
<1>4. Fixes(s, u, ShadowHires1(s, t), {}, Bank1("hires1"), brks)
  BY <1>2, <1>3, Bank1Fixes, Bank1Wants
<1>5. Hires1 \cup {} = Hires1
  OBVIOUS
<1> QED BY <1>1, <1>4, <1>5, Composed

(* Bank 0's writes, then bank 1's, of a region that only RAMWRT switches.   *)
Both(r) == {<<"00", r>>} \cup Bank1(r)

LEMMA BothFixes ==
  ASSUME NEW s \in Switches, NEW t \in Tables, NEW brks, NEW r, NEW on, NEW u,
         u = PutWr(s, t, {<<"00", r>>}),
         WantWr(s, <<"01", r>>) = Mem("01", 1, r, IF on THEN "shadow2" ELSE "none")
  PROVE  Fixes(s, t, ShadowBank1(s, u, r, on), {}, Both(r), brks)
<1>1. Fixes(s, t, u, {}, {<<"00", r>>}, brks)
  BY PutWrFixes
<1>2. u \in Tables
  BY <1>1, FixesTables
<1>3. Fixes(s, u, ShadowBank1(s, u, r, on), {}, Bank1(r), brks)
  BY <1>2, Bank1Fixes
<1>4. {} \cup {} = {}
  OBVIOUS
<1>5. Fixes(s, t, ShadowBank1(s, u, r, on), {} \cup {}, {<<"00", r>>} \cup Bank1(r), brks)
  BY <1>1, <1>3, Composed
<1> QED BY <1>4, <1>5 DEF Both

LEMMA ShadowText2Fixes ==
  ASSUME NEW s \in Switches, NEW t \in Tables, NEW brks
  PROVE  Fixes(s, t, ShadowText2(s, t), {}, Both("text2"), brks)
<1> DEFINE u == SetWr(t, {<<"00", "text2">>},
                      LAMBDA b, r : Mem(b, IF s.ramwrt THEN 1 ELSE 0, r,
                        IF ~Text2(s) THEN "none" ELSE IF s.ramwrt THEN "shadow2" ELSE "shadow"))
<1>1. u = PutWr(s, t, {<<"00", "text2">>})
  <2>1. \A p \in {<<"00", "text2">>} :
          WantWr(s, p) = Mem(p[1], IF s.ramwrt THEN 1 ELSE 0, p[2],
                             IF ~Text2(s) THEN "none" ELSE IF s.ramwrt THEN "shadow2" ELSE "shadow")
    BY Bank0Wants
  <2> QED BY <2>1 DEF SetWr, PutWr, Tables
<1>2. ShadowText2(s, t) = ShadowBank1(s, u, "text2", Text2(s))
  BY DEF ShadowText2
<1> HIDE DEF u
<1> QED BY <1>1, <1>2, Bank1Wants, BothFixes

LEMMA ShadowHires2Fixes ==
  ASSUME NEW s \in Switches, NEW t \in Tables, NEW brks
  PROVE  Fixes(s, t, ShadowHires2(s, t), {}, Both("hires2"), brks)
<1> DEFINE u == SetWr(t, {<<"00", "hires2">>},
                      LAMBDA b, r : IF s.ramwrt
                                    THEN Mem(b, 1, r, (IF AuxHires(s, 2) THEN "shadow2" ELSE "none"))
                                    ELSE Mem(b, 0, r, IF 2 \notin s.inhibit THEN "shadow" ELSE "none"))
<1>1. u = PutWr(s, t, {<<"00", "hires2">>})
  <2>1. \A p \in {<<"00", "hires2">>} :
          WantWr(s, p) = IF s.ramwrt
                         THEN Mem(p[1], 1, p[2], (IF AuxHires(s, 2) THEN "shadow2" ELSE "none"))
                         ELSE Mem(p[1], 0, p[2], IF 2 \notin s.inhibit THEN "shadow" ELSE "none")
    BY Bank0Wants
  <2> QED BY <2>1 DEF SetWr, PutWr, Tables
<1>2. ShadowHires2(s, t) = ShadowBank1(s, u, "hires2", AuxHires(s, 2))
  BY DEF ShadowHires2
<1> HIDE DEF u
<1> QED BY <1>1, <1>2, Bank1Wants, BothFixes

LEMMA ShadowShrFixes ==
  ASSUME NEW s \in Switches, NEW t \in Tables, NEW brks
  PROVE  Fixes(s, t, ShadowShr(s, t), {}, Both("shr"), brks)
<1> DEFINE u == SetWr(t, {<<"00", "shr">>},
                      LAMBDA b, r : Mem(b, IF s.ramwrt THEN 1 ELSE 0, r,
                                        IF s.ramwrt /\ 3 \notin s.inhibit THEN "shadow2" ELSE "none"))
<1>1. u = PutWr(s, t, {<<"00", "shr">>})
  <2>1. \A p \in {<<"00", "shr">>} :
          WantWr(s, p) = Mem(p[1], IF s.ramwrt THEN 1 ELSE 0, p[2],
                             IF s.ramwrt /\ 3 \notin s.inhibit THEN "shadow2" ELSE "none")
    BY Bank0Wants
  <2> QED BY <2>1 DEF SetWr, PutWr, Tables
<1>2. ShadowShr(s, t) = ShadowBank1(s, u, "shr", 3 \notin s.inhibit)
  BY DEF ShadowShr
<1> HIDE DEF u
<1> QED BY <1>1, <1>2, Bank1Wants, BothFixes

(* What $C000-$FFFF of which banks is renewed when I/O is (un)inhibited.    *)
IolcPages(s) == (IF 6 \notin s.inhibit THEN Banks ELSE Fast) \X (IoSpace \cup CardSpace)

LEMMA ShadowIolcFixes ==
  ASSUME NEW s \in Switches, NEW t \in Tables, NEW brks \in SUBSET Pages
  PROVE  Fixes(s, t, ShadowIolc(s, t, brks), IolcPages(s), IolcPages(s), brks)
<1>1. CASE 6 \notin s.inhibit
  <2> DEFINE u == FixIntcx(s, t, brks)
  <2>1. Fixes(s, t, u, Slots0(s), Slots0(s), brks)
    BY IntcxFixes
  <2>2. u \in Tables
    BY <2>1, FixesTables
  <2> HIDE DEF u
  <2>3. Fixes(s, u, FixLc(s, u), LcPages, LcPages, brks)
    BY <2>2, LcFixes
  <2>4. Slots0(s) \cup LcPages = IolcPages(s)
    BY <1>1 DEF Slots0, LcPages, IolcPages, Inhibited
  <2>5. ShadowIolc(s, t, brks) = FixLc(s, u)
    BY <1>1 DEF ShadowIolc, u
  <2>6. Fixes(s, t, FixLc(s, u), Slots0(s) \cup LcPages, Slots0(s) \cup LcPages, brks)
    BY <2>1, <2>3, Composed
  <2> QED BY <2>4, <2>5, <2>6
<1>2. CASE 6 \in s.inhibit
  <2> DEFINE H(b, r) == IF r \in {"d0", "e0"} /\ b = "00" /\ s.altzp THEN 1 ELSE Half(b)
             E(b, r) == Mem(b, H(b, r), CASE r = "d0" -> "c0" [] r = "e0" -> "e0" [] OTHER -> "d0", "none")
  <2>1. \A p \in InhibitedPages : WantRd(s, p) = E(p[1], p[2]) /\ WantWr(s, p) = E(p[1], p[2])
    BY <1>2, InhibitedWants
  <2>2. InhibitedPages = Fast \X {"c0", "c3", "c4", "c7", "c8", "cf", "d0", "e0"}
    BY DEF InhibitedPages, IoSpace, CardSpace
  <2>3. ShadowIolc(s, t, brks) = SetWr(SetRd(t, InhibitedPages, E), InhibitedPages, E)
    BY <1>2, <2>2 DEF ShadowIolc
  <2> HIDE DEF E
  <2>4. SetWr(SetRd(t, InhibitedPages, E), InhibitedPages, E)
          = PutWr(s, PutRd(s, t, InhibitedPages), InhibitedPages)
    BY <2>1 DEF SetRd, SetWr, PutRd, PutWr, Tables
  <2>5. IolcPages(s) = InhibitedPages
    BY <1>2 DEF IolcPages, InhibitedPages
  <2> QED BY <2>3, <2>4, <2>5, PutFixes
<1> QED BY <1>1, <1>2

LEMMA AllBanksFixes ==
  ASSUME NEW s \in Switches, NEW t \in Tables, NEW brks \in SUBSET Pages
  PROVE  Fixes(s, t, ShadowAllBanks(s, t, brks), {}, {Odd}, brks)
<1> DEFINE u == SetWr(t, {Odd},
                 LAMBDA b, r : [area |-> "fast", half |-> 3, place |-> r,
                              tag |-> (IF s.allBanks /\ 3 \notin s.inhibit THEN "shadow2" ELSE "none")])
<1>1. u = PutWr(s, t, {Odd})
  <2>1. \A p \in {Odd} : WantWr(s, p) = [area |-> "fast", half |-> 3, place |-> p[2],
                  tag |-> (IF s.allBanks /\ 3 \notin s.inhibit THEN "shadow2" ELSE "none")]
    BY DEF WantWr, OddAt, Odd
  <2> QED BY <2>1 DEF SetWr, PutWr, Tables
<1>2. Fixes(s, t, u, {}, {Odd}, brks)
  BY <1>1, PutWrFixes
<1> HIDE DEF u
<1> QED BY <1>2, MarkedFixes DEF ShadowAllBanks, u

LEMMA DebugFixes ==
  ASSUME NEW s \in Switches, NEW t \in Tables, NEW brks
  PROVE  Fixes(s, t, DebugBuffer(t), {Debug}, {Debug}, brks)
<1>1. \A p \in {Debug} :
        /\ WantRd(s, p) = [area |-> "debug", half |-> 0, place |-> p[2], tag |-> "none"]
        /\ WantWr(s, p) = [area |-> "debug", half |-> 0, place |-> p[2], tag |-> "none"]
  BY DEF WantRd, WantWr, DebugAt, Odd, Debug
<1>2. DebugBuffer(t) = PutWr(s, PutRd(s, t, {Debug}), {Debug})
  BY <1>1 DEF DebugBuffer, SetRd, SetWr, PutRd, PutWr, Tables
<1> QED BY <1>2, PutFixes

-----------------------------------------------------------------------------
(* All tables anew *)

BlankRd(p) == IF p = Odd THEN OddAt("none")
              ELSE IF p = Debug THEN Io ELSE Mem(p[1], Half(p[1]), p[2], "none")
ScreenRegions == {"text1", "text2", "hires1", "hires2", "shr"}
BlankWr(p) == IF p[2] \notin ScreenRegions \/ p[1] \notin Slow THEN BlankRd(p)
              ELSE [BlankRd(p) EXCEPT !.tag = IF p[1] = "e0" THEN "shadow" ELSE "shadow2"]

LEMMA BlankTables ==
  /\ Blank \in Tables /\ Blank.brkRd = {} /\ Blank.brkWr = {}
  /\ \A p \in Pages : Blank.rd[p] = BlankRd(p) /\ Blank.wr[p] = BlankWr(p)
<1>1. \A p \in Pages : <<p[1], p[2]>> = p
  BY PageOf DEF Odd, Debug
<1>2. \A p \in Pages : BlankRd(p) \in Entries /\ BlankWr(p) \in Entries
  <2> SUFFICES ASSUME NEW p \in Pages PROVE BlankRd(p) \in Entries /\ BlankWr(p) \in Entries
    OBVIOUS
  <2>1. OddAt("none") \in Entries /\ Io \in Entries
    BY DEF OddAt, Io, Entries, Tags, Places
  <2>2. p # Odd /\ p # Debug => /\ Mem(p[1], Half(p[1]), p[2], "none") \in Entries
                                /\ p[2] \in Regions
    <3>1. p # Odd /\ p # Debug => p[2] \in Regions
      BY PageOf
    <3> QED BY <3>1 DEF Mem, Half, Entries, Tags, Places
  <2>3. \A e \in Entries : [e EXCEPT !.tag = IF p[1] = "e0" THEN "shadow" ELSE "shadow2"] \in Entries
    BY DEF Entries, Tags
  <2>4. BlankRd(p) \in Entries
    BY <2>1, <2>2 DEF BlankRd
  <2> QED BY <2>3, <2>4 DEF BlankWr
<1>3. Blank = [rd |-> [p \in Pages |-> BlankRd(p)], wr |-> [p \in Pages |-> BlankWr(p)],
               brkRd |-> {}, brkWr |-> {}]
  BY <1>1 DEF Blank, BlankRd, BlankWr, OddAt, Odd, ScreenRegions
<1> QED BY <1>2, <1>3 DEF Tables

(* Of these pages setup_pageinfo renews the reads and the writes; Blank has *)
(* the others' entries already.                                             *)
SetupRd(s) == {Debug} \cup Slots0(s) \cup LcPages \cup IolcPages(s) \cup Hires1 \cup Text1 \cup ZeroPages
              \cup OtherPages
Bank1Pages == {<<"01", r>> : r \in ScreenRegions}
SetupWr(s) == SetupRd(s) \cup {Odd} \cup Bank1Pages

(* The pages left as they were at first are as wanted.                      *)
LEMMA BlankWanted ==
  ASSUME NEW s \in Switches, NEW p \in Pages
  PROVE  /\ p \notin SetupRd(s) => BlankRd(p) = WantRd(s, p)
         /\ p \notin SetupWr(s) => BlankWr(p) = WantWr(s, p)
<1>1. CASE p = Odd
  BY <1>1 DEF BlankRd, WantRd, SetupWr
<1>2. CASE p = Debug
  BY <1>2 DEF SetupRd, SetupWr
<1>3. CASE p \in Banks \X Regions
  <2>1. /\ p = <<p[1], p[2]>> /\ p[1] \in Banks /\ p[2] \in Regions /\ p # Odd /\ p # Debug
    BY <1>3, PageOf DEF Odd, Debug, Banks, Fast, Slow
  <2>2. CASE p[2] \in IoSpace \cup CardSpace
    <3>1. p \in Slots0(s) \/ p \in LcPages \/ p \in IolcPages(s)
      BY <2>1, <2>2 DEF Slots0, LcPages, IolcPages, Inhibited
    <3> QED BY <3>1 DEF SetupRd, SetupWr
  <2>3. CASE p[2] \notin IoSpace \cup CardSpace
    <3>1. p[2] \in {"zp", "text1", "hires1"} \cup Others
      BY <2>1, <2>3 DEF Regions, Others, IoSpace, CardSpace
    <3>2. CASE p[1] \in Even
      <4>1. p \in ZeroPages \/ p \in Text1 \/ p \in Hires1 \/ p \in OtherPages
        BY <2>1, <3>1, <3>2 DEF ZeroPages, Text1, Hires1, OtherPages
      <4> QED BY <4>1 DEF SetupRd, SetupWr
    <3>3. CASE p[1] \notin Even
      <4>1. BlankRd(p) = Mem(p[1], 1, p[2], "none") /\ WantRd(s, p) = Mem(p[1], 1, p[2], "none")
        BY <2>1, <2>3, <3>3 DEF BlankRd, WantRd, Half
      <4>2. WantWr(s, p) = Mem(p[1], 1, p[2], CopyTag(Copied(s, p[1], p[2], TRUE), TRUE))
        BY <2>1, <2>3, <3>3 DEF WantWr, Aux
      <4>3. ASSUME p \notin SetupWr(s) PROVE BlankWr(p) = WantWr(s, p)
        <5>1. CASE p[2] \in ScreenRegions
          <6>1. p[1] = "e1"
            BY <2>1, <3>3, <4>3, <5>1 DEF SetupWr, Bank1Pages, Banks, Fast, Slow, Even
          <6>2. Copied(s, p[1], p[2], TRUE)
            BY <5>1, <6>1 DEF Copied, ScreenRegions, Slow, Fast
          <6>3. WantWr(s, p) = Mem(p[1], 1, p[2], "shadow2")
            BY <4>2, <6>2 DEF CopyTag
          <6>4. BlankWr(p) = [Mem(p[1], 1, p[2], "none") EXCEPT !.tag = "shadow2"]
            BY <4>1, <5>1, <6>1 DEF BlankWr, Slow
          <6> QED BY <6>3, <6>4 DEF Mem
        <5>2. CASE p[2] \notin ScreenRegions
          <6>1. ~Copied(s, p[1], p[2], TRUE)
            BY <5>2 DEF Copied, ScreenRegions
          <6> QED BY <4>1, <4>2, <5>2, <6>1 DEF CopyTag, BlankWr
        <5> QED BY <5>1, <5>2
      <4> QED BY <4>1, <4>3
    <3> QED BY <3>2, <3>3
  <2> QED BY <2>2, <2>3
<1> QED BY <1>1, <1>2, <1>3 DEF Pages

(* The fourteen fixups of setup_pageinfo, one after the other               *)
LEMMA SetupFixes ==
  ASSUME NEW s \in Switches, NEW brks \in SUBSET Pages
  PROVE  /\ Fixes(s, Blank, Setup(s, brks), SetupRd(s), SetupWr(s), brks)
         /\ Setup(s, brks).brkRd = brks \ {Debug} /\ Setup(s, brks).brkWr = brks \ {Debug}
<1> DEFINE a1 == ShadowAllBanks(s, Blank, brks)
           a2 == FixIntcx(s, a1, brks)
           a3 == FixLc(s, a2)
           a4 == FixHires1(s, a3)
           a5 == FixText1(s, a4)
           a6 == FixAltzp(s, a5)
           a7 == FixRamrd(s, a6)
           a8 == FixRamwrt(s, a7)
           a9 == ShadowText1(s, a8)
           a10 == ShadowText2(s, a9)
           a11 == ShadowHires1(s, a10)
           a12 == ShadowHires2(s, a11)
           a13 == ShadowShr(s, a12)
           a14 == ShadowIolc(s, a13, brks)
           a15 == MarkBreaks(a14, brks)
           a16 == DebugBuffer(a15)
<1>0. Setup(s, brks) = a16
  BY DEF Setup
<1>1. Fixes(s, Blank, a1, {}, {Odd}, brks)
  BY BlankTables, AllBanksFixes
<1> HIDE DEF a1
<1>2. Fixes(s, a1, a2, Slots0(s), Slots0(s), brks)
  BY <1>1, FixesTables, IntcxFixes
<1> HIDE DEF a2
<1>3. Fixes(s, a2, a3, LcPages, LcPages, brks)
  BY <1>2, FixesTables, LcFixes
<1> HIDE DEF a3
<1>4. Fixes(s, a3, a4, Hires1, Hires1, brks)
  BY <1>3, FixesTables, Hires1Fixes
<1> HIDE DEF a4
<1>5. Fixes(s, a4, a5, Text1, Text1, brks)
  BY <1>4, FixesTables, Text1Fixes
<1> HIDE DEF a5
<1>6. Fixes(s, a5, a6, ZeroPages, ZeroPages, brks)
  BY <1>5, FixesTables, AltzpFixes
<1> HIDE DEF a6
<1>7. Fixes(s, a6, a7, DisplayPages(s) \cup OtherPages, DisplayPages(s), brks)
  BY <1>6, FixesTables, RamrdFixes
<1> HIDE DEF a7
<1>8. Fixes(s, a7, a8, DisplayPages(s), DisplayPages(s) \cup OtherPages, brks)
  BY <1>7, FixesTables, RamwrtFixes
<1> HIDE DEF a8
<1>9. Fixes(s, a8, a9, Text1, Text1 \cup Bank1("text1"), brks)
  BY <1>8, FixesTables, ShadowText1Fixes
<1> HIDE DEF a9
<1>10. Fixes(s, a9, a10, {}, Both("text2"), brks)
  BY <1>9, FixesTables, ShadowText2Fixes
<1> HIDE DEF a10
<1>11. Fixes(s, a10, a11, Hires1, Hires1 \cup Bank1("hires1"), brks)
  BY <1>10, FixesTables, ShadowHires1Fixes
<1> HIDE DEF a11
<1>12. Fixes(s, a11, a12, {}, Both("hires2"), brks)
  BY <1>11, FixesTables, ShadowHires2Fixes
<1> HIDE DEF a12
<1>13. Fixes(s, a12, a13, {}, Both("shr"), brks)
  BY <1>12, FixesTables, ShadowShrFixes
<1> HIDE DEF a13
<1>14. Fixes(s, a13, a14, IolcPages(s), IolcPages(s), brks)
  BY <1>13, FixesTables, ShadowIolcFixes
<1> HIDE DEF a14
<1>15. Fixes(s, a14, a15, {}, {}, brks)
  BY <1>14, FixesTables, MarkFixes
<1>16. a15.brkRd = a14.brkRd \cup brks /\ a15.brkWr = a14.brkWr \cup brks
  BY <1>14 DEF Fixes, Tables, MarkBreaks
<1> HIDE DEF a15
<1>17. Fixes(s, a15, a16, {Debug}, {Debug}, brks)
  BY <1>15, FixesTables, DebugFixes
<1>18. a16.brkRd = a15.brkRd \ {Debug} /\ a16.brkWr = a15.brkWr \ {Debug}
  BY <1>15 DEF Fixes, Tables, DebugBuffer, SetRd, SetWr
<1> HIDE DEF a16
<1> DEFINE R3 == Slots0(s) \cup LcPages
           R6 == R3 \cup Hires1 \cup Text1 \cup ZeroPages
           R8 == R6 \cup DisplayPages(s) \cup OtherPages
           W8 == R8 \cup {Odd}
           W13 == W8 \cup Bank1Pages \cup Both("text2") \cup Both("hires2") \cup Both("shr")
<1>20. Fixes(s, Blank, a3, R3, R3 \cup {Odd}, brks)
  <2>1. Fixes(s, Blank, a2, {} \cup Slots0(s), {Odd} \cup Slots0(s), brks)
    BY <1>1, <1>2, Composed
  <2>2. Fixes(s, Blank, a3, ({} \cup Slots0(s)) \cup LcPages, ({Odd} \cup Slots0(s)) \cup LcPages, brks)
    BY <2>1, <1>3, Composed
  <2>3. ({} \cup Slots0(s)) \cup LcPages = R3 /\ ({Odd} \cup Slots0(s)) \cup LcPages = R3 \cup {Odd}
    OBVIOUS
  <2> HIDE DEF R3
  <2> QED BY <2>2, <2>3
<1> HIDE DEF R3
<1>21. Fixes(s, Blank, a6, R6, R6 \cup {Odd}, brks)
  <2>1. Fixes(s, Blank, a4, R3 \cup Hires1, (R3 \cup {Odd}) \cup Hires1, brks)
    BY <1>20, <1>4, Composed
  <2>2. Fixes(s, Blank, a5, (R3 \cup Hires1) \cup Text1, ((R3 \cup {Odd}) \cup Hires1) \cup Text1, brks)
    BY <2>1, <1>5, Composed
  <2>3. Fixes(s, Blank, a6, ((R3 \cup Hires1) \cup Text1) \cup ZeroPages,
                            (((R3 \cup {Odd}) \cup Hires1) \cup Text1) \cup ZeroPages, brks)
    BY <2>2, <1>6, Composed
  <2>4. /\ ((R3 \cup Hires1) \cup Text1) \cup ZeroPages = R6
        /\ (((R3 \cup {Odd}) \cup Hires1) \cup Text1) \cup ZeroPages = R6 \cup {Odd}
    OBVIOUS
  <2> HIDE DEF R6
  <2> QED BY <2>3, <2>4
<1> HIDE DEF R6
<1>22. Fixes(s, Blank, a8, R8, W8, brks)
  <2> DEFINE D == DisplayPages(s)
  <2>1. Fixes(s, Blank, a7, R6 \cup (D \cup OtherPages), (R6 \cup {Odd}) \cup D, brks)
    BY <1>21, <1>7, Composed
  <2>2. Fixes(s, Blank, a8, (R6 \cup (D \cup OtherPages)) \cup D,
                            ((R6 \cup {Odd}) \cup D) \cup (D \cup OtherPages), brks)
    BY <2>1, <1>8, Composed
  <2>3. (R6 \cup (D \cup OtherPages)) \cup D = R8 /\ ((R6 \cup {Odd}) \cup D) \cup (D \cup OtherPages) = W8
    OBVIOUS
  <2> HIDE DEF R8, W8
  <2> QED BY <2>2, <2>3
<1>23. Text1 \subseteq R8 /\ Hires1 \subseteq R8 /\ R8 \subseteq W8
  BY DEF R6
<1>24. \A r \in ScreenRegions : Bank1(r) \subseteq Bank1Pages
  BY DEF Bank1, Bank1Pages
<1> HIDE DEF R8, W8
<1>25. Fixes(s, Blank, a13, R8, W13, brks)
  <2> DEFINE W9 == W8 \cup (Text1 \cup Bank1("text1"))
             W10 == W9 \cup Both("text2")
             W11 == W10 \cup (Hires1 \cup Bank1("hires1"))
             W12 == W11 \cup Both("hires2")
  <2>0. R8 \cup Text1 = R8 /\ R8 \cup Hires1 = R8 /\ R8 \cup {} = R8
    BY <1>23
  <2>1. Fixes(s, Blank, a9, R8, W9, brks)
    BY <2>0, <1>22, <1>9, Composed
  <2> HIDE DEF W9
  <2>2. Fixes(s, Blank, a10, R8, W10, brks)
    BY <2>0, <2>1, <1>10, Composed
  <2> HIDE DEF W10
  <2>3. Fixes(s, Blank, a11, R8, W11, brks)
    BY <2>0, <2>2, <1>11, Composed
  <2> HIDE DEF W11
  <2>4. Fixes(s, Blank, a12, R8, W12, brks)
    BY <2>0, <2>3, <1>12, Composed
  <2> HIDE DEF W12
  <2>5. Fixes(s, Blank, a13, R8, W12 \cup Both("shr"), brks)
    BY <2>0, <2>4, <1>13, Composed
  <2>6. W12 \cup Both("shr") = W13
    <3>1. /\ Both("text2") = {<<"00", "text2">>} \cup Bank1("text2")
          /\ Both("hires2") = {<<"00", "hires2">>} \cup Bank1("hires2")
          /\ Both("shr") = {<<"00", "shr">>} \cup Bank1("shr")
      BY DEF Both
    <3>2. Bank1Pages = Bank1("text1") \cup Bank1("text2") \cup Bank1("hires1") \cup Bank1("hires2") \cup Bank1("shr")
      BY DEF Bank1Pages, Bank1, ScreenRegions
    <3> HIDE DEF W8
    <3> QED BY <1>23, <3>1, <3>2 DEF W12, W11, W10, W9
  <2> HIDE DEF W13
  <2> QED BY <2>5, <2>6
<1> HIDE DEF W13
<1>26. Fixes(s, Blank, a15, R8 \cup IolcPages(s), W13 \cup IolcPages(s), brks)
  <2>1. Fixes(s, Blank, a14, R8 \cup IolcPages(s), W13 \cup IolcPages(s), brks)
    BY <1>25, <1>14, Composed
  <2>2. (R8 \cup IolcPages(s)) \cup {} = R8 \cup IolcPages(s) /\ (W13 \cup IolcPages(s)) \cup {} = W13 \cup IolcPages(s)
    OBVIOUS
  <2> QED BY <2>1, <2>2, <1>15, Composed
<1>27. Fixes(s, Blank, a16, (R8 \cup IolcPages(s)) \cup {Debug}, (W13 \cup IolcPages(s)) \cup {Debug}, brks)
  BY <1>26, <1>17, Composed
<1>28. DisplayPages(s) \subseteq Text1 \cup Hires1
  BY DEF DisplayPages
<1>29. (R8 \cup IolcPages(s)) \cup {Debug} = SetupRd(s)
  BY <1>28 DEF SetupRd, R8, R6, R3
<1>30. (W13 \cup IolcPages(s)) \cup {Debug} = SetupWr(s)
  <2>1. Both("text2") \cup Both("hires2") \cup Both("shr") \subseteq Bank1Pages \cup OtherPages
    BY DEF Both, Bank1, Bank1Pages, OtherPages, Others, ScreenRegions, Even
  <2> QED BY <1>29, <2>1 DEF SetupWr, W13, W8, R8
<1>31. a15.brkRd = brks /\ a15.brkWr = brks
  <2>1. a14.brkRd \subseteq brks /\ a14.brkWr \subseteq brks
    <3>1. Fixes(s, Blank, a14, R8 \cup IolcPages(s), W13 \cup IolcPages(s), brks)
      BY <1>25, <1>14, Composed
    <3> QED BY <3>1, BlankTables DEF Fixes
  <2> QED BY <2>1, <1>16
<1> QED BY <1>0, <1>18, <1>27, <1>29, <1>30, <1>31

(* setup_pageinfo gives every page the entries that the switches want, and  *)
(* marks the pages with breakpoints.                                        *)
LEMMA SetupWanted ==
  ASSUME NEW s \in Switches, NEW brks \in SUBSET Pages
  PROVE  /\ Setup(s, brks) \in Tables
         /\ \A p \in Pages : Setup(s, brks).rd[p] = WantRd(s, p) /\ Setup(s, brks).wr[p] = WantWr(s, p)
         /\ Setup(s, brks).brkRd = brks \ {Debug} /\ Setup(s, brks).brkWr = brks \ {Debug}
  BY SetupFixes, BlankTables, BlankWanted DEF Fixes

-----------------------------------------------------------------------------
(* The invariant: the tables t are those the switches s want, and the pages *)
(* of brks are marked.  Only the odd banks may be behind: a change of       *)
(* bit 3 of $C035 does not renew them.                                      *)

OddWr(s, t) == t.wr[Odd] = OddAt("none") \/ (s.allBanks /\ t.wr[Odd] = OddAt("shadow2"))
Wanted(s, t) ==
  /\ t \in Tables
  /\ \A p \in Pages : /\ t.rd[p] = WantRd(s, p)
                      /\ p # Odd => t.wr[p] = WantWr(s, p)
  /\ OddWr(s, t)
Marked(t, brks) == t.brkRd \ {Debug} = brks \ {Debug} /\ t.brkWr \ {Debug} = brks \ {Debug}
IInv == /\ sw \in Switches /\ breaks \subseteq BreakPages
        /\ Wanted(sw, map) /\ Marked(map, breaks)

(* A change of switches is dealt with when every page whose entries it      *)
(* concerns is renewed and the marks are put back.                          *)
LEMMA Stepped ==
  ASSUME NEW s \in Switches, NEW n \in Switches, NEW t, NEW u, NEW R, NEW W, NEW brks,
         Wanted(s, t), Marked(t, brks), Fixes(n, t, u, R, W, brks),
         \A p \in Pages : /\ p \notin R => WantRd(n, p) = WantRd(s, p)
                          /\ p \notin W /\ p # Odd => WantWr(n, p) = WantWr(s, p),
         s.allBanks = n.allBanks \/ Odd \in W,
         brks \ {Debug} \subseteq u.brkRd, brks \ {Debug} \subseteq u.brkWr
  PROVE  Wanted(n, u) /\ Marked(u, brks)
<1>1. u \in Tables
  BY FixesTables
<1>2. \A p \in Pages : u.rd[p] = WantRd(n, p) /\ (p # Odd => u.wr[p] = WantWr(n, p))
  BY DEF Fixes, Wanted
<1>3. OddWr(n, u)
  <2>1. Odd \in Pages
    BY DEF Pages
  <2>2. CASE Odd \in W
    <3>1. u.wr[Odd] = WantWr(n, Odd)
      BY <2>1, <2>2 DEF Fixes
    <3> QED BY <3>1 DEF OddWr, WantWr
  <2>3. CASE Odd \notin W
    <3>1. u.wr[Odd] = t.wr[Odd]
      BY <2>1, <2>3 DEF Fixes
    <3> QED BY <2>3, <3>1 DEF OddWr, Wanted
  <2> QED BY <2>2, <2>3
<1>4. u.brkRd \subseteq t.brkRd \cup brks /\ u.brkWr \subseteq t.brkWr \cup brks
  BY DEF Fixes
<1>5. Marked(u, brks)
  BY <1>4 DEF Marked
<1> QED BY <1>1, <1>2, <1>3, <1>5 DEF Wanted

LEMMA MarkedAgain ==
  ASSUME NEW t \in Tables, NEW brks \in SUBSET Pages
  PROVE  brks \subseteq MarkBreaks(t, brks).brkRd /\ brks \subseteq MarkBreaks(t, brks).brkWr
  BY DEF MarkBreaks, Tables

LEMMA IfFixes ==
  ASSUME NEW s, NEW t \in Tables, NEW u, NEW R, NEW W, NEW brks, NEW c \in BOOLEAN,
         c => Fixes(s, t, u, R, W, brks)
  PROVE  Fixes(s, t, IF c THEN u ELSE t, IF c THEN R ELSE {}, IF c THEN W ELSE {}, brks)
  BY NothingFixes

(* What pages a change of the state register renews.                        *)
DifferIn(s, n, fields) == \E f \in fields : s[f] # n[f]
When(c, P) == IF c THEN P ELSE {}
BecomeBoth(s, n) ==
  When(DifferIn(s, n, {"wrdefram", "altzp", "rdrom", "lcbank2"}), LcPages)
    \cup When(DifferIn(s, n, {"altzp"}), ZeroPages)
    \cup When(DifferIn(s, n, {"page2"}), IF n.st80 THEN StorePages(n) ELSE {})
    \cup When(DifferIn(s, n, {"ramrd"}), DisplayPages(n))
    \cup When(DifferIn(s, n, {"ramwrt"}), DisplayPages(n))
    \cup When(DifferIn(s, n, {"intc8", "intcx"}), Slots0(n))

(* set_statereg renews these pages, and puts the marks back.                *)
LEMMA BecomeFixes ==
  ASSUME NEW s \in Switches, NEW n \in Switches, NEW t \in Tables, NEW brks \in SUBSET Pages
  PROVE  s # n => /\ Fixes(n, t, SetStatereg(s, n, t, brks),
                           BecomeBoth(s, n) \cup When(DifferIn(s, n, {"ramrd"}), OtherPages),
                           BecomeBoth(s, n) \cup When(DifferIn(s, n, {"ramwrt"}), OtherPages), brks)
                  /\ brks \subseteq SetStatereg(s, n, t, brks).brkRd
                  /\ brks \subseteq SetStatereg(s, n, t, brks).brkWr
<1> SUFFICES ASSUME s # n
             PROVE  /\ Fixes(n, t, SetStatereg(s, n, t, brks),
                           BecomeBoth(s, n) \cup When(DifferIn(s, n, {"ramrd"}), OtherPages),
                           BecomeBoth(s, n) \cup When(DifferIn(s, n, {"ramwrt"}), OtherPages), brks)
                    /\ brks \subseteq SetStatereg(s, n, t, brks).brkRd
                    /\ brks \subseteq SetStatereg(s, n, t, brks).brkWr
  OBVIOUS
<1> DEFINE c1 == DifferIn(s, n, {"wrdefram", "altzp", "rdrom", "lcbank2"})
           c2 == DifferIn(s, n, {"altzp"})
           c3 == DifferIn(s, n, {"page2"})
           c4 == DifferIn(s, n, {"ramrd"})
           c5 == DifferIn(s, n, {"ramwrt"})
           c6 == DifferIn(s, n, {"intc8", "intcx"})
           a1 == IF c1 THEN FixLc(n, t) ELSE t
           a2 == IF c2 THEN FixAltzp(n, a1) ELSE a1
           a3 == IF c3 THEN FixPage2(n, a2) ELSE a2
           a4 == IF c4 THEN FixRamrd(n, a3) ELSE a3
           a5 == IF c5 THEN FixRamwrt(n, a4) ELSE a4
           a6 == IF c6 THEN FixIntcx(n, a5, brks) ELSE a5
           a7 == MarkBreaks(a6, brks)
           P == IF n.st80 THEN StorePages(n) ELSE {}
           D == DisplayPages(n)
<1>0. SetStatereg(s, n, t, brks) = a7
  BY DEF SetStatereg, DifferIn
<1>b. c1 \in BOOLEAN /\ c2 \in BOOLEAN /\ c3 \in BOOLEAN /\ c4 \in BOOLEAN /\ c5 \in BOOLEAN /\ c6 \in BOOLEAN
  BY DEF DifferIn
<1> HIDE DEF c1, c2, c3, c4, c5, c6
<1>1. Fixes(n, t, a1, When(c1, LcPages), When(c1, LcPages), brks)
  BY <1>b, LcFixes, IfFixes DEF When
<1> HIDE DEF a1
<1>2. Fixes(n, a1, a2, When(c2, ZeroPages), When(c2, ZeroPages), brks)
  BY <1>1, <1>b, FixesTables, AltzpFixes, IfFixes DEF When
<1> HIDE DEF a2
<1>3. Fixes(n, a2, a3, When(c3, P), When(c3, P), brks)
  <2>1. a2 \in Tables
    BY <1>2, FixesTables
  <2>2. Fixes(n, a2, FixPage2(n, a2), P, P, brks)
    BY <2>1, Page2Fixes
  <2> HIDE DEF P
  <2> QED BY <2>1, <2>2, <1>b, IfFixes DEF When
<1> HIDE DEF a3, P
<1>4. Fixes(n, a3, a4, When(c4, D \cup OtherPages), When(c4, D), brks)
  BY <1>3, <1>b, FixesTables, RamrdFixes, IfFixes DEF When
<1> HIDE DEF a4
<1>5. Fixes(n, a4, a5, When(c5, D), When(c5, D \cup OtherPages), brks)
  BY <1>4, <1>b, FixesTables, RamwrtFixes, IfFixes DEF When
<1> HIDE DEF a5
<1>6. Fixes(n, a5, a6, When(c6, Slots0(n)), When(c6, Slots0(n)), brks)
  BY <1>5, <1>b, FixesTables, IntcxFixes, IfFixes DEF When
<1>7. a6 \in Tables
  BY <1>6, FixesTables
<1> HIDE DEF a6
<1>8. Fixes(n, a5, a7, When(c6, Slots0(n)), When(c6, Slots0(n)), brks)
  BY <1>6, MarkedFixes
<1>9. brks \subseteq a7.brkRd /\ brks \subseteq a7.brkWr
  BY <1>7, MarkedAgain
<1> HIDE DEF a7
<1> DEFINE E1 == When(c1, LcPages) \cup When(c2, ZeroPages)
           E2 == E1 \cup When(c3, P)
           R4 == E2 \cup When(c4, D \cup OtherPages)   W4 == E2 \cup When(c4, D)
           R5 == R4 \cup When(c5, D)                   W5 == W4 \cup When(c5, D \cup OtherPages)
           R6 == R5 \cup When(c6, Slots0(n))           W6 == W5 \cup When(c6, Slots0(n))
<1>10. Fixes(n, t, a2, E1, E1, brks)
  BY <1>1, <1>2, Composed
<1> HIDE DEF E1
<1>11. Fixes(n, t, a3, E2, E2, brks)
  BY <1>10, <1>3, Composed
<1> HIDE DEF E2
<1>12. Fixes(n, t, a4, R4, W4, brks)
  BY <1>11, <1>4, Composed
<1> HIDE DEF R4, W4
<1>13. Fixes(n, t, a5, R5, W5, brks)
  BY <1>12, <1>5, Composed
<1> HIDE DEF R5, W5
<1>14. Fixes(n, t, a7, R6, W6, brks)
  BY <1>13, <1>8, Composed
<1> HIDE DEF R6, W6
<1>15. R6 = BecomeBoth(s, n) \cup When(c4, OtherPages) /\ W6 = BecomeBoth(s, n) \cup When(c5, OtherPages)
  <2>1. BecomeBoth(s, n) = When(c1, LcPages) \cup When(c2, ZeroPages) \cup When(c3, P)
                             \cup When(c4, D) \cup When(c5, D) \cup When(c6, Slots0(n))
    BY DEF BecomeBoth, c1, c2, c3, c4, c5, c6, P
  <2>2. When(c4, D \cup OtherPages) = When(c4, D) \cup When(c4, OtherPages)
    BY DEF When
  <2>3. When(c5, D \cup OtherPages) = When(c5, D) \cup When(c5, OtherPages)
    BY DEF When
  <2> QED BY <2>1, <2>2, <2>3 DEF R6, W6, R5, W5, R4, W4, E2, E1
<1> QED BY <1>0, <1>9, <1>14, <1>15 DEF c4, c5

(* No other page is concerned by a change of the state register.            *)
LEMMA BecomeWants ==
  ASSUME NEW s \in Switches, NEW n \in Switches, NEW p \in Pages,
         s.st80 = n.st80, s.hires = n.hires, s.card = n.card, s.inhibit = n.inhibit,
         s.allBanks = n.allBanks, s.userShadow = n.userShadow,
         s.page2 = n.page2 => s.showPage2 = n.showPage2
  PROVE  /\ p \notin BecomeBoth(s, n) \cup When(DifferIn(s, n, {"ramrd"}), OtherPages)
              => WantRd(n, p) = WantRd(s, p)
         /\ p \notin BecomeBoth(s, n) \cup When(DifferIn(s, n, {"ramwrt"}), OtherPages)
              => WantWr(n, p) = WantWr(s, p)
<1>0. /\ \A b : Inhibited(n, b) = Inhibited(s, b)
      /\ \A b, r, aux : Copied(n, b, r, aux) = Copied(s, b, r, aux)
  BY DEF Inhibited, Copied, Text2, AuxHires
<1>1. CASE p = Odd
  BY <1>1 DEF WantRd, WantWr
<1>2. CASE p = Debug
  BY <1>2 DEF WantRd, WantWr, Odd, Debug
<1>3. CASE p \in Banks \X Regions
  <2> DEFINE b == p[1]  r == p[2]
  <2>1. p = <<b, r>> /\ b \in Banks /\ r \in Regions /\ p # Odd /\ p # Debug
    BY <1>3, PageOf DEF Odd, Debug, Banks, Fast, Slow
  <2>2. CASE r \in CardSpace
    <3>1. p \notin BecomeBoth(s, n) => /\ s.wrdefram = n.wrdefram /\ s.altzp = n.altzp
                                       /\ s.rdrom = n.rdrom /\ s.lcbank2 = n.lcbank2
      BY <2>1, <2>2 DEF BecomeBoth, When, DifferIn, LcPages
    <3>2. WantRd(n, p) = CardRd(n, b, r) /\ WantRd(s, p) = CardRd(s, b, r)
      BY <2>1, <2>2 DEF WantRd
    <3>3. WantWr(n, p) = CardWr(n, b, r) /\ WantWr(s, p) = CardWr(s, b, r)
      BY <2>1, <2>2 DEF WantWr
    <3>4. ASSUME p \notin BecomeBoth(s, n)
          PROVE  CardRd(n, b, r) = CardRd(s, b, r) /\ CardWr(n, b, r) = CardWr(s, b, r)
      <4>1. Inhibited(n, b) = Inhibited(s, b) /\ CardHalf(n, b) = CardHalf(s, b)
        BY <1>0, <3>1, <3>4 DEF CardHalf
      <4> HIDE DEF b, r
      <4> QED BY <3>1, <3>4, <4>1 DEF CardRd, CardWr
    <3> HIDE DEF b, r
    <3> QED BY <3>2, <3>3, <3>4
  <2>3. CASE r \in IoSpace
    <3>1. r \notin CardSpace
      BY <2>3 DEF IoSpace, CardSpace
    <3>2. CASE Inhibited(n, b)
      BY <1>0, <2>1, <2>3, <3>1, <3>2 DEF WantRd, WantWr
    <3>3. CASE ~Inhibited(n, b)
      <4>1. p \notin BecomeBoth(s, n) => s.intcx = n.intcx /\ s.intc8 = n.intc8
        BY <2>1, <2>3, <3>3 DEF BecomeBoth, When, DifferIn, Slots0
      <4>2. WantRd(n, p) = SlotRd(n, r) /\ WantRd(s, p) = SlotRd(s, r)
        BY <1>0, <2>1, <2>3, <3>1, <3>3 DEF WantRd
      <4>3. WantWr(n, p) = Io /\ WantWr(s, p) = Io
        BY <1>0, <2>1, <2>3, <3>1, <3>3 DEF WantWr
      <4> QED BY <4>1, <4>2, <4>3 DEF SlotRd
    <3> QED BY <3>2, <3>3
  <2>4. CASE r \notin IoSpace \cup CardSpace
    <3>1. /\ \A v \in {s, n} : WantRd(v, p) = Mem(b, IF b \in Even THEN Aux(RdAux(v, r)) ELSE 1, r, "none")
          /\ \A v \in {s, n} : LET aux == b \notin Even \/ WrAux(v, r)
                               IN  WantWr(v, p) = Mem(b, Aux(aux), r, CopyTag(Copied(v, b, r, aux), aux))
      BY <2>1, <2>4 DEF WantRd, WantWr
    <3>2. CASE b \notin Even
      BY <1>0, <3>1, <3>2
    <3>3. CASE b \in Even
      <4>1. r \in {"zp", "text1", "hires1"} \cup Others
        BY <2>1, <2>4 DEF Regions, Others, IoSpace, CardSpace
      <4>2. /\ p \notin BecomeBoth(s, n) \cup When(DifferIn(s, n, {"ramrd"}), OtherPages)
                 => RdAux(n, r) = RdAux(s, r)
            /\ p \notin BecomeBoth(s, n) \cup When(DifferIn(s, n, {"ramwrt"}), OtherPages)
                 => WrAux(n, r) = WrAux(s, r)
        <5>1. CASE r = "zp"
          <6>1. p \in ZeroPages
            BY <2>1, <3>3, <5>1 DEF ZeroPages
          <6>2. p \notin BecomeBoth(s, n) => s.altzp = n.altzp
            BY <6>1 DEF BecomeBoth, When, DifferIn
          <6> QED BY <5>1, <6>2 DEF RdAux, WrAux
        <5>2. CASE r = "text1"
          <6>1. p \in Text1
            BY <2>1, <3>3, <5>2 DEF Text1
          <6>2. p \notin BecomeBoth(s, n) => IF n.st80 THEN s.page2 = n.page2
                                             ELSE s.ramrd = n.ramrd /\ s.ramwrt = n.ramwrt
            BY <6>1 DEF BecomeBoth, When, DifferIn, StorePages, DisplayPages
          <6> QED BY <5>2, <6>2 DEF RdAux, WrAux
        <5>3. CASE r = "hires1"
          <6>1. p \in Hires1
            BY <2>1, <3>3, <5>3 DEF Hires1
          <6>2. p \notin BecomeBoth(s, n) => IF n.st80 /\ n.hires THEN s.page2 = n.page2
                                             ELSE s.ramrd = n.ramrd /\ s.ramwrt = n.ramwrt
            BY <6>1 DEF BecomeBoth, When, DifferIn, StorePages, DisplayPages
          <6> QED BY <5>3, <6>2 DEF RdAux, WrAux
        <5>4. CASE r \in Others
          <6>1. p \in OtherPages
            BY <2>1, <3>3, <5>4 DEF OtherPages
          <6>2. /\ p \notin When(DifferIn(s, n, {"ramrd"}), OtherPages) => s.ramrd = n.ramrd
                /\ p \notin When(DifferIn(s, n, {"ramwrt"}), OtherPages) => s.ramwrt = n.ramwrt
            BY <6>1 DEF When, DifferIn
          <6> QED BY <5>4, <6>2 DEF RdAux, WrAux, Others
        <5> QED BY <4>1, <5>1, <5>2, <5>3, <5>4
      <4> QED BY <1>0, <3>1, <3>3, <4>2
    <3> QED BY <3>2, <3>3
  <2> QED BY <2>2, <2>3, <2>4
<1> QED BY <1>1, <1>2, <1>3 DEF Pages

-----------------------------------------------------------------------------
(* What pages a change of $C035 renews.                                     *)
Changed(s, n) == (s.inhibit \ n.inhibit) \cup (n.inhibit \ s.inhibit)
HiresPages == Hires1 \cup Bank1("hires1") \cup Both("hires2")

ShadowRd(s, n) ==
  When(Changed(s, n) \cap {1, 3, 4} # {}, Hires1)
    \cup When(0 \in Changed(s, n), Text1) \cup When(6 \in Changed(s, n), IolcPages(n))
ShadowWr(s, n) ==
  ShadowRd(s, n)
    \cup When(Changed(s, n) \cap {1, 3, 4} # {}, Bank1("hires1"))
    \cup When(Changed(s, n) \cap {2, 3, 4} # {}, Both("hires2"))
    \cup When(3 \in Changed(s, n), Both("shr"))
    \cup When(0 \in Changed(s, n), Bank1("text1"))
    \cup When(5 \in Changed(s, n) /\ (Rom # 1 \/ n.userShadow), Both("text2"))

LEMMA ShadowHiresFixes ==
  ASSUME NEW s \in Switches, NEW t \in Tables, NEW brks
  PROVE  Fixes(s, t, ShadowHires2(s, ShadowHires1(s, t)), Hires1, HiresPages, brks)
<1> DEFINE u == ShadowHires1(s, t)
<1>1. Fixes(s, t, u, Hires1, Hires1 \cup Bank1("hires1"), brks)
  BY ShadowHires1Fixes
<1> HIDE DEF u
<1>2. Fixes(s, u, ShadowHires2(s, u), {}, Both("hires2"), brks)
  BY <1>1, FixesTables, ShadowHires2Fixes
<1>3. Fixes(s, t, ShadowHires2(s, u), Hires1 \cup {}, (Hires1 \cup Bank1("hires1")) \cup Both("hires2"), brks)
  BY <1>1, <1>2, Composed
<1>4. Hires1 \cup {} = Hires1 /\ (Hires1 \cup Bank1("hires1")) \cup Both("hires2") = HiresPages
  BY DEF HiresPages
<1> QED BY <1>3, <1>4 DEF u

(* update_shadow_reg renews these pages, and puts the marks back: the order *)
(* in which the bits are dealt with and crossed off leaves none out.        *)
LEMMA UpdateFixes ==
  ASSUME NEW s \in Switches, NEW n \in Switches, NEW t \in Tables, NEW brks \in SUBSET Pages,
         Changed(s, n) # {}
  PROVE  /\ Fixes(n, t, UpdateShadow(s, n, t, brks), ShadowRd(s, n), ShadowWr(s, n), brks)
         /\ brks \subseteq UpdateShadow(s, n, t, brks).brkRd
         /\ brks \subseteq UpdateShadow(s, n, t, brks).brkWr
<1> DEFINE changed == Changed(s, n)
           left == IF 3 \in changed THEN changed \ {1, 2, 4} ELSE changed
           last == IF 4 \in left THEN left \ {1, 2} ELSE left
           c3 == 3 \in changed
           c4 == 4 \in left
           c1 == 1 \in last
           c2 == 2 \in last
           c0 == 0 \in last
           c5 == 5 \in last /\ (Rom # 1 \/ n.userShadow)
           c6 == 6 \in last
           Hires(u) == ShadowHires2(n, ShadowHires1(n, u))
           a0 == IF c3 THEN Hires(t) ELSE t
           a1 == IF c3 THEN ShadowShr(n, a0) ELSE a0
           a2 == IF c4 THEN Hires(a1) ELSE a1
           a3 == IF c1 THEN ShadowHires1(n, a2) ELSE a2
           a4 == IF c2 THEN ShadowHires2(n, a3) ELSE a3
           a5 == IF c0 THEN ShadowText1(n, a4) ELSE a4
           a6 == IF c5 THEN ShadowText2(n, a5) ELSE a5
           a7 == IF c6 THEN ShadowIolc(n, a6, brks) ELSE a6
           a8 == MarkBreaks(a7, brks)
<1>0. UpdateShadow(s, n, t, brks) = a8
  <2>1. UpdateShadow(s, n, t, brks) =
          LET Aux3(u) == IF c3 THEN ShadowShr(n, Hires(u)) ELSE u
              Aux4(u) == IF c4 THEN Hires(u) ELSE u
              Hires1x(u) == IF c1 THEN ShadowHires1(n, u) ELSE u
              Hires2x(u) == IF c2 THEN ShadowHires2(n, u) ELSE u
              Text1x(u) == IF c0 THEN ShadowText1(n, u) ELSE u
              Text2x(u) == IF c5 THEN ShadowText2(n, u) ELSE u
              Iolc(u) == IF c6 THEN ShadowIolc(n, u, brks) ELSE u
          IN  MarkBreaks(Iolc(Text2x(Text1x(Hires2x(Hires1x(Aux4(Aux3(t))))))), brks)
    BY DEF UpdateShadow, Changed
  <2>2. a1 = IF c3 THEN ShadowShr(n, Hires(t)) ELSE t
    OBVIOUS
  <2> HIDE DEF c0, c1, c2, c3, c4, c5, c6, Hires, left, last, changed
  <2> QED BY <2>1, <2>2
<1>b. /\ c0 \in BOOLEAN /\ c1 \in BOOLEAN /\ c2 \in BOOLEAN /\ c3 \in BOOLEAN
      /\ c4 \in BOOLEAN /\ c5 \in BOOLEAN /\ c6 \in BOOLEAN
  OBVIOUS
<1>c. /\ c3 \/ c4 \/ c1 <=> changed \cap {1, 3, 4} # {}
      /\ (c3 \/ c4 \/ c2 <=> changed \cap {2, 3, 4} # {})
      /\ (c0 <=> 0 \in changed)
      /\ (c5 <=> 5 \in changed /\ (Rom # 1 \/ n.userShadow))
      /\ (c6 <=> 6 \in changed)
  <2> HIDE DEF changed
  <2> QED OBVIOUS
<1>d. c3 <=> 3 \in changed
  OBVIOUS
<1> HIDE DEF c0, c1, c2, c3, c4, c5, c6, left, last, changed
<1>1. Fixes(n, t, a0, When(c3, Hires1), When(c3, HiresPages), brks)
  BY <1>b, ShadowHiresFixes, IfFixes DEF When
<1> HIDE DEF a0
<1>2. Fixes(n, a0, a1, {}, When(c3, Both("shr")), brks)
  <2>1. Fixes(n, a0, a1, When(c3, {}), When(c3, Both("shr")), brks)
    BY <1>1, <1>b, FixesTables, ShadowShrFixes, IfFixes DEF When
  <2> QED BY <2>1 DEF When
<1> HIDE DEF a1
<1>3. Fixes(n, a1, a2, When(c4, Hires1), When(c4, HiresPages), brks)
  BY <1>2, <1>b, FixesTables, ShadowHiresFixes, IfFixes DEF When
<1> HIDE DEF a2
<1>4. Fixes(n, a2, a3, When(c1, Hires1), When(c1, Hires1 \cup Bank1("hires1")), brks)
  BY <1>3, <1>b, FixesTables, ShadowHires1Fixes, IfFixes DEF When
<1> HIDE DEF a3
<1>5. Fixes(n, a3, a4, {}, When(c2, Both("hires2")), brks)
  <2>1. Fixes(n, a3, a4, When(c2, {}), When(c2, Both("hires2")), brks)
    BY <1>4, <1>b, FixesTables, ShadowHires2Fixes, IfFixes DEF When
  <2> QED BY <2>1 DEF When
<1> HIDE DEF a4
<1>6. Fixes(n, a4, a5, When(c0, Text1), When(c0, Text1 \cup Bank1("text1")), brks)
  BY <1>5, <1>b, FixesTables, ShadowText1Fixes, IfFixes DEF When
<1> HIDE DEF a5
<1>7. Fixes(n, a5, a6, {}, When(c5, Both("text2")), brks)
  <2>1. Fixes(n, a5, a6, When(c5, {}), When(c5, Both("text2")), brks)
    BY <1>6, <1>b, FixesTables, ShadowText2Fixes, IfFixes DEF When
  <2> QED BY <2>1 DEF When
<1> HIDE DEF a6
<1>8. Fixes(n, a6, a7, When(c6, IolcPages(n)), When(c6, IolcPages(n)), brks)
  BY <1>7, <1>b, FixesTables, ShadowIolcFixes, IfFixes DEF When
<1>9. a7 \in Tables
  BY <1>8, FixesTables
<1> HIDE DEF a7
<1>10. Fixes(n, a6, a8, When(c6, IolcPages(n)), When(c6, IolcPages(n)), brks)
  BY <1>8, MarkedFixes
<1>11. brks \subseteq a8.brkRd /\ brks \subseteq a8.brkWr
  BY <1>9, MarkedAgain
<1> HIDE DEF a8
<1> DEFINE R1 == When(c3, Hires1) \cup {}           W1 == When(c3, HiresPages) \cup When(c3, Both("shr"))
           R2 == R1 \cup When(c4, Hires1)           W2 == W1 \cup When(c4, HiresPages)
           R3 == R2 \cup When(c1, Hires1)           W3 == W2 \cup When(c1, Hires1 \cup Bank1("hires1"))
           R4 == R3 \cup {}                         W4 == W3 \cup When(c2, Both("hires2"))
           R5 == R4 \cup When(c0, Text1)            W5 == W4 \cup When(c0, Text1 \cup Bank1("text1"))
           R6 == R5 \cup {}                         W6 == W5 \cup When(c5, Both("text2"))
           R7 == R6 \cup When(c6, IolcPages(n))     W7 == W6 \cup When(c6, IolcPages(n))
<1>12. Fixes(n, t, a1, R1, W1, brks)
  BY <1>1, <1>2, Composed
<1> HIDE DEF R1, W1
<1>13. Fixes(n, t, a2, R2, W2, brks)
  BY <1>12, <1>3, Composed
<1> HIDE DEF R2, W2
<1>14. Fixes(n, t, a3, R3, W3, brks)
  BY <1>13, <1>4, Composed
<1> HIDE DEF R3, W3
<1>15. Fixes(n, t, a4, R4, W4, brks)
  BY <1>14, <1>5, Composed
<1> HIDE DEF R4, W4
<1>16. Fixes(n, t, a5, R5, W5, brks)
  BY <1>15, <1>6, Composed
<1> HIDE DEF R5, W5
<1>17. Fixes(n, t, a6, R6, W6, brks)
  BY <1>16, <1>7, Composed
<1> HIDE DEF R6, W6
<1>18. Fixes(n, t, a8, R7, W7, brks)
  BY <1>17, <1>10, Composed
<1> HIDE DEF R7, W7
<1>19. R7 = ShadowRd(s, n)
  <2>1. When(c3, Hires1) \cup When(c4, Hires1) \cup When(c1, Hires1) = When(changed \cap {1, 3, 4} # {}, Hires1)
    BY <1>c DEF When
  <2>2. R7 = (When(c3, Hires1) \cup When(c4, Hires1) \cup When(c1, Hires1)) \cup When(c0, Text1)
               \cup When(c6, IolcPages(n))
    BY DEF R7, R6, R5, R4, R3, R2, R1
  <2>3. When(c0, Text1) = When(0 \in changed, Text1) /\ When(c6, IolcPages(n)) = When(6 \in changed, IolcPages(n))
    BY <1>c DEF When
  <2> QED BY <2>1, <2>2, <2>3 DEF ShadowRd, changed
<1>20. W7 = ShadowWr(s, n)
  <2> DEFINE B1 == Bank1("hires1")  B2 == Both("hires2")
  <2>1. W7 = When(c3, HiresPages) \cup When(c3, Both("shr")) \cup When(c4, HiresPages)
               \cup When(c1, Hires1 \cup B1) \cup When(c2, B2) \cup When(c0, Text1 \cup Bank1("text1"))
               \cup When(c5, Both("text2")) \cup When(c6, IolcPages(n))
    BY DEF W7, W6, W5, W4, W3, W2, W1
  <2>2. When(c3, HiresPages) \cup When(c4, HiresPages) \cup When(c1, Hires1 \cup B1) \cup When(c2, B2)
          = When(c3 \/ c4 \/ c1, Hires1) \cup When(c3 \/ c4 \/ c1, B1) \cup When(c3 \/ c4 \/ c2, B2)
    BY <1>b DEF When, HiresPages
  <2>3. When(c0, Text1 \cup Bank1("text1")) = When(c0, Text1) \cup When(c0, Bank1("text1"))
    BY DEF When
  <2>4. /\ When(c3 \/ c4 \/ c1, Hires1) = When(changed \cap {1, 3, 4} # {}, Hires1)
        /\ When(c3 \/ c4 \/ c1, B1) = When(changed \cap {1, 3, 4} # {}, B1)
        /\ When(c3 \/ c4 \/ c2, B2) = When(changed \cap {2, 3, 4} # {}, B2)
        /\ When(c3, Both("shr")) = When(3 \in changed, Both("shr"))
        /\ When(c0, Text1) = When(0 \in changed, Text1)
        /\ When(c0, Bank1("text1")) = When(0 \in changed, Bank1("text1"))
        /\ When(c5, Both("text2")) = When(5 \in changed /\ (Rom # 1 \/ n.userShadow), Both("text2"))
        /\ When(c6, IolcPages(n)) = When(6 \in changed, IolcPages(n))
    BY <1>c, <1>d DEF When
  <2>5. ShadowWr(s, n) =
          When(changed \cap {1, 3, 4} # {}, Hires1) \cup When(0 \in changed, Text1)
            \cup When(6 \in changed, IolcPages(n)) \cup When(changed \cap {1, 3, 4} # {}, B1)
            \cup When(changed \cap {2, 3, 4} # {}, B2) \cup When(3 \in changed, Both("shr"))
            \cup When(0 \in changed, Bank1("text1"))
            \cup When(5 \in changed /\ (Rom # 1 \/ n.userShadow), Both("text2"))
    BY DEF ShadowWr, ShadowRd, changed
  <2> HIDE DEF B1, B2
  <2>6. W7 = (When(c3, HiresPages) \cup When(c4, HiresPages) \cup When(c1, Hires1 \cup B1) \cup When(c2, B2))
               \cup When(c3, Both("shr")) \cup When(c0, Text1 \cup Bank1("text1"))
               \cup When(c5, Both("text2")) \cup When(c6, IolcPages(n))
    BY <2>1
  <2>7. W7 = (When(changed \cap {1, 3, 4} # {}, Hires1) \cup When(changed \cap {1, 3, 4} # {}, B1)
                \cup When(changed \cap {2, 3, 4} # {}, B2))
               \cup When(3 \in changed, Both("shr"))
               \cup (When(0 \in changed, Text1) \cup When(0 \in changed, Bank1("text1")))
               \cup When(5 \in changed /\ (Rom # 1 \/ n.userShadow), Both("text2"))
               \cup When(6 \in changed, IolcPages(n))
    BY <2>2, <2>3, <2>4, <2>6, Zenon
  <2> QED BY <2>5, <2>7
<1> QED BY <1>0, <1>11, <1>18, <1>19, <1>20

(* No other page but those of the odd banks is concerned by $C035.          *)
LEMMA UpdateWants ==
  ASSUME NEW s \in Switches, NEW bits \in SUBSET (0..6), NEW n, n = [s EXCEPT !.inhibit = bits],
         NEW p \in Pages
  PROVE  /\ p \notin ShadowRd(s, n) => WantRd(n, p) = WantRd(s, p)
         /\ p \notin ShadowWr(s, n) /\ p # Odd => WantWr(n, p) = WantWr(s, p)
<1>0. /\ n \in Switches /\ n.inhibit = bits
      /\ n.altzp = s.altzp /\ n.st80 = s.st80 /\ n.hires = s.hires /\ n.showPage2 = s.showPage2
      /\ n.ramrd = s.ramrd /\ n.ramwrt = s.ramwrt /\ n.card = s.card /\ n.intcx = s.intcx
      /\ n.intc8 = s.intc8 /\ n.rdrom = s.rdrom /\ n.lcbank2 = s.lcbank2 /\ n.wrdefram = s.wrdefram
      /\ n.userShadow = s.userShadow
  BY DEF Switches
<1>a. \A x : x \notin Changed(s, n) => (x \in s.inhibit <=> x \in n.inhibit)
  BY DEF Changed
<1>b. \A r : RdAux(n, r) = RdAux(s, r) /\ WrAux(n, r) = WrAux(s, r) /\ SlotRd(n, r) = SlotRd(s, r)
  BY <1>0 DEF RdAux, WrAux, SlotRd
<1>1. CASE p = Odd
  BY <1>1 DEF WantRd
<1>2. CASE p = Debug
  BY <1>2 DEF WantRd, WantWr, Odd, Debug
<1>3. CASE p \in Banks \X Regions
  <2> DEFINE b == p[1]  r == p[2]
  <2>1. p = <<b, r>> /\ b \in Banks /\ r \in Regions /\ p # Odd /\ p # Debug
    BY <1>3, PageOf DEF Odd, Debug, Banks, Fast, Slow
  <2>2. CASE r \in CardSpace \cup IoSpace
    <3>1. CASE p \in ShadowRd(s, n)
      BY <3>1 DEF ShadowWr
    <3>2. CASE p \notin ShadowRd(s, n)
      <4>1. Inhibited(n, b) = Inhibited(s, b)
        BY <1>a, <2>1, <2>2, <3>2 DEF ShadowRd, When, IolcPages, Inhibited
      <4>2. CardHalf(n, b) = CardHalf(s, b)
        BY <1>0 DEF CardHalf
      <4> HIDE DEF b, r
      <4>3. CardRd(n, b, r) = CardRd(s, b, r) /\ CardWr(n, b, r) = CardWr(s, b, r)
        BY <1>0, <4>1, <4>2 DEF CardRd, CardWr
      <4> QED BY <1>b, <2>1, <2>2, <4>1, <4>3 DEF WantRd, WantWr, b, r
    <3> QED BY <3>1, <3>2
  <2>3. CASE r \notin CardSpace \cup IoSpace
    <3>1. /\ \A v \in {s, n} : WantRd(v, p) = Mem(b, IF b \in Even THEN Aux(RdAux(v, r)) ELSE 1, r, "none")
          /\ \A v \in {s, n} : LET aux == b \notin Even \/ WrAux(v, r)
                               IN  WantWr(v, p) = Mem(b, Aux(aux), r, CopyTag(Copied(v, b, r, aux), aux))
      BY <2>1, <2>3 DEF WantRd, WantWr
    <3>2. WantRd(n, p) = WantRd(s, p)
      BY <1>b, <3>1
    <3>3. ASSUME p \notin ShadowWr(s, n), NEW aux \in BOOLEAN, b = "01" => aux
          PROVE  Copied(n, b, r, aux) = Copied(s, b, r, aux)
      <4>1. CASE b \in Slow
        BY <4>1 DEF Copied, Slow, Fast
      <4>2. CASE b \in Fast
        <5>0. b = "00" \/ b = "01"
          BY <4>2 DEF Fast
        <5>a. b \notin Slow
          BY <5>0 DEF Slow
        <5>1. CASE r = "text1"
          <6>1. 0 \notin Changed(s, n)
            <7>1. p \in Text1 \/ p \in Bank1("text1")
              BY <2>1, <5>0, <5>1 DEF Text1, Bank1, Even
            <7> QED BY <3>3, <7>1 DEF ShadowWr, ShadowRd, When
          <6> QED BY <1>a, <5>1, <6>1 DEF Copied
        <5>2. CASE r = "text2"
          <6>1. ~(5 \in Changed(s, n) /\ (Rom # 1 \/ n.userShadow))
            <7>1. p \in Both("text2")
              BY <2>1, <5>0, <5>2 DEF Both, Bank1
            <7> QED BY <3>3, <7>1 DEF ShadowWr, When
          <6>2. Text2(n) = Text2(s)
            BY <1>0, <1>a, <6>1 DEF Text2
          <6> QED BY <5>2, <6>2 DEF Copied
        <5>3. CASE r = "hires1"
          <6>1. Changed(s, n) \cap {1, 3, 4} = {}
            <7>1. p \in Hires1 \/ p \in Bank1("hires1")
              BY <2>1, <5>0, <5>3 DEF Hires1, Bank1, Even
            <7> QED BY <3>3, <7>1 DEF ShadowWr, ShadowRd, When
          <6>2. \A x \in {1, 3, 4} : x \in s.inhibit <=> x \in n.inhibit
            BY <1>a, <6>1
          <6>3. AuxHires(n, 1) = AuxHires(s, 1)
            BY <6>2 DEF AuxHires
          <6> QED BY <5>3, <6>2, <6>3 DEF Copied
        <5>4. CASE r = "hires2"
          <6>1. Changed(s, n) \cap {2, 3, 4} = {}
            <7>1. p \in Both("hires2")
              BY <2>1, <5>0, <5>4 DEF Both, Bank1
            <7> QED BY <3>3, <7>1 DEF ShadowWr, When
          <6>2. \A x \in {2, 3, 4} : x \in s.inhibit <=> x \in n.inhibit
            BY <1>a, <6>1
          <6>3. AuxHires(n, 2) = AuxHires(s, 2)
            BY <6>2 DEF AuxHires
          <6> QED BY <5>4, <6>2, <6>3 DEF Copied
        <5>5. CASE r = "shr"
          <6>1. 3 \notin Changed(s, n)
            <7>1. p \in Both("shr")
              BY <2>1, <5>0, <5>5 DEF Both, Bank1
            <7> QED BY <3>3, <7>1 DEF ShadowWr, When
          <6> QED BY <1>a, <5>5, <6>1 DEF Copied
        <5>6. CASE r \notin ScreenRegions
          BY <5>6 DEF Copied, ScreenRegions
        <5> QED BY <5>1, <5>2, <5>3, <5>4, <5>5, <5>6 DEF ScreenRegions
      <4> QED BY <2>1, <4>1, <4>2 DEF Banks
    <3>4. ASSUME p \notin ShadowWr(s, n) PROVE WantWr(n, p) = WantWr(s, p)
      <4> DEFINE aux == b \notin Even \/ WrAux(s, r)
      <4>1. aux = (b \notin Even \/ WrAux(n, r)) /\ aux \in BOOLEAN
        BY <1>b
      <4>2. b = "01" => aux
        BY DEF Even
      <4> HIDE DEF aux
      <4>3. Copied(n, b, r, aux) = Copied(s, b, r, aux)
        BY <3>3, <3>4, <4>1, <4>2
      <4> QED BY <3>1, <4>1, <4>3 DEF aux
    <3> QED BY <3>2, <3>4
  <2> QED BY <2>2, <2>3
<1> QED BY <1>1, <1>2, <1>3 DEF Pages

-----------------------------------------------------------------------------
(* The steps                                                                *)

LEMMA BreaksArePages ==
  ASSUME IInv
  PROVE  breaks \in SUBSET Pages
  BY MemoryAssumption DEF IInv

(* Every action that changes switches of the state register.                *)
LEMMA BecomeStep ==
  ASSUME IInv, NEW n \in Switches, Become(n),
         sw.st80 = n.st80, sw.hires = n.hires, sw.card = n.card, sw.inhibit = n.inhibit,
         sw.allBanks = n.allBanks, sw.userShadow = n.userShadow, sw.showPage2 = n.showPage2
  PROVE  IInv'
<1> DEFINE m == WithPage2(sw, n)
           R == BecomeBoth(sw, m) \cup When(DifferIn(sw, m, {"ramrd"}), OtherPages)
           W == BecomeBoth(sw, m) \cup When(DifferIn(sw, m, {"ramwrt"}), OtherPages)
<1>1. /\ m \in Switches
      /\ sw.st80 = m.st80 /\ sw.hires = m.hires /\ sw.card = m.card /\ sw.inhibit = m.inhibit
      /\ sw.allBanks = m.allBanks /\ sw.userShadow = m.userShadow
      /\ sw.page2 = m.page2 => sw.showPage2 = m.showPage2
  BY DEF WithPage2, Switches
<1>2. sw' = m /\ map' = SetStatereg(sw, m, map, breaks) /\ breaks' = breaks
  BY DEF Become
<1> HIDE DEF m
<1>3. CASE sw = m
  <2>1. map' = map
    BY <1>2, <1>3 DEF SetStatereg
  <2> QED BY <1>2, <1>3, <2>1 DEF IInv, Wanted, Marked, OddWr
<1>4. CASE sw # m
  <2>1. /\ Fixes(m, map, map', R, W, breaks)
        /\ breaks \subseteq map'.brkRd /\ breaks \subseteq map'.brkWr
    BY <1>1, <1>2, <1>4, BreaksArePages, BecomeFixes DEF IInv, Wanted
  <2>2. \A p \in Pages : /\ p \notin R => WantRd(m, p) = WantRd(sw, p)
                         /\ p \notin W => WantWr(m, p) = WantWr(sw, p)
    BY <1>1, BecomeWants DEF IInv
  <2> HIDE DEF R, W
  <2>3. Wanted(m, map') /\ Marked(map', breaks)
    BY <1>1, <2>1, <2>2, Stepped DEF IInv
  <2> QED BY <1>1, <1>2, <2>3 DEF IInv, Wanted, Marked, OddWr
<1> QED BY <1>3, <1>4

(* setup_pageinfo at the start establishes the invariant.                   *)
LEMMA InitInv == MemInit => IInv
<1> SUFFICES ASSUME MemInit PROVE IInv
  OBVIOUS
<1>1. sw \in Switches /\ breaks = {} /\ map = Setup(sw, breaks)
  BY DEF MemInit, Switches
<1>2. /\ map \in Tables
      /\ \A p \in Pages : map.rd[p] = WantRd(sw, p) /\ map.wr[p] = WantWr(sw, p)
      /\ map.brkRd = {} /\ map.brkWr = {}
  BY <1>1, SetupWanted
<1>3. OddWr(sw, map)
  BY <1>2 DEF OddWr, WantWr, Pages
<1> QED BY <1>1, <1>2, <1>3 DEF IInv, Wanted, Marked

(* All tables anew for the switches n.                                      *)
LEMMA SetupStep ==
  ASSUME NEW n \in Switches, NEW brks \in SUBSET Pages, NEW t, t = Setup(n, brks)
  PROVE  Wanted(n, t) /\ Marked(t, brks)
<1>1. /\ t \in Tables
      /\ \A p \in Pages : t.rd[p] = WantRd(n, p) /\ t.wr[p] = WantWr(n, p)
      /\ t.brkRd = brks \ {Debug} /\ t.brkWr = brks \ {Debug}
  BY SetupWanted
<1>2. OddWr(n, t)
  BY <1>1 DEF OddWr, WantWr, Pages
<1> QED BY <1>1, <1>2 DEF Wanted, Marked

(* Every action keeps it.                                                   *)
LEMMA StepInv == IInv /\ [MemNext]_memVars => IInv'
<1> SUFFICES ASSUME IInv, [MemNext]_memVars PROVE IInv'
  OBVIOUS
<1>a. breaks \in SUBSET Pages /\ sw \in Switches /\ map \in Tables
  BY BreaksArePages DEF IInv, Wanted
<1>b. ASSUME NEW n \in Switches, NEW R, NEW W, sw' = n, breaks' = breaks,
             Fixes(n, map, map', R, W, breaks),
             \A p \in Pages : /\ p \notin R => WantRd(n, p) = WantRd(sw, p)
                              /\ p \notin W /\ p # Odd => WantWr(n, p) = WantWr(sw, p),
             sw.allBanks = n.allBanks \/ Odd \in W,
             breaks \ {Debug} \subseteq map'.brkRd, breaks \ {Debug} \subseteq map'.brkWr
      PROVE  IInv'
  <2>1. Wanted(n, map') /\ Marked(map', breaks)
    BY <1>a, <1>b, Stepped DEF IInv
  <2> QED BY <1>b, <2>1 DEF IInv, Wanted, Marked, OddWr
<1>c. ASSUME NEW n \in Switches, NEW brks \in SUBSET BreakPages,
             sw' = n, breaks' = brks, map' = Setup(n, brks)
      PROVE  IInv'
  <2>1. brks \in SUBSET Pages
    BY MemoryAssumption
  <2>2. Wanted(n, map') /\ Marked(map', brks)
    BY <1>c, <2>1, SetupStep
  <2> QED BY <1>c, <2>2 DEF IInv, Wanted, Marked, OddWr
<1>d. breaks \ {Debug} \subseteq map.brkRd /\ breaks \ {Debug} \subseteq map.brkWr
  BY DEF IInv, Marked
<1>1. ASSUME NEW f \in {"altzp", "page2", "ramrd", "ramwrt", "intcx"}, NEW on \in BOOLEAN, SoftSwitch(f, on)
      PROVE  IInv'
  <2> DEFINE n == [sw EXCEPT ![f] = on]
  <2>1. /\ n \in Switches
        /\ sw.st80 = n.st80 /\ sw.hires = n.hires /\ sw.card = n.card /\ sw.inhibit = n.inhibit
        /\ sw.allBanks = n.allBanks /\ sw.userShadow = n.userShadow /\ sw.showPage2 = n.showPage2
    <3>1. CASE f = "altzp"
      BY <1>a, <3>1 DEF Switches
    <3>2. CASE f = "page2"
      BY <1>a, <3>2 DEF Switches
    <3>3. CASE f = "ramrd"
      BY <1>a, <3>3 DEF Switches
    <3>4. CASE f = "ramwrt"
      BY <1>a, <3>4 DEF Switches
    <3>5. CASE f = "intcx"
      BY <1>a, <3>5 DEF Switches
    <3> QED BY <3>1, <3>2, <3>3, <3>4, <3>5
  <2>2. Become(n)
    BY <1>1 DEF SoftSwitch
  <2> HIDE DEF n
  <2> QED BY <2>1, <2>2, BecomeStep
<1>2. ASSUME NEW m \in Switches, WriteC068(m)
      PROVE  IInv'
  <2> DEFINE n == [sw EXCEPT !.altzp = m.altzp, !.page2 = m.page2, !.ramrd = m.ramrd, !.ramwrt = m.ramwrt,
                             !.rdrom = m.rdrom, !.lcbank2 = m.lcbank2, !.intcx = m.intcx]
  <2>1. /\ n \in Switches
        /\ sw.st80 = n.st80 /\ sw.hires = n.hires /\ sw.card = n.card /\ sw.inhibit = n.inhibit
        /\ sw.allBanks = n.allBanks /\ sw.userShadow = n.userShadow /\ sw.showPage2 = n.showPage2
    BY <1>a, <1>2 DEF Switches
  <2>2. Become(n)
    BY <1>2 DEF WriteC068
  <2> HIDE DEF n
  <2> QED BY <2>1, <2>2, BecomeStep
<1>3. ASSUME NEW a0 \in BOOLEAN, NEW a1 \in BOOLEAN, NEW a3 \in BOOLEAN, NEW read \in BOOLEAN,
             LanguageCard(a0, a1, a3, read)
      PROVE  IInv'
  <2>1. /\ {~a3, a0 # a1, read /\ a0, a0 /\ (sw.wrdefram \/ (read /\ sw.prewrite))} \subseteq BOOLEAN
        /\ Become([sw EXCEPT !.lcbank2 = ~a3, !.rdrom = (a0 # a1), !.prewrite = (read /\ a0),
                             !.wrdefram = a0 /\ (sw.wrdefram \/ (read /\ sw.prewrite))])
    BY <1>3 DEF LanguageCard
  <2>2. \E l, r, w, e : {l, r, w, e} \subseteq BOOLEAN
          /\ Become([sw EXCEPT !.lcbank2 = l, !.rdrom = r, !.prewrite = w, !.wrdefram = e])
    BY <2>1, Zenon
  <2>3. PICK l, r, w, e : {l, r, w, e} \subseteq BOOLEAN
          /\ Become([sw EXCEPT !.lcbank2 = l, !.rdrom = r, !.prewrite = w, !.wrdefram = e])
    BY <2>2
  <2> DEFINE n == [sw EXCEPT !.lcbank2 = l, !.rdrom = r, !.prewrite = w, !.wrdefram = e]
  <2>4. /\ n \in Switches
        /\ sw.st80 = n.st80 /\ sw.hires = n.hires /\ sw.card = n.card /\ sw.inhibit = n.inhibit
        /\ sw.allBanks = n.allBanks /\ sw.userShadow = n.userShadow /\ sw.showPage2 = n.showPage2
    BY <1>a, <2>3 DEF Switches
  <2>5. Become(n)
    BY <2>3
  <2> HIDE DEF n
  <2> QED BY <2>4, <2>5, BecomeStep
<1>4. ASSUME NEW b \in Banks, AccessC3(b) \/ AccessCfff(b)
      PROVE  IInv'
  <2>1. PICK on \in BOOLEAN : Become([sw EXCEPT !.intc8 = on])
    BY <1>4 DEF AccessC3, AccessCfff
  <2> DEFINE n == [sw EXCEPT !.intc8 = on]
  <2>2. /\ n \in Switches
        /\ sw.st80 = n.st80 /\ sw.hires = n.hires /\ sw.card = n.card /\ sw.inhibit = n.inhibit
        /\ sw.allBanks = n.allBanks /\ sw.userShadow = n.userShadow /\ sw.showPage2 = n.showPage2
    BY <1>a DEF Switches
  <2>3. Become(n)
    BY <2>1
  <2> HIDE DEF n
  <2> QED BY <2>2, <2>3, BecomeStep
<1>5. ASSUME NEW on \in BOOLEAN, Set80Store(on)
      PROVE  IInv'
  <2> DEFINE n == [sw EXCEPT !.st80 = on]
  <2>1. /\ n \in Switches /\ n.altzp = sw.altzp /\ n.showPage2 = sw.showPage2 /\ n.ramrd = sw.ramrd
        /\ n.ramwrt = sw.ramwrt /\ n.hires = sw.hires /\ n.inhibit = sw.inhibit /\ n.card = sw.card
        /\ n.intcx = sw.intcx /\ n.intc8 = sw.intc8 /\ n.rdrom = sw.rdrom /\ n.lcbank2 = sw.lcbank2
        /\ n.wrdefram = sw.wrdefram /\ n.userShadow = sw.userShadow /\ n.allBanks = sw.allBanks
    BY <1>a DEF Switches
  <2>2. sw' = n /\ breaks' = breaks /\ map' = FixSt80(n, map, breaks)
    BY <1>5 DEF Set80Store
  <2> HIDE DEF n
  <2>3. Fixes(n, map, map', StorePages(n), StorePages(n), breaks)
    BY <1>a, <2>1, <2>2, St80Fixes
  <2>4. \A p \in Pages \ StorePages(n) : WantRd(n, p) = WantRd(sw, p) /\ WantWr(n, p) = WantWr(sw, p)
    <3> SUFFICES ASSUME NEW p \in Pages \ StorePages(n)
                 PROVE  WantRd(n, p) = WantRd(sw, p) /\ WantWr(n, p) = WantWr(sw, p)
      OBVIOUS
    <3>1. /\ \A b : Inhibited(n, b) = Inhibited(sw, b) /\ CardHalf(n, b) = CardHalf(sw, b)
          /\ \A b, r, aux : Copied(n, b, r, aux) = Copied(sw, b, r, aux)
          /\ \A r : SlotRd(n, r) = SlotRd(sw, r)
      BY <2>1 DEF Inhibited, CardHalf, Copied, Text2, AuxHires, SlotRd
    <3>2. \A b, r : CardRd(n, b, r) = CardRd(sw, b, r) /\ CardWr(n, b, r) = CardWr(sw, b, r)
      BY <2>1, <3>1 DEF CardRd, CardWr
    <3>3. p[1] \in Even => RdAux(n, p[2]) = RdAux(sw, p[2]) /\ WrAux(n, p[2]) = WrAux(sw, p[2])
      <4>1. ASSUME p[1] \in Even PROVE p \in Even \X {p[2]}
        BY <4>1, PageOf DEF Odd, Debug, Even
      <4>2. p[1] \in Even => p[2] # "text1" /\ (p[2] = "hires1" => ~n.hires)
        BY <4>1 DEF StorePages, Text1, Hires1
      <4> QED BY <2>1, <4>2 DEF RdAux, WrAux
    <3> QED BY <2>1, <3>1, <3>2, <3>3 DEF WantRd, WantWr
  <2>5. breaks \subseteq map'.brkRd /\ breaks \subseteq map'.brkWr
    <3> DEFINE u == IF n.hires THEN FixHires1(n, FixText1(n, map)) ELSE FixText1(n, map)
    <3>1. u \in Tables
      BY <1>a, <2>1, StoreFixes, FixesTables
    <3>2. map' = MarkBreaks(u, breaks)
      BY <2>2 DEF FixSt80
    <3> HIDE DEF u
    <3> QED BY <1>a, <3>1, <3>2, MarkedAgain
  <2> QED BY <1>b, <2>1, <2>2, <2>3, <2>4, <2>5
<1>6. ASSUME NEW on \in BOOLEAN, SetHires(on)
      PROVE  IInv'
  <2> DEFINE n == [sw EXCEPT !.hires = on]
             P == IF n.st80 THEN Hires1 ELSE {}
  <2>1. /\ n \in Switches /\ n.altzp = sw.altzp /\ n.showPage2 = sw.showPage2 /\ n.ramrd = sw.ramrd
        /\ n.ramwrt = sw.ramwrt /\ n.st80 = sw.st80 /\ n.inhibit = sw.inhibit /\ n.card = sw.card
        /\ n.intcx = sw.intcx /\ n.intc8 = sw.intc8 /\ n.rdrom = sw.rdrom /\ n.lcbank2 = sw.lcbank2
        /\ n.wrdefram = sw.wrdefram /\ n.userShadow = sw.userShadow /\ n.allBanks = sw.allBanks
    BY <1>a DEF Switches
  <2>2. sw' = n /\ breaks' = breaks /\ map' = FixHiresOn(n, map, breaks)
    BY <1>6 DEF SetHires
  <2> HIDE DEF n
  <2>3. Fixes(n, map, map', P, P, breaks)
    BY <1>a, <2>1, <2>2, HiresOnFixes
  <2>4. \A p \in Pages \ P : WantRd(n, p) = WantRd(sw, p) /\ WantWr(n, p) = WantWr(sw, p)
    <3> SUFFICES ASSUME NEW p \in Pages \ P
                 PROVE  WantRd(n, p) = WantRd(sw, p) /\ WantWr(n, p) = WantWr(sw, p)
      OBVIOUS
    <3>1. /\ \A b : Inhibited(n, b) = Inhibited(sw, b) /\ CardHalf(n, b) = CardHalf(sw, b)
          /\ \A b, r, aux : Copied(n, b, r, aux) = Copied(sw, b, r, aux)
          /\ \A r : SlotRd(n, r) = SlotRd(sw, r)
      BY <2>1 DEF Inhibited, CardHalf, Copied, Text2, AuxHires, SlotRd
    <3>2. \A b, r : CardRd(n, b, r) = CardRd(sw, b, r) /\ CardWr(n, b, r) = CardWr(sw, b, r)
      BY <2>1, <3>1 DEF CardRd, CardWr
    <3>3. p[1] \in Even => RdAux(n, p[2]) = RdAux(sw, p[2]) /\ WrAux(n, p[2]) = WrAux(sw, p[2])
      <4>1. ASSUME p[1] \in Even PROVE p \in Even \X {p[2]}
        BY <4>1, PageOf DEF Odd, Debug, Even
      <4>2. p[1] \in Even => (p[2] = "hires1" => ~n.st80)
        BY <4>1 DEF Hires1
      <4> QED BY <2>1, <4>2 DEF RdAux, WrAux
    <3> QED BY <2>1, <3>1, <3>2, <3>3 DEF WantRd, WantWr
  <2>5. breaks \ {Debug} \subseteq map'.brkRd /\ breaks \ {Debug} \subseteq map'.brkWr
    <3>1. CASE n.st80
      <4>1. FixHires1(n, map) \in Tables
        BY <1>a, <2>1, Hires1Fixes, FixesTables
      <4>2. map' = MarkBreaks(FixHires1(n, map), breaks)
        BY <2>2, <3>1 DEF FixHiresOn
      <4> QED BY <1>a, <4>1, <4>2, MarkedAgain
    <3>2. CASE ~n.st80
      BY <1>d, <2>2, <3>2 DEF FixHiresOn
    <3> QED BY <3>1, <3>2
  <2> HIDE DEF P
  <2> QED BY <1>b, <2>1, <2>2, <2>3, <2>4, <2>5
<1>7. ASSUME NEW cards \in SUBSET Slots, SetCards(cards)
      PROVE  IInv'
  <2> DEFINE n == [sw EXCEPT !.card = cards]
  <2>1. /\ n \in Switches /\ n.altzp = sw.altzp /\ n.showPage2 = sw.showPage2 /\ n.ramrd = sw.ramrd
        /\ n.ramwrt = sw.ramwrt /\ n.st80 = sw.st80 /\ n.inhibit = sw.inhibit /\ n.hires = sw.hires
        /\ n.intcx = sw.intcx /\ n.intc8 = sw.intc8 /\ n.rdrom = sw.rdrom /\ n.lcbank2 = sw.lcbank2
        /\ n.wrdefram = sw.wrdefram /\ n.userShadow = sw.userShadow /\ n.allBanks = sw.allBanks
    BY <1>a DEF Switches
  <2>2. sw' = n /\ breaks' = breaks /\ map' = FixIntcx(n, map, breaks)
    BY <1>7 DEF SetCards
  <2> HIDE DEF n
  <2>3. Fixes(n, map, map', Slots0(n), Slots0(n), breaks)
    BY <1>a, <2>1, <2>2, IntcxFixes
  <2>4. \A p \in Pages \ Slots0(n) : WantRd(n, p) = WantRd(sw, p) /\ WantWr(n, p) = WantWr(sw, p)
    <3> SUFFICES ASSUME NEW p \in Pages \ Slots0(n)
                 PROVE  WantRd(n, p) = WantRd(sw, p) /\ WantWr(n, p) = WantWr(sw, p)
      OBVIOUS
    <3>1. /\ \A b : Inhibited(n, b) = Inhibited(sw, b) /\ CardHalf(n, b) = CardHalf(sw, b)
          /\ \A b, r, aux : Copied(n, b, r, aux) = Copied(sw, b, r, aux)
          /\ \A r : RdAux(n, r) = RdAux(sw, r) /\ WrAux(n, r) = WrAux(sw, r)
      BY <2>1 DEF Inhibited, CardHalf, Copied, Text2, AuxHires, RdAux, WrAux
    <3>2. \A b, r : CardRd(n, b, r) = CardRd(sw, b, r) /\ CardWr(n, b, r) = CardWr(sw, b, r)
      BY <2>1, <3>1 DEF CardRd, CardWr
    <3>3. p # Odd /\ p # Debug /\ p[2] \in IoSpace => Inhibited(n, p[1])
      <4>1. p # Odd /\ p # Debug => p = <<p[1], p[2]>> /\ p[1] \in Banks
        BY PageOf
      <4> QED BY <4>1 DEF Slots0
    <3> QED BY <2>1, <3>1, <3>2, <3>3 DEF WantRd, WantWr
  <2>5. breaks \subseteq map'.brkRd /\ breaks \subseteq map'.brkWr
    <3> DEFINE u == PutWr(n, PutRd(n, map, Slots0(n)), Slots0(n))
    <3>1. u \in Tables
      BY <1>a, <2>1, PutFixes, FixesTables
    <3>2. map' = MarkBreaks(u, breaks)
      BY <1>a, <2>2, IntcxPut
    <3> HIDE DEF u
    <3> QED BY <1>a, <3>1, <3>2, MarkedAgain
  <2> QED BY <1>b, <2>1, <2>2, <2>3, <2>4, <2>5
<1>8. ASSUME NEW bits \in SUBSET (0..6), WriteC035(bits)
      PROVE  IInv'
  <2> DEFINE n == [sw EXCEPT !.inhibit = bits]
  <2>1. n \in Switches /\ n.allBanks = sw.allBanks /\ n.inhibit = bits
    BY <1>a DEF Switches
  <2>2. sw' = n /\ breaks' = breaks /\ map' = UpdateShadow(sw, n, map, breaks)
    BY <1>8 DEF WriteC035
  <2>3. \A p \in Pages : /\ p \notin ShadowRd(sw, n) => WantRd(n, p) = WantRd(sw, p)
                         /\ p \notin ShadowWr(sw, n) /\ p # Odd => WantWr(n, p) = WantWr(sw, p)
    BY <1>a, UpdateWants
  <2>4. CASE Changed(sw, n) = {}
    <3>1. n = sw
      <4>1. bits = sw.inhibit
        BY <2>1, <2>4 DEF Changed
      <4> QED BY <1>a, <4>1 DEF Switches
    <3>2. map' = map
      BY <2>2, <2>4 DEF UpdateShadow, Changed
    <3> HIDE DEF n
    <3> QED BY <2>2, <3>1, <3>2 DEF IInv, Wanted, Marked, OddWr
  <2> HIDE DEF n
  <2>5. CASE Changed(sw, n) # {}
    <3>1. /\ Fixes(n, map, map', ShadowRd(sw, n), ShadowWr(sw, n), breaks)
          /\ breaks \subseteq map'.brkRd /\ breaks \subseteq map'.brkWr
      BY <1>a, <2>1, <2>2, <2>5, UpdateFixes
    <3> QED BY <1>b, <2>1, <2>2, <2>3, <3>1
  <2> QED BY <2>4, <2>5
<1>9. ASSUME NEW on \in BOOLEAN, SetAllBanks(on)
      PROVE  IInv'
  <2> DEFINE n == [sw EXCEPT !.allBanks = on]
  <2>1. /\ n \in Switches /\ n.altzp = sw.altzp /\ n.showPage2 = sw.showPage2 /\ n.ramrd = sw.ramrd
        /\ n.ramwrt = sw.ramwrt /\ n.st80 = sw.st80 /\ n.inhibit = sw.inhibit /\ n.hires = sw.hires
        /\ n.intcx = sw.intcx /\ n.intc8 = sw.intc8 /\ n.rdrom = sw.rdrom /\ n.lcbank2 = sw.lcbank2
        /\ n.wrdefram = sw.wrdefram /\ n.userShadow = sw.userShadow /\ n.card = sw.card
    BY <1>a DEF Switches
  <2>2. sw' = n /\ breaks' = breaks /\ map' = ShadowAllBanks(n, map, breaks)
    BY <1>9 DEF SetAllBanks
  <2> HIDE DEF n
  <2>3. Fixes(n, map, map', {}, {Odd}, breaks)
    BY <1>a, <2>1, <2>2, AllBanksFixes
  <2>4. \A p \in Pages : WantRd(n, p) = WantRd(sw, p) /\ (p # Odd => WantWr(n, p) = WantWr(sw, p))
    <3>1. /\ \A b : Inhibited(n, b) = Inhibited(sw, b) /\ CardHalf(n, b) = CardHalf(sw, b)
          /\ \A b, r, aux : Copied(n, b, r, aux) = Copied(sw, b, r, aux)
          /\ \A r : RdAux(n, r) = RdAux(sw, r) /\ WrAux(n, r) = WrAux(sw, r) /\ SlotRd(n, r) = SlotRd(sw, r)
      BY <2>1 DEF Inhibited, CardHalf, Copied, Text2, AuxHires, RdAux, WrAux, SlotRd
    <3>2. \A b, r : CardRd(n, b, r) = CardRd(sw, b, r) /\ CardWr(n, b, r) = CardWr(sw, b, r)
      BY <2>1, <3>1 DEF CardRd, CardWr
    <3> QED BY <3>1, <3>2 DEF WantRd, WantWr
  <2>5. breaks \subseteq map'.brkRd /\ breaks \subseteq map'.brkWr
    <3> DEFINE u == SetWr(map, {Odd},
                      LAMBDA b, r : [area |-> "fast", half |-> 3, place |-> r,
                        tag |-> (IF n.allBanks /\ 3 \notin n.inhibit THEN "shadow2" ELSE "none")])
    <3>1. u.brkRd = map.brkRd /\ u.brkWr = map.brkWr \ {Odd}
      BY <1>a DEF SetWr, Tables
    <3>2. map' = MarkBreaks(u, breaks)
      BY <2>2 DEF ShadowAllBanks
    <3>3. map'.brkRd = u.brkRd \cup breaks /\ map'.brkWr = u.brkWr \cup breaks
      <4>1. u = [map EXCEPT !.wr = u.wr, !.brkWr = u.brkWr]
        BY <1>a DEF SetWr, Tables
      <4> HIDE DEF u
      <4> QED BY <1>a, <3>2, <4>1 DEF MarkBreaks, Tables
    <3> QED BY <3>3
  <2> QED BY <1>b, <2>1, <2>2, <2>3, <2>4, <2>5
<1>10. ASSUME NEW panel \in BOOLEAN, DoReset(panel)
       PROVE  IInv'
  <2>1. sw' \in Switches
    <3>1. Fresh(sw) \in Switches
      <4> DEFINE m == [sw EXCEPT !.altzp = FALSE, !.page2 = FALSE, !.ramrd = FALSE, !.ramwrt = FALSE,
                                 !.rdrom = TRUE, !.lcbank2 = TRUE, !.intcx = TRUE]
      <4>1. m \in Switches
        BY <1>a DEF Switches
      <4>2. Fresh(sw) = [m EXCEPT !.prewrite = FALSE, !.wrdefram = TRUE, !.intc8 = FALSE,
                                  !.card = {}, !.inhibit = {}]
        BY DEF Fresh
      <4> HIDE DEF m
      <4> QED BY <4>1, <4>2 DEF Switches
    <3>2. \A s \in Switches : [s EXCEPT !.st80 = FALSE, !.hires = FALSE, !.showPage2 = FALSE] \in Switches
      BY DEF Switches
    <3>3. \/ sw' = Fresh(sw)
          \/ sw' = [Fresh(sw) EXCEPT !.st80 = FALSE, !.hires = FALSE, !.showPage2 = FALSE]
      BY <1>10 DEF DoReset
    <3> QED BY <3>1, <3>2, <3>3
  <2>2. breaks' \in SUBSET BreakPages /\ map' = Setup(sw', breaks')
    BY <1>10 DEF DoReset, IInv
  <2> QED BY <1>c, <2>1, <2>2
<1>11. ASSUME NEW p \in BreakPages, SetBreak(p)
       PROVE  IInv'
  <2>1. breaks' = breaks \cup {p} /\ map' = MarkBreaks(map, breaks') /\ sw' = sw
    BY <1>11 DEF SetBreak
  <2>2. breaks' \in SUBSET Pages /\ breaks' \subseteq BreakPages
    BY <1>a, <2>1, MemoryAssumption DEF IInv
  <2>3. map' \in Tables /\ map'.rd = map.rd /\ map'.wr = map.wr
        /\ map'.brkRd = map.brkRd \cup breaks' /\ map'.brkWr = map.brkWr \cup breaks'
    BY <1>a, <2>1, <2>2 DEF MarkBreaks, Tables
  <2>4. Wanted(sw', map')
    BY <2>1, <2>3 DEF IInv, Wanted, OddWr
  <2>5. Marked(map', breaks')
    BY <2>1, <2>3 DEF IInv, Marked
  <2> QED BY <1>a, <2>1, <2>2, <2>4, <2>5 DEF IInv, Wanted, Marked, OddWr
<1>12. ASSUME NEW pages \in SUBSET BreakPages, DeleteBreaks(pages)
       PROVE  IInv'
  <2>1. breaks' \in SUBSET BreakPages /\ map' = Setup(sw, breaks') /\ sw' = sw
    BY <1>12 DEF DeleteBreaks, IInv
  <2> QED BY <1>a, <1>c, <2>1
<1>13. CASE UNCHANGED memVars
  BY <1>13 DEF IInv, Wanted, Marked, OddWr, memVars
<1> QED
  BY <1>1, <1>2, <1>3, <1>4, <1>5, <1>6, <1>7, <1>8, <1>9, <1>10, <1>11, <1>12, <1>13 DEF MemNext

-----------------------------------------------------------------------------
(* What the invariant says                                                  *)

(* Tables as wanted are the tables that setup_pageinfo makes.               *)
LEMMA InvFollows == IInv => MapFollowsSwitches
<1> SUFFICES ASSUME IInv PROVE MapFollowsSwitches
  OBVIOUS
<1>1. MemTypeOK
  BY DEF MemTypeOK, IInv, Wanted, Tables
<1>2. TablesFollowSwitches
  <2> DEFINE other == [sw EXCEPT !.inhibit = (@ \ {3}) \cup ({3} \ @)]
             now == Setup(sw, breaks)
             unlike == Setup(other, breaks)
  <2>1. /\ other \in Switches /\ other.allBanks = sw.allBanks
        /\ (3 \in other.inhibit <=> 3 \notin sw.inhibit)
    BY DEF IInv, Switches
  <2>2. \A p \in Pages : now.rd[p] = WantRd(sw, p) /\ now.wr[p] = WantWr(sw, p)
    BY BreaksArePages, SetupWanted DEF IInv
  <2>3. \A p \in Pages : unlike.rd[p] = WantRd(other, p) /\ unlike.wr[p] = WantWr(other, p)
    BY <2>1, BreaksArePages, SetupWanted
  <2> HIDE DEF now, unlike, other
  <2>4. ASSUME NEW p \in Pages
        PROVE  \/ map.rd[p] = now.rd[p] /\ map.wr[p] = now.wr[p]
               \/ p = Odd /\ map.rd[p] = unlike.rd[p] /\ map.wr[p] = unlike.wr[p]
    <3>1. CASE p # Odd
      BY <2>2, <3>1 DEF IInv, Wanted
    <3>2. CASE p = Odd
      <4>1. map.rd[Odd] = OddAt("none") /\ now.rd[Odd] = OddAt("none") /\ unlike.rd[Odd] = OddAt("none")
        BY <2>2, <2>3, <3>2 DEF IInv, Wanted, WantRd
      <4>2. /\ now.wr[Odd] = OddAt(IF sw.allBanks /\ 3 \notin sw.inhibit THEN "shadow2" ELSE "none")
            /\ unlike.wr[Odd] = OddAt(IF other.allBanks /\ 3 \notin other.inhibit THEN "shadow2" ELSE "none")
        BY <2>2, <2>3, <3>2 DEF WantWr
      <4>3. OddWr(sw, map)
        BY DEF IInv, Wanted
      <4> QED BY <2>1, <3>2, <4>1, <4>2, <4>3 DEF OddWr
    <3> QED BY <3>1, <3>2
  <2> QED BY <2>4 DEF TablesFollowSwitches, now, unlike, other
<1> QED BY <1>1, <1>2 DEF MapFollowsSwitches

LEMMA InvMarked == IInv => BreaksSeen
  BY DEF IInv, Marked, BreaksSeen

(* The wanted entries themselves copy to the right half.                    *)
LEMMA WantCopied ==
  ASSUME NEW s, NEW p \in Pages
  PROVE  /\ WantWr(s, p).tag = "shadow" => WantWr(s, p).half = 0
         /\ WantWr(s, p).tag = "shadow2" => WantWr(s, p).half # 0
<1>1. CASE p = Odd
  BY <1>1 DEF WantWr, OddAt
<1>2. CASE p = Debug
  BY <1>2 DEF WantWr, DebugAt, Odd, Debug
<1>3. CASE p # Odd /\ p # Debug /\ p[2] \in CardSpace
  <2>1. WantWr(s, p) = CardWr(s, p[1], p[2])
    BY <1>3 DEF WantWr
  <2> QED BY <2>1 DEF CardWr, Mem
<1>4. CASE p # Odd /\ p # Debug /\ p[2] \in IoSpace
  <2>1. WantWr(s, p) = IF Inhibited(s, p[1]) THEN Mem(p[1], Half(p[1]), "d0", "none") ELSE Io
    BY <1>4 DEF WantWr, CardSpace, IoSpace
  <2> QED BY <2>1 DEF Mem, Io
<1>5. CASE p # Odd /\ p # Debug /\ p[2] \notin CardSpace \cup IoSpace
  <2> DEFINE aux == p[1] \notin Even \/ WrAux(s, p[2])
  <2>1. WantWr(s, p) = Mem(p[1], Aux(aux), p[2], CopyTag(Copied(s, p[1], p[2], aux), aux))
    BY <1>5 DEF WantWr
  <2> HIDE DEF aux
  <2> QED BY <2>1 DEF Mem, Aux, CopyTag
<1> QED BY <1>1, <1>2, <1>3, <1>4, <1>5

LEMMA InvCopied == IInv => CopiesReachTheScreen
<1> SUFFICES ASSUME IInv PROVE CopiesReachTheScreen
  OBVIOUS
<1>1. ASSUME NEW p \in Pages
      PROVE  /\ map.wr[p].tag = "shadow" => map.wr[p].half = 0
             /\ map.wr[p].tag = "shadow2" => map.wr[p].half # 0
  <2>1. CASE p = Odd
    <3>1. map.wr[p] = OddAt("none") \/ map.wr[p] = OddAt("shadow2")
      BY <2>1 DEF IInv, Wanted, OddWr
    <3> QED BY <3>1 DEF OddAt
  <2>2. CASE p # Odd
    BY <2>2, WantCopied DEF IInv, Wanted
  <2> QED BY <2>1, <2>2
<1>2. ASSUME NEW b \in Slow, NEW r \in {"text1", "text2", "hires1", "hires2"}
      PROVE  map.wr[<<b, r>>].tag # "none"
  <2>1. <<b, r>> \in Pages /\ <<b, r>> # Odd /\ <<b, r>> # Debug
    BY DEF Pages, Banks, Regions, Odd, Debug, Slow
  <2> DEFINE aux == b \notin Even \/ WrAux(sw, r)
  <2>2. map.wr[<<b, r>>] = Mem(b, Aux(aux), r, CopyTag(Copied(sw, b, r, aux), aux))
    <3>1. map.wr[<<b, r>>] = WantWr(sw, <<b, r>>)
      BY <2>1 DEF IInv, Wanted
    <3> QED BY <2>1, <3>1 DEF WantWr, CardSpace, IoSpace
  <2>3. Copied(sw, b, r, aux)
    BY DEF Copied, Slow, Fast
  <2> HIDE DEF aux
  <2> QED BY <2>2, <2>3 DEF Mem, CopyTag
<1> QED BY <1>1, <1>2 DEF CopiesReachTheScreen

(* moremem.c: after any sequence of accesses to the soft switches, resets   *)
(* and changes of breakpoints, every page's entries are those               *)
(* setup_pageinfo would compute, so no fixup forgets a page that its switch *)
(* concerns.  (The odd banks may be behind by bit 3 of $C035.)              *)
THEOREM MapAlwaysFollowsSwitches == MemSpec => []MapFollowsSwitches
<1>1. MemSpec => []IInv
  BY InitInv, StepInv, PTL DEF MemSpec
<1> QED BY <1>1, InvFollows, PTL

(* fixup_brks: the pages with a breakpoint, and no others, are marked for   *)
(* reads and for writes, however their entries were rewritten since.        *)
THEOREM BreaksAlwaysSeen == MemSpec => []BreaksSeen
<1>1. MemSpec => []IInv
  BY InitInv, StepInv, PTL DEF MemSpec
<1> QED BY <1>1, InvMarked, PTL

(* A shadowed write is copied to the half of the slow memory that it is     *)
(* written to, and banks $E0 and $E1 show every write to their text and     *)
(* hires pages.                                                             *)
THEOREM CopiesAlwaysReachTheScreen == MemSpec => []CopiesReachTheScreen
<1>1. MemSpec => []IInv
  BY InitInv, StepInv, PTL DEF MemSpec
<1> QED BY <1>1, InvCopied, PTL

=============================================================================
