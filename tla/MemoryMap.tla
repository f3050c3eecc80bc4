------------------------------ MODULE MemoryMap ------------------------------
(***************************************************************************)
(* The page tables of moremem.c: for every page of memory, where a read and *)
(* a write go and what they do besides.  The engine looks only at the       *)
(* tables; the soft switches behind them ($C000-$C00F, $C054-$C057, $C068,  *)
(* $C080-$C08F, $C02D, $C035, $C036) are turned into table entries by the   *)
(* fixup_* functions, each of which rewrites some of the pages.             *)
(*                                                                          *)
(* Pages with the same treatment are one region.  An entry is the memory it *)
(* points to and a tag: a write that is shadowed into bank $E0 or $E1, a    *)
(* write that is thrown away, or an access for io_read and io_write.        *)
(***************************************************************************)
EXTENDS Integers, FiniteSets

CONSTANTS
  Rom,           \* g_rom_version: 1 or 3
  BreakPages     \* pages the debugger may set a breakpoint in

Fast == {"00", "01"}                 \* g_memory_ptr
Slow == {"e0", "e1"}                 \* g_slow_memory_ptr
Banks == Fast \cup Slow
Even == {"00", "e0"}                 \* the banks with an auxiliary bank
Regions ==
  { "zp",      \* $00-$01
    "plain",   \* $02-$03, $0C-$1F and $A0-$BF
    "text1", "text2",      \* $04-$07, $08-$0B
    "hires1", "hires2",    \* $20-$3F, $40-$5F
    "shr",                 \* $60-$9F
    "c0", "c3", "c4",
    "c7",      \* $C1, $C2 and $C5-$C7, each with its bit of $C02D
    "c8",      \* $C8-$CE
    "cf", "d0",
    "e0" }     \* $E0-$FF
Odd == <<"03", "video">>             \* $20-$9F of the odd banks from 3 on
Debug == <<"d0", "debug">>           \* g_debug_buf
Pages == (Banks \X Regions) \cup {Odd, Debug}

ASSUME MemoryAssumption == Rom \in {1, 3} /\ BreakPages \subseteq Pages

VARIABLES
  sw,       \* the switches
  map,      \* page_info_rd_wr
  breaks    \* the pages of g_break_pts

Slots == {3, 4, 7}
Switches ==
  [ altzp : BOOLEAN, page2 : BOOLEAN, ramrd : BOOLEAN, ramwrt : BOOLEAN,    \* g_c068_statereg
    rdrom : BOOLEAN, lcbank2 : BOOLEAN, intcx : BOOLEAN,
    prewrite : BOOLEAN, wrdefram : BOOLEAN, intc8 : BOOLEAN,
    st80 : BOOLEAN, hires : BOOLEAN, showPage2 : BOOLEAN,   \* of g_cur_a2_stat
    card : SUBSET Slots,               \* bits of g_c02d_int_crom
    inhibit : SUBSET (0..6),           \* bits of g_c035_shadow_reg
    allBanks : BOOLEAN,                \* bit 4 of g_c036_val_speed
    userShadow : BOOLEAN ]             \* g_user_page2_shadow

-----------------------------------------------------------------------------
(* Entries                                                                  *)

Tags == {"none", "shadow", "shadow2", "readonly", "io"}
Half(b) == IF b \in Even THEN 0 ELSE 1
Mem(b, half, place, tag) == [area |-> IF b \in Fast THEN "fast" ELSE "slow",
                             half |-> half, place |-> place, tag |-> tag]
RomAt(place) == [area |-> "rom", half |-> 0, place |-> place, tag |-> "none"]
CardAt(place) == [area |-> "card", half |-> 0, place |-> place, tag |-> "none"]
Io == [area |-> "dummy", half |-> 0, place |-> "io", tag |-> "io"]
Places == Regions \cup {"video", "debug", "io"}
Entries == [area : {"fast", "slow", "rom", "card", "debug", "dummy"}, half : {0, 1, 3},
            place : Places, tag : Tags]

(* SET_PAGE_INFO_RD and _WR over some pages: an entry written anew has no   *)
(* breakpoint.                                                              *)
SetRd(t, pages, E(_, _)) ==
  [t EXCEPT !.rd = [p \in Pages |-> IF p \in pages THEN E(p[1], p[2]) ELSE @[p]],
            !.brkRd = @ \ pages]
SetWr(t, pages, E(_, _)) ==
  [t EXCEPT !.wr = [p \in Pages |-> IF p \in pages THEN E(p[1], p[2]) ELSE @[p]],
            !.brkWr = @ \ pages]

(* fixup_brks *)
MarkBreaks(t, brks) == [t EXCEPT !.brkRd = @ \cup brks, !.brkWr = @ \cup brks]

-----------------------------------------------------------------------------
(* Bank 0 and its auxiliary bank                                            *)

(* Which text and hires page of which bank is shadowed; the auxiliary hires *)
(* pages are also part of the super hires screen.                           *)
AuxHires(s, bit) == s.inhibit \cap {bit, 4} = {} \/ 3 \notin s.inhibit
Text2(s) == 5 \notin s.inhibit /\ (Rom # 1 \/ s.userShadow)

(* fixup_bank0_0400_0800 *)
FixText1(s, t) ==
  LET auxRd == IF s.st80 THEN s.showPage2 ELSE s.ramrd
      auxWr == IF s.st80 THEN s.showPage2 ELSE s.ramwrt
      pages == Even \X {"text1"}
  IN  SetWr(SetRd(t, pages, LAMBDA b, r : Mem(b, IF auxRd THEN 1 ELSE 0, r, "none")), pages,
            LAMBDA b, r : Mem(b, IF auxWr THEN 1 ELSE 0, r,
                              IF 0 \in s.inhibit /\ b = "00" THEN "none"
                              ELSE IF auxWr THEN "shadow2" ELSE "shadow"))

(* fixup_bank0_2000_4000 *)
FixHires1(s, t) ==
  LET both == s.st80 /\ s.hires
      auxRd == IF both THEN s.showPage2 ELSE s.ramrd
      auxWr == IF both THEN s.showPage2 ELSE s.ramwrt
      pages == Even \X {"hires1"}
  IN  SetWr(SetRd(t, pages, LAMBDA b, r : Mem(b, IF auxRd THEN 1 ELSE 0, r, "none")), pages,
            LAMBDA b, r : Mem(b, IF auxWr THEN 1 ELSE 0, r,
                              IF auxWr THEN (IF AuxHires(s, 1) \/ b = "e0" THEN "shadow2" ELSE "none")
                              ELSE IF 1 \notin s.inhibit \/ b = "e0" THEN "shadow" ELSE "none"))

(* fixup_altzp *)
FixAltzp(s, t) ==
  LET E(b, r) == Mem(b, IF s.altzp THEN 1 ELSE 0, r, "none")
      pages == Even \X {"zp"}
  IN  SetWr(SetRd(t, pages, E), pages, E)

(* fixup_ramrd and fixup_ramwrt begin with the pages that 80STORE does not  *)
(* take for the display.                                                    *)
FixDisplay(s, t) ==
  LET Text(u) == IF s.st80 THEN u ELSE FixText1(s, u)
      Hires(u) == IF s.st80 /\ s.hires THEN u ELSE FixHires1(s, u)
  IN  Hires(Text(t))
Others == {"plain", "text2", "hires2", "shr"}

(* fixup_ramrd *)
FixRamrd(s, t) ==
  SetRd(FixDisplay(s, t), Even \X Others,
        LAMBDA b, r : Mem(b, IF s.ramrd THEN 1 ELSE 0, r, "none"))

(* fixup_ramwrt *)
FixRamwrt(s, t) ==
  LET aux == s.ramwrt
      Tag(b, r) ==
        CASE r = "plain"  -> "none"
          [] r = "text2"  -> IF ~Text2(s) /\ b = "00"
                             THEN "none" ELSE (IF aux THEN "shadow2" ELSE "shadow")
          [] r = "hires2" -> IF aux THEN (IF AuxHires(s, 2) \/ b = "e0" THEN "shadow2" ELSE "none")
                             ELSE (IF 2 \notin s.inhibit \/ b = "e0" THEN "shadow" ELSE "none")
          [] r = "shr"    -> (IF aux /\ (3 \notin s.inhibit \/ b = "e0") THEN "shadow2" ELSE "none")
  IN  SetWr(FixDisplay(s, t), Even \X Others,
            LAMBDA b, r : Mem(b, IF aux THEN 1 ELSE 0, r, Tag(b, r)))

FixPage2Text(s, t) ==                  \* mutant: the hires page is forgotten
  IF s.st80 THEN FixText1(s, t) ELSE t

FixPage2(s, t) ==                      \* fixup_page2
  LET Hires(u) == IF s.hires THEN FixHires1(s, u) ELSE u
  IN  IF s.st80 THEN Hires(FixText1(s, t)) ELSE t

FixSt80Unmarked(s, t, brks) ==         \* mutant: the breakpoints are not put back
  IF s.hires THEN FixHires1(s, FixText1(s, t)) ELSE FixText1(s, t)

(* fixup_st80col *)
FixSt80(s, t, brks) ==
  MarkBreaks((IF s.hires THEN FixHires1(s, FixText1(s, t)) ELSE FixText1(s, t)), brks)

(* fixup_hires_on *)
FixHiresOn(s, t, brks) == IF s.st80 THEN MarkBreaks(FixHires1(s, t), brks) ELSE t

-----------------------------------------------------------------------------
(* $C000-$FFFF                                                              *)

Inhibited(s, b) == b \in Fast /\ 6 \in s.inhibit

(* fixup_intcx *)
FixIntcx(s, t, brks) ==
  LET pages == {b \in Banks : ~Inhibited(s, b)} \X {"c0", "c3", "c4", "c7", "c8", "cf"}
      Slot == [c3 |-> 3, c4 |-> 4, c7 |-> 7]
      E(b, r) ==
        CASE r = "c0" -> Io
          [] r = "c3" /\ ~s.intc8 -> Io
          [] r \in DOMAIN Slot /\ (Slot[r] \notin s.card \/ s.intcx) /\ (r = "c3" => s.intc8) -> RomAt(r)
          [] r = "c4" /\ 4 \in s.card /\ ~s.intcx -> Io
          [] r \in {"c3", "c7"} /\ Slot[r] \in s.card /\ ~s.intcx /\ (r = "c3" => s.intc8) -> CardAt(r)
          [] r = "c8" -> (IF s.intcx \/ s.intc8 THEN RomAt(r) ELSE Io)
          [] r = "cf" -> (IF s.intcx /\ ~s.intc8 THEN RomAt(r) ELSE Io)
  IN  MarkBreaks(SetWr(SetRd(t, pages, E), pages, LAMBDA b, r : Io), brks)

(* fixup_lc: with I/O inhibited banks 0 and 1 have plain memory.  In $D0 the *)
(* banks $E0 and $E1 read from bank 1 of the card only if not RDROM.        *)
FixLc(s, t) ==
  LET pages == Banks \X {"d0", "e0"}
      H(b) == IF b \in Even /\ s.altzp THEN 1 ELSE Half(b)
      second(b) == s.lcbank2 /\ ~Inhibited(s, b)
      rom(b) == s.rdrom /\ ~Inhibited(s, b)
      Place(r, shifted) == IF r = "d0" /\ shifted THEN "c0" ELSE r
  IN  SetWr(SetRd(t, pages,
              LAMBDA b, r : IF b \in Fast /\ rom(b) THEN RomAt(r)
                            ELSE Mem(b, H(b), Place(r, ~second(b) /\ ~rom(b)), "none")),
            pages,
            LAMBDA b, r : Mem(b, H(b), Place(r, ~second(b)),
                              (IF b \in Fast /\ ~s.wrdefram /\ ~Inhibited(s, b) THEN "readonly" ELSE "none")))

-----------------------------------------------------------------------------
(* set_statereg: the switches s became n                                    *)

SetStatereg(s, n, t, brks) ==
  LET Differ(fields) == \E f \in fields : s[f] # n[f]
      Card(u) == IF Differ({"wrdefram", "altzp", "rdrom", "lcbank2"}) THEN FixLc(n, u) ELSE u
      Zp(u) == IF Differ({"altzp"}) THEN FixAltzp(n, u) ELSE u
      Page2(u) == IF Differ({"page2"}) THEN FixPage2(n, u) ELSE u
      Rd(u) == IF Differ({"ramrd"}) THEN FixRamrd(n, u) ELSE u
      Wrt(u) == IF Differ({"ramwrt"}) THEN FixRamwrt(n, u) ELSE u
      Intcx(u) == IF Differ({"intc8", "intcx"}) THEN FixIntcx(n, u, brks) ELSE u
  IN  IF s = n THEN t ELSE MarkBreaks(Intcx(Wrt(Rd(Page2(Zp(Card(t)))))), brks)

(* The bit of PAGE2 is copied to the display's status when it changes.      *)
WithPage2(s, n) == IF s.page2 # n.page2 THEN [n EXCEPT !.showPage2 = n.page2] ELSE n

-----------------------------------------------------------------------------
(* $C035                                                                    *)

(* fixup_shadow_txt1, _txt2, _hires1, _hires2, _shr: bank 0 and bank 1      *)
ShadowBank1(s, t, region, on) ==
  SetWr(t, {<<"01", region>>}, LAMBDA b, r : Mem(b, 1, r, IF on THEN "shadow2" ELSE "none"))

ShadowText1(s, t) == ShadowBank1(s, FixText1(s, t), "text1", 0 \notin s.inhibit)

ShadowText2(s, t) ==
  ShadowBank1(s, SetWr(t, {<<"00", "text2">>},
                       LAMBDA b, r : Mem(b, IF s.ramwrt THEN 1 ELSE 0, r,
                         IF ~Text2(s) THEN "none" ELSE IF s.ramwrt THEN "shadow2" ELSE "shadow")),
              "text2", Text2(s))

ShadowHires1(s, t) == ShadowBank1(s, FixHires1(s, t), "hires1", AuxHires(s, 1))

ShadowHires2Main(s, t) ==              \* mutant: with RAMWRT the copy goes to the main screen
  ShadowBank1(s, SetWr(t, {<<"00", "hires2">>},
                       LAMBDA b, r : Mem(b, IF s.ramwrt THEN 1 ELSE 0, r,
                                         IF 2 \notin s.inhibit THEN "shadow" ELSE "none")),
              "hires2", AuxHires(s, 2))

ShadowHires2(s, t) ==
  ShadowBank1(s, SetWr(t, {<<"00", "hires2">>},
                       LAMBDA b, r : IF s.ramwrt
                                     THEN Mem(b, 1, r, (IF AuxHires(s, 2) THEN "shadow2" ELSE "none"))
                                     ELSE Mem(b, 0, r, IF 2 \notin s.inhibit THEN "shadow" ELSE "none")),
              "hires2", AuxHires(s, 2))

ShadowShr(s, t) ==
  ShadowBank1(s, SetWr(t, {<<"00", "shr">>},
                       LAMBDA b, r : Mem(b, IF s.ramwrt THEN 1 ELSE 0, r,
                                         IF s.ramwrt /\ 3 \notin s.inhibit THEN "shadow2" ELSE "none")),
              "shr", 3 \notin s.inhibit)

(* fixup_shadow_iolc *)
ShadowIolc(s, t, brks) ==
  IF 6 \notin s.inhibit THEN FixLc(s, FixIntcx(s, t, brks))
  ELSE LET H(b, r) == IF r \in {"d0", "e0"} /\ b = "00" /\ s.altzp THEN 1 ELSE Half(b)
           E(b, r) == Mem(b, H(b, r), CASE r = "d0" -> "c0" [] r = "e0" -> "e0" [] OTHER -> "d0", "none")
           pages == Fast \X {"c0", "c3", "c4", "c7", "c8", "cf", "d0", "e0"}
       IN  SetWr(SetRd(t, pages, E), pages, E)

(* update_shadow_reg: the bits of $C035 that changed, in the order in which *)
(* the code deals with them and crosses them off                            *)
UpdateShadow(s, n, t, brks) ==
  LET changed == (s.inhibit \ n.inhibit) \cup (n.inhibit \ s.inhibit)
      left == IF 3 \in changed THEN changed \ {1, 2, 4} ELSE changed
      last == IF 4 \in left THEN left \ {1, 2} ELSE left
      Hires(u) == ShadowHires2(n, ShadowHires1(n, u))
      Super(u) == IF 3 \in changed THEN ShadowShr(n, Hires(u)) ELSE u
      Aux(u) == IF 4 \in left THEN Hires(u) ELSE u
      Hires1(u) == IF 1 \in last THEN ShadowHires1(n, u) ELSE u
      Hires2(u) == IF 2 \in last THEN ShadowHires2(n, u) ELSE u
      Text1(u) == IF 0 \in last THEN ShadowText1(n, u) ELSE u
      Txt2(u) == IF 5 \in last /\ (Rom # 1 \/ n.userShadow) THEN ShadowText2(n, u) ELSE u
      Iolc(u) == IF 6 \in last THEN ShadowIolc(n, u, brks) ELSE u
  IN  IF changed = {} THEN t
      ELSE MarkBreaks(Iolc(Txt2(Text1(Hires2(Hires1(Aux(Super(t))))))), brks)

(* fixup_shadow_all_banks *)
ShadowAllBanks(s, t, brks) ==
  MarkBreaks(SetWr(t, {Odd},
               LAMBDA b, r : [area |-> "fast", half |-> 3, place |-> r,
                              tag |-> (IF s.allBanks /\ 3 \notin s.inhibit THEN "shadow2" ELSE "none")]), brks)
-----------------------------------------------------------------------------
(* setup_pageinfo: all tables anew.  The debug buffer comes last of all,    *)
(* after the breakpoints.                                                   *)
Blank ==
  LET E(b, r) == IF <<b, r>> = Odd THEN [area |-> "fast", half |-> 3, place |-> r, tag |-> "none"]
                 ELSE IF <<b, r>> = Debug THEN Io ELSE Mem(b, Half(b), r, "none")
      Shown == {"text1", "text2", "hires1", "hires2", "shr"}
  IN  [ rd |-> [p \in Pages |-> E(p[1], p[2])],
        wr |-> [p \in Pages |-> IF p[2] \notin Shown \/ p[1] \notin Slow THEN E(p[1], p[2])
                                ELSE [E(p[1], p[2]) EXCEPT !.tag = (IF p[1] = "e0" THEN "shadow" ELSE "shadow2")]],
        brkRd |-> {}, brkWr |-> {} ]

DebugBuffer(t) ==
  LET E(b, r) == [area |-> "debug", half |-> 0, place |-> r, tag |-> "none"]
  IN  SetWr(SetRd(t, {Debug}, E), {Debug}, E)

Setup(s, brks) ==
  LET t1 == FixText1(s, FixHires1(s, FixLc(s, FixIntcx(s, ShadowAllBanks(s, Blank, brks), brks))))
      t2 == FixRamwrt(s, FixRamrd(s, FixAltzp(s, t1)))
      t3 == ShadowHires2(s, ShadowHires1(s, ShadowText2(s, ShadowText1(s, t2))))
  IN  DebugBuffer(MarkBreaks(ShadowIolc(s, ShadowShr(s, t3), brks), brks))

-----------------------------------------------------------------------------
(* Actions: the accesses and keys that change a switch                      *)

Become(n) ==
  /\ sw' = WithPage2(sw, n)
  /\ map' = SetStatereg(sw, WithPage2(sw, n), map, breaks)
  /\ UNCHANGED breaks

(* $C002-$C009, $C054 and $C055 *)
SoftSwitch(f, on) == Become([sw EXCEPT ![f] = on])

(* $C068: the eight bits of the register at once                            *)
WriteC068(n) ==
  Become([sw EXCEPT !.altzp = n.altzp, !.page2 = n.page2, !.ramrd = n.ramrd, !.ramwrt = n.ramwrt,
                    !.rdrom = n.rdrom, !.lcbank2 = n.lcbank2, !.intcx = n.intcx])

(* $C080-$C08F: a0, a1 and a3 are bits of the address.  Writing is enabled  *)
(* by two odd reads, forbidden by any even access.                          *)
LanguageCard(a0, a1, a3, read) ==
  Become([sw EXCEPT !.lcbank2 = ~a3, !.rdrom = (a0 # a1), !.prewrite = (read /\ a0),
                    !.wrdefram = a0 /\ (@ \/ (read /\ sw.prewrite))])

(* An access to $C3xx of a page that is left to io_read or io_write         *)
AccessC3(b) ==
  /\ Io \in {map.rd[<<b, "c3">>], map.wr[<<b, "c3">>]}
  /\ 3 \notin sw.card
  /\ Become([sw EXCEPT !.intc8 = TRUE])

(* $CFFF *)
AccessCfff(b) ==
  /\ Io \in {map.rd[<<b, "cf">>], map.wr[<<b, "cf">>]}
  /\ Become([sw EXCEPT !.intc8 = FALSE])

(* $C000 and $C001 *)
Set80Store(on) ==
  /\ sw.st80 # on
  /\ sw' = [sw EXCEPT !.st80 = on]
  /\ map' = FixSt80(sw', map, breaks)
  /\ UNCHANGED breaks

(* $C056 and $C057 *)
SetHires(on) ==
  /\ sw.hires # on
  /\ sw' = [sw EXCEPT !.hires = on]
  /\ map' = FixHiresOn(sw', map, breaks)
  /\ UNCHANGED breaks

(* $C02D, and $C00A and $C00B for slot 3                                    *)
SetCards(cards) ==
  /\ cards # sw.card
  /\ sw' = [sw EXCEPT !.card = cards]
  /\ map' = FixIntcx(sw', map, breaks)
  /\ UNCHANGED breaks

WriteC035(bits) ==
  /\ sw' = [sw EXCEPT !.inhibit = bits]
  /\ map' = UpdateShadow(sw, sw', map, breaks)
  /\ UNCHANGED breaks

(* $C036 *)
SetAllBanks(on) ==
  /\ sw.allBanks # on
  /\ sw' = [sw EXCEPT !.allBanks = on]
  /\ map' = ShadowAllBanks(sw', map, breaks)
  /\ UNCHANGED breaks

Fresh(s) ==
  [s EXCEPT !.altzp = FALSE, !.page2 = FALSE, !.ramrd = FALSE, !.ramwrt = FALSE,
            !.rdrom = TRUE, !.lcbank2 = TRUE, !.intcx = TRUE,
            !.prewrite = FALSE, !.wrdefram = TRUE, !.intc8 = FALSE,
            !.card = {}, !.inhibit = {}]

(* do_reset.  In the control panel the display's status is left alone       *)
(* (video_reset).                                                           *)
DoReset(panel) ==
  /\ sw' = IF panel THEN Fresh(sw)
           ELSE [Fresh(sw) EXCEPT !.st80 = FALSE, !.hires = FALSE, !.showPage2 = FALSE]
  /\ map' = Setup(sw', breaks)
  /\ UNCHANGED breaks

(* set_bp *)
SetBreak(p) ==
  /\ breaks' = breaks \cup {p}
  /\ map' = MarkBreaks(map, breaks')
  /\ UNCHANGED sw

(* delete_bp and debug_bp_clear_all *)
DeleteBreaks(pages) ==
  /\ breaks \cap pages # {}
  /\ breaks' = breaks \ pages
  /\ map' = Setup(sw, breaks')
  /\ UNCHANGED sw

(* The configuration is read before memory is set up.                      *)
MemInit ==
  \E shadowed \in BOOLEAN :
  /\ sw = [ altzp |-> FALSE, page2 |-> FALSE, ramrd |-> FALSE, ramwrt |-> FALSE,
            rdrom |-> TRUE, lcbank2 |-> TRUE, intcx |-> TRUE,
            prewrite |-> FALSE, wrdefram |-> TRUE, intc8 |-> FALSE,
            st80 |-> FALSE, hires |-> FALSE, showPage2 |-> FALSE,
            card |-> {}, inhibit |-> {}, allBanks |-> FALSE, userShadow |-> shadowed ]
  /\ breaks = {}
  /\ map = Setup(sw, breaks)

(* Any program, and the debugger                                            *)
MemNext ==
  \/ \E f \in {"altzp", "page2", "ramrd", "ramwrt"}, on \in BOOLEAN : SoftSwitch(f, on)
  \/ \E on \in BOOLEAN : SoftSwitch("intcx", on) \/ Set80Store(on) \/ SetHires(on) \/ SetAllBanks(on)
  \/ \E n \in Switches : WriteC068(n)
  \/ \E a0, a1, a3, read \in BOOLEAN : LanguageCard(a0, a1, a3, read)
  \/ \E b \in Banks : AccessC3(b) \/ AccessCfff(b)
  \/ \E cards \in SUBSET Slots : SetCards(cards)
  \/ \E bits \in SUBSET (0..6) : WriteC035(bits)
  \/ \E panel \in BOOLEAN : DoReset(panel)
  \/ \E p \in BreakPages : SetBreak(p)
  \/ \E pages \in SUBSET BreakPages : DeleteBreaks(pages)

memVars == <<sw, map, breaks>>
MemSpec == MemInit /\ [][MemNext]_memVars

-----------------------------------------------------------------------------
(* Properties                                                               *)

MemTypeOK ==
  /\ sw \in Switches
  /\ breaks \subseteq BreakPages
  /\ DOMAIN map.rd = Pages /\ DOMAIN map.wr = Pages
  /\ \A p \in Pages : map.rd[p] \in Entries /\ map.wr[p] \in Entries
  /\ map.brkRd \cup map.brkWr \subseteq Pages

(* However the switches were reached, in one write or in many and in any    *)
(* order, each page has the entries that setup_pageinfo would give it: what *)
(* the fixup functions leave out as unchanged is indeed unchanged.  $C035   *)
(* alone does not renew the odd banks.                                      *)
TablesFollowSwitches ==
  LET Same(t, p) == map.rd[p] = t.rd[p] /\ map.wr[p] = t.wr[p]
      now == Setup(sw, breaks)
      unlike == Setup([sw EXCEPT !.inhibit = (@ \ {3}) \cup ({3} \ @)], breaks)
  IN  \A p \in Pages : Same(now, p) \/ (p = Odd /\ Same(unlike, p))

(* The tables are tables, and the switches' own.                            *)
MapFollowsSwitches == MemTypeOK /\ TablesFollowSwitches

(* Every page with a breakpoint leaves the engine's fast path, for reads and *)
(* for writes, and no other page does: a fixup that writes entries anew has  *)
(* to put the marks back.  The debug buffer is mapped after the marks.       *)
BreaksSeen ==
  /\ map.brkRd \ {Debug} = breaks \ {Debug}
  /\ map.brkWr \ {Debug} = breaks \ {Debug}

(* A write that is copied for the screen is copied to the half it goes to,  *)
(* whichever switch sent it there, and in the banks $E0 and $E1, the screen *)
(* itself, no write to a text or hires page is left out.                    *)
CopiesReachTheScreen ==
  /\ \A p \in Pages : /\ map.wr[p].tag = "shadow" => map.wr[p].half = 0
                      /\ map.wr[p].tag = "shadow2" => map.wr[p].half # 0
  /\ \A b \in Slow, r \in {"text1", "text2", "hires1", "hires2"} : map.wr[<<b, r>>].tag # "none"
=============================================================================
