--------------------------------- MODULE Adb ---------------------------------
(***************************************************************************)
(* The ADB microcontroller of the IIgs (adb.c): the commands a program      *)
(* writes to $C026 and the answers it reads there, the status and the       *)
(* interrupts of $C027, the keys kept for the keyboard's register 0 while   *)
(* the controller does not fetch them itself, and the mouse behind $C024.   *)
(* The keyboard's registers $C000, $C010 and $C025 are not part of it: a    *)
(* key that the controller fetches itself leaves this module, unless it     *)
(* asks for the desk manager.                                               *)
(*                                                                         *)
(* A byte is what the properties tell apart: a key's code, or "reply" for   *)
(* everything else the controller may answer.                               *)
(***************************************************************************)
EXTENDS Integers, SequencesExt

CONSTANTS
  Codes,         \* bytes a key may put into register 0 (code and up bit)
  ResetCodes,    \* those whose low bits are 0x7f, the reset key's
  Pad,           \* 0xff, which fills up an answer; also the reset key's release
  KbdReg0Size,   \* MAX_ADB_KBD_REG3
  Ops,           \* the commands the program uses
  Modes,         \* bits of the mode the program uses: "kbd_off", "mouse_off"
  KbdAddrs,      \* bus addresses the keyboard may get
  MouseAddrs,    \* and those the mouse may be looked for at
  KbdAddr,       \* the keyboard's after reset, 2
  MouseAddr,     \* the mouse's, 3
  Enables,       \* the interrupts the program may enable
  Rom3,          \* g_rom_version >= 3
  MaxX, MaxY,    \* mouse positions are those from <<0, 0>> to <<MaxX, MaxY>>
  MaxDelta,      \* 0x3f: the most one read of $C024 reports
  FifoSize,      \* ADB_MOUSE_FIFO
  Slow,          \* may half a second pass between two looks at the mouse?
  MaxKeys,       \* bound: keys pressed or released
  MaxMoves       \* bound: mouse events from the host; 0: the mouse is not looked at

NoReplyOps == {"abort", "flush", "disable_srq"}
ReplyOps   == {"read_modes", "read_config", "version", "char_sets", "layouts"}
ArgOps     == {"set_modes", "clear_modes", "set_config", "sync", "write_mem",
               "read_mem", "send_key", "cmd12", "cmd13", "listen3"}
AllOps     == NoReplyOps \cup ReplyOps \cup ArgOps
              \cup {"reset", "talk0", "talk3", "unknown"}

Addrs == KbdAddrs \cup MouseAddrs
Position == (0..MaxX) \X (0..MaxY)

ASSUME AdbAssumption ==
  /\ ResetCodes \subseteq Codes /\ Pad \in ResetCodes /\ "reply" \notin Codes
  /\ KbdReg0Size \in Nat \ {0} /\ Ops \subseteq AllOps
  /\ Modes \subseteq {"kbd_off", "mouse_off"}
  /\ KbdAddr \in KbdAddrs /\ MouseAddr \in MouseAddrs /\ KbdAddr # MouseAddr
  /\ Enables \subseteq {"mouse", "data", "kbd"}
  /\ Rom3 \in BOOLEAN /\ Slow \in BOOLEAN
  /\ MaxX \in Nat /\ MaxY \in Nat /\ MaxDelta \in Nat \ {0}
  /\ FifoSize \in Nat /\ FifoSize >= 2 /\ MaxKeys \in Nat /\ MaxMoves \in Nat

VARIABLES
  state,      \* g_adb_state: "idle", "in_cmd" or "sending"
  op, dev,    \* g_adb_cmd: command and device, while they are of use
  soFar,      \* g_adb_cmd_so_far, likewise
  data,       \* the first g_adb_data_pending bytes of g_adb_data
  intByte,    \* g_adb_interrupt_byte: bits 0x80, 0x20, 0x08, 0x01
  c027,       \* g_c027_val: the interrupts that are enabled
  irqs,       \* the controller's bits of g_irq_pending
  mode,       \* g_adb_mode
  kbdDev,     \* g_kbd_dev_addr
  kbdCtl,     \* g_kbd_ctl_addr
  mouseCtl,   \* g_mouse_ctl_addr
  reg0,       \* the first g_kbd_reg0_pos entries of g_kbd_reg0_data
  fifo,       \* g_mouse_fifo from 0 to g_mouse_fifo_pos
  a2, a2btn,  \* g_mouse_a2_x, g_mouse_a2_y, g_mouse_a2_button
  valid,      \* g_adb_mouse_valid_data
  coordY,     \* g_adb_mouse_coord
  warp,       \* g_warp_pointer
  complaint,  \* history: how the last access or event was complained about
  polite,     \* history: has the program kept to the protocol so far?
  owed,       \* history: keys given to register 0 and not yet answered
  hushed,     \* history: mouse data was withdrawn or not announced
  keys, moves \* keys and mouse events so far

cmdVars   == <<state, op, dev, soFar, data>>
confVars  == <<mode, kbdDev, kbdCtl, mouseCtl>>
keyVars   == <<reg0, owed, keys>>
mouseVars == <<fifo, a2, a2btn, valid, coordY, warp, hushed, moves>>
vars == <<cmdVars, intByte, c027, irqs, confVars, keyVars, mouseVars, complaint, polite>>

Entry == [at : Position, btn : BOOLEAN]

CmdTypeOK ==
  /\ state \in {"idle", "in_cmd", "sending"} /\ op \in Ops \cup {"none"} /\ dev \in Addrs
  /\ soFar \in 0..7
  /\ data \in Seq(Codes \cup {"reply"}) /\ Len(data) <= 4
  /\ state = "sending" => data # <<>>
  /\ state = "in_cmd" => op \in ArgOps
IntTypeOK ==
  /\ intByte \subseteq {"response", "desk", "srq", "len"}
  /\ c027 \subseteq Enables /\ irqs \subseteq {"data", "mouse", "srq"}
ConfTypeOK ==
  mode \subseteq Modes /\ kbdDev \in KbdAddrs /\ kbdCtl \in KbdAddrs /\ mouseCtl \in MouseAddrs
KeyTypeOK ==
  /\ reg0 \in Seq(Codes) /\ Len(reg0) <= KbdReg0Size /\ owed \in Seq(Codes)
  /\ keys \in 0..MaxKeys
MouseTypeOK ==
  /\ fifo \in Seq(Entry) /\ Len(fifo) \in 1..(FifoSize - 1)
  /\ a2 \in Int \X Int /\ a2btn \in BOOLEAN
  /\ valid \in BOOLEAN /\ coordY \in BOOLEAN /\ warp \in BOOLEAN
  /\ hushed \in BOOLEAN /\ moves \in 0..MaxMoves
TypeOK ==
  /\ CmdTypeOK /\ IntTypeOK /\ ConfTypeOK /\ KeyTypeOK /\ MouseTypeOK
  /\ complaint \in {"none", "toss", "pending", "no_response", "error"} /\ polite \in BOOLEAN

Init ==
  /\ state = "idle" /\ op = "none" /\ dev = KbdAddr /\ soFar = 0 /\ data = <<>>
  /\ intByte = {} /\ c027 = {} /\ irqs = {} /\ mode = {}
  /\ kbdDev = KbdAddr /\ kbdCtl = KbdAddr /\ mouseCtl = MouseAddr
  /\ reg0 = <<>> /\ owed = <<>> /\ keys = 0
  /\ fifo = <<[at |-> <<0, 0>>, btn |-> FALSE]>> /\ a2 = <<0, 0>> /\ a2btn = FALSE
  /\ valid = FALSE /\ coordY = FALSE /\ warp = FALSE /\ hushed = FALSE /\ moves = 0
  /\ complaint = "none" /\ polite = TRUE

-----------------------------------------------------------------------------
(* Interrupts and answers.                                                  *)

(* adb_add_data_int: requested only while it is enabled.                    *)
DataInt == IF "data" \in c027 THEN {"data"} ELSE {}

MouseOff == "mouse_off" \in mode \/ mouseCtl # MouseAddr

(* adb_send_bytes: the answer comes without an announcement.                *)
SendBytes(n) ==
  /\ data' = [i \in 1..n |-> "reply"] /\ irqs' = irqs \cup DataInt
  /\ UNCHANGED intByte

(* What adb_response_packet adds to the interrupt byte: 0x80 and the number *)
(* of bytes less one, which is 0 or 1.                                      *)
Announced(bytes) == {"response"} \cup (IF bytes = <<>> THEN {} ELSE {"len"})

(* The keys of one answer, and what the loop of adb_kbd_talk_reg0 leaves.   *)
TalkCount ==
  IF reg0 = <<>> THEN 0
  ELSE IF Len(reg0) = 1 \/ reg0[1] \in ResetCodes \/ reg0[2] \in ResetCodes THEN 1
  ELSE 2
(* mutant: the reset key may come second *)
TalkSecondAny ==
  IF reg0[1] \in ResetCodes THEN reg0[1] ELSE IF Len(reg0) > 1 THEN reg0[2] ELSE Pad
TalkSecond ==
  IF reg0[1] \in ResetCodes THEN reg0[1] ELSE IF TalkCount = 2 THEN reg0[2] ELSE Pad
Shifted(q, n) == IF n = 0 THEN q ELSE SubSeq(RemoveAt(q, n), 1, Len(q) - n)

(* adb_kbd_talk_reg0: the low byte of the register comes first.             *)
TalkReg0 ==
  LET bytes == IF reg0 = <<>> THEN <<>> ELSE <<TalkSecond, reg0[1]>>
      left  == Shifted(reg0, TalkCount)
      srq   == IF left = <<>> THEN {"srq"} ELSE {}
  IN /\ data' = bytes
     /\ intByte' = (intByte \cup Announced(bytes)) \ srq
     /\ irqs' = (irqs \cup DataInt) \ srq
     /\ reg0' = left
     /\ owed' = SubSeq(owed, TalkCount + 1, Len(owed))

(* adb_reset, called by do_reset; the modes and the mouse's fifo stay.      *)
AdbReset ==
  /\ c027' = {} /\ irqs' = {} /\ intByte' = {}
  /\ data' = <<>>
  /\ kbdDev' = KbdAddr /\ kbdCtl' = KbdAddr /\ mouseCtl' = MouseAddr
  /\ reg0' = <<>> /\ owed' = <<>>
  /\ valid' = FALSE /\ coordY' = FALSE
  /\ hushed' = (hushed \/ valid)
  /\ UNCHANGED <<mode, keys, fifo, a2, a2btn, warp, moves>>

-----------------------------------------------------------------------------
(* $C026 written while the controller waits for a command.                  *)

(* Nothing has been answered that the program has not read.                 *)
AllRead == data = <<>> /\ "response" \notin intByte

Command(o, d, next) ==
  /\ state = "idle" /\ o \in Ops
  /\ state' = next
  /\ op' = (IF next = "in_cmd" THEN o ELSE "none")
  /\ dev' = (IF next = "in_cmd" /\ o = "listen3" THEN d ELSE KbdAddr)
  /\ soFar' = 0

WriteNoReply(o, d) ==
  /\ o \in NoReplyOps /\ Command(o, d, "idle")
  /\ complaint' = "none" /\ polite' = (polite /\ AllRead)
  /\ UNCHANGED <<data, intByte, c027, irqs, confVars, keyVars, mouseVars>>

(* Commands with arguments; ROM 01 does not know two of them.               *)
WriteArgOp(o, d) ==
  /\ o \in ArgOps
  /\ IF o \in {"cmd12", "cmd13"} /\ ~Rom3
     THEN Command(o, d, "idle") /\ complaint' = "error" /\ polite' = FALSE
     ELSE Command(o, d, "in_cmd") /\ complaint' = "none" /\ polite' = (polite /\ AllRead)
  /\ UNCHANGED <<data, intByte, c027, irqs, confVars, keyVars, mouseVars>>

ReplyLen(o) ==
  IF o = "read_config" THEN 4 ELSE IF o \in {"char_sets", "layouts"} THEN 2 ELSE 1

WriteReplyOp(o, d) ==
  /\ o \in ReplyOps /\ Command(o, d, "sending") /\ SendBytes(ReplyLen(o))
  /\ complaint' = IF ReplyLen(o) = 1 /\ data # <<>> THEN "pending" ELSE "none"
  /\ polite' = (polite /\ AllRead)
  /\ UNCHANGED <<c027, confVars, keyVars, mouseVars>>

WriteReset(o, d) ==
  /\ o = "reset" /\ Command(o, d, "idle") /\ AdbReset
  /\ complaint' = "none" /\ polite' = TRUE

WriteTalk0(o, d) ==
  /\ o = "talk0" /\ Command(o, d, "idle")
  /\ polite' = (polite /\ AllRead /\ d = kbdDev /\ reg0 # <<>>)
  /\ IF d = kbdDev
     THEN TalkReg0 /\ complaint' = IF data # <<>> THEN "pending" ELSE "none"
     ELSE UNCHANGED <<data, intByte, irqs, reg0, owed>> /\ complaint' = "error"
  /\ UNCHANGED <<c027, confVars, keys, mouseVars>>

WriteTalk3(o, d) ==
  /\ o = "talk3" /\ Command(o, d, "idle")
  /\ polite' = (polite /\ AllRead /\ d = kbdDev)
  /\ IF d = kbdDev
     THEN /\ data' = <<"reply", "reply">> /\ intByte' = intByte \cup Announced(data')
          /\ irqs' = irqs \cup DataInt
          /\ complaint' = IF data # <<>> THEN "pending" ELSE "none"
     ELSE UNCHANGED <<data, intByte, irqs>> /\ complaint' = "error"
  /\ UNCHANGED <<c027, confVars, keyVars, mouseVars>>

WriteUnknown(o, d) ==
  /\ o = "unknown" /\ Command(o, d, "idle")
  /\ complaint' = "error" /\ polite' = FALSE
  /\ UNCHANGED <<data, intByte, c027, irqs, confVars, keyVars, mouseVars>>

(* $C026 written while the controller sends: the rest of the answer stays.  *)
WriteWhileSending ==
  /\ state = "sending" /\ state' = "idle"
  /\ complaint' = "error" /\ polite' = FALSE
  /\ UNCHANGED <<op, dev, soFar, data, intByte, c027, irqs, confVars, keyVars, mouseVars>>

-----------------------------------------------------------------------------
(* $C026 written inside a command: one byte of its arguments. What they say *)
(* matters with the last one, when do_adb_cmd runs.                         *)
CmdLen(o) ==
  IF o = "sync" THEN IF Rom3 THEN 8 ELSE 4
  ELSE IF o = "set_config" THEN 3
  ELSE IF o \in {"set_modes", "clear_modes", "send_key"} THEN 1 ELSE 2

WriteArg ==
  /\ state = "in_cmd" /\ soFar + 1 < CmdLen(op)
  /\ soFar' = soFar + 1 /\ complaint' = "none"
  /\ UNCHANGED <<state, op, dev, data, intByte, c027, irqs, confVars, keyVars, mouseVars,
                 polite>>

Done(o) ==
  /\ state = "in_cmd" /\ op = o /\ soFar + 1 = CmdLen(o)
  /\ op' = "none" /\ dev' = KbdAddr /\ soFar' = 0

(* A command's arguments are complained about if they are not proper.       *)
Judge(proper) ==
  complaint' = (IF proper THEN "none" ELSE "error") /\ polite' = (polite /\ proper)

(* adb_set_new_mode and adb_set_config.                                     *)
ProperMode(m)      == "mouse_off" \notin m
ProperConfig(m, k) == m = mouseCtl /\ k = kbdCtl

DoSetModes(m) ==
  /\ \/ Done("set_modes") /\ mode' = mode \cup m
     \/ Done("clear_modes") /\ mode' = mode \ m
  /\ Judge(ProperMode(mode'))
  /\ state' = "idle"
  /\ UNCHANGED <<data, intByte, c027, irqs, kbdDev, kbdCtl, mouseCtl, keyVars, mouseVars>>

DoSetConfig(m, k) ==
  /\ Done("set_config") /\ mouseCtl' = m /\ kbdCtl' = k
  /\ Judge(ProperConfig(m, k))
  /\ state' = "idle"
  /\ UNCHANGED <<data, intByte, c027, irqs, mode, kbdDev, keyVars, mouseVars>>

DoSync(s, m, k) ==
  /\ Done("sync") /\ mode' = s /\ mouseCtl' = m /\ kbdCtl' = k
  /\ Judge(ProperMode(s) /\ ProperConfig(m, k))
  /\ state' = "idle"
  /\ UNCHANGED <<data, intByte, c027, irqs, kbdDev, keyVars, mouseVars>>

DoNothing ==
  /\ Done("write_mem") \/ Done("cmd12") \/ Done("cmd13")
  /\ state' = "idle" /\ complaint' = "none"
  /\ UNCHANGED <<data, intByte, c027, irqs, confVars, keyVars, mouseVars, polite>>

DoReadMem ==
  /\ Done("read_mem") /\ state' = "sending" /\ SendBytes(1)
  /\ complaint' = IF data # <<>> THEN "pending" ELSE "none"
  /\ UNCHANGED <<c027, confVars, keyVars, mouseVars, polite>>

(* Listen to register 3: the keyboard may be moved, the mouse may not.      *)
DoListen3(addr, handler) ==
  /\ Done("listen3")
  /\ kbdDev' = IF dev = kbdDev /\ handler = "move" THEN addr ELSE kbdDev
  /\ Judge(dev \in {kbdDev, MouseAddr} /\ addr = dev
           /\ (handler = "known" \/ (dev = kbdDev /\ handler = "move")))
  /\ state' = "idle"
  /\ UNCHANGED <<data, intByte, c027, irqs, mode, kbdCtl, mouseCtl, keyVars, mouseVars>>

(* adb_key_event of the escape key with control and command down.           *)
DeskManager == intByte' = intByte \cup {"desk"} /\ irqs' = irqs \cup DataInt

DoSendKey ==
  /\ Done("send_key")
  /\ DeskManager \/ UNCHANGED <<intByte, irqs>>
  /\ state' = "idle" /\ complaint' = "none"
  /\ UNCHANGED <<data, c027, confVars, keyVars, mouseVars, polite>>

-----------------------------------------------------------------------------
(* $C026 read, $C027 written.                                               *)

(* The interrupt byte after it has been read: the keyboard's request remains. *)
(* mutant: nothing remains *)
StatusAfterNone == {}
(* mutant: everything remains *)
StatusAfterAll == intByte
StatusAfter == irqs \cap {"srq"}

ReadStatus ==
  /\ state = "idle" /\ intByte' = StatusAfter
  /\ IF data = <<>>
     THEN /\ irqs' = irqs \ {"data"} /\ UNCHANGED state
          /\ complaint' = IF "response" \in intByte THEN "no_response" ELSE "none"
     ELSE state' = "sending" /\ UNCHANGED irqs /\ complaint' = "none"
  /\ UNCHANGED <<op, dev, soFar, data, c027, confVars, keyVars, mouseVars, polite>>

(* mutant: the request survives the last byte *)
ReadDataQuiet ==
  /\ state = "sending" /\ data' = Tail(data)
  /\ state' = IF Len(data) = 1 THEN "idle" ELSE state
  /\ complaint' = "none"
  /\ UNCHANGED <<op, dev, soFar, intByte, c027, irqs, confVars, keyVars, mouseVars, polite>>
ReadData ==
  /\ state = "sending" /\ data' = Tail(data)
  /\ IF Len(data) = 1 THEN state' = "idle" /\ irqs' = irqs \ {"data"}
                      ELSE UNCHANGED <<state, irqs>>
  /\ complaint' = "none"
  /\ UNCHANGED <<op, dev, soFar, intByte, c027, confVars, keyVars, mouseVars, polite>>

(* The requests that go when their interrupts are disabled.                 *)
Disabled(s) == (c027 \ s) \cap {"mouse", "data"}

WriteC027(s) ==
  /\ c027' = s /\ irqs' = irqs \ Disabled(s)
  /\ complaint' = (IF "kbd" \in s THEN "error" ELSE "none")
  /\ polite' = (polite /\ "kbd" \notin s)
  /\ UNCHANGED <<cmdVars, intByte, confVars, keyVars, mouseVars>>

(* What $C027 says about data for $C026.                                    *)
DataValid == intByte # {} \/ (data # <<>> /\ state # "in_cmd")

-----------------------------------------------------------------------------
(* The host's keys and the reset.                                           *)

Autopoll == "kbd_off" \notin mode /\ kbdDev = kbdCtl

(* mutant: one key too many *)
FullPast(q) == Len(q) > KbdReg0Size
Full(q) == Len(q) >= KbdReg0Size

(* adb_kbd_reg0_data: the controller does not fetch the key itself.         *)
HostKey(b) ==
  /\ keys < MaxKeys /\ keys' = keys + 1 /\ ~Autopoll
  /\ IF Full(reg0)
     THEN complaint' = "toss" /\ UNCHANGED <<reg0, owed, intByte, irqs>>
     ELSE /\ complaint' = "none"
          /\ reg0' = Append(reg0, b) /\ owed' = Append(owed, b)
          /\ intByte' = intByte \cup {"srq"} /\ irqs' = irqs \cup {"srq"}
  /\ UNCHANGED <<cmdVars, c027, confVars, mouseVars, polite>>

(* A key that it does fetch, as it always does while the control panel is   *)
(* shown, asks for the desk manager.                                        *)
HostDeskManager ==
  /\ keys < MaxKeys /\ keys' = keys + 1
  /\ DeskManager /\ complaint' = "none"
  /\ UNCHANGED <<cmdVars, c027, confVars, reg0, owed, mouseVars, polite>>

Reset ==
  /\ AdbReset /\ op' = "none" /\ dev' = KbdAddr /\ soFar' = 0
  /\ state' = "idle" /\ complaint' = "none" /\ polite' = TRUE

-----------------------------------------------------------------------------
(* The mouse. fifo[1] is g_mouse_fifo[0], where the host's mouse is; the    *)
(* entries behind it are where the button changed, the oldest last.         *)

(* mouse_compress_fifo: entries older than half a second are dropped, from  *)
(* the oldest on; how many have got that old is open.                       *)
Compressed == IF Slow THEN {SubSeq(fifo, 1, n) : n \in 1..Len(fifo)} ELSE {fifo}

(* adb_update_mouse: a new entry keeps the button's old state at the place   *)
(* of its change, as long as there is room.                                 *)
Moved(f, at, btn) ==
  LET here == [at |-> at, btn |-> f[1].btn]
      room == Len(f) - 1 < FifoSize - 2
  IN <<[at |-> at, btn |-> btn]>>
     \o (IF btn # f[1].btn /\ room THEN <<here>> ELSE <<>>) \o Tail(f)

HostMouse(at, btn) ==
  /\ moves < MaxMoves /\ moves' = moves + 1
  /\ \E f \in Compressed :
       LET news == at # f[1].at \/ btn # f[1].btn
       IN /\ fifo' = Moved(f, at, btn)
          /\ valid' = (valid \/ (news /\ ~MouseOff))
          /\ irqs' = irqs \cup (IF news /\ ~MouseOff THEN c027 \cap {"mouse"} ELSE {})
          /\ hushed' = IF news THEN MouseOff ELSE hushed
  /\ complaint' = "none"
  /\ UNCHANGED <<cmdVars, intByte, c027, confVars, keyVars, a2, a2btn, coordY, warp, polite>>

(* The host's pointer is put back to the middle of the window: no motion.   *)
HostWarp(at) ==
  /\ moves < MaxMoves /\ moves' = moves + 1 /\ warp
  /\ \E f \in Compressed :
       /\ fifo' = [f EXCEPT ![1].at = at]
       /\ a2' = <<a2[1] + at[1] - f[1].at[1], a2[2] + at[2] - f[1].at[2]>>
  /\ complaint' = "none"
  /\ UNCHANGED <<cmdVars, intByte, c027, irqs, confVars, keyVars, a2btn, valid, coordY, warp,
                 hushed, polite>>

(* F8: whether the pointer is warped.                                       *)
HostToggleWarp ==
  /\ moves < MaxMoves /\ moves' = moves + 1
  /\ warp' = ~warp /\ complaint' = "none"
  /\ UNCHANGED <<cmdVars, intByte, c027, irqs, confVars, keyVars, fifo, a2, a2btn, valid,
                 coordY, hushed, polite>>

Clamp(d) == IF d > MaxDelta THEN MaxDelta ELSE IF d < -MaxDelta THEN -MaxDelta ELSE d

(* mouse_read_c024 of a mouse that is off, or that the controller does not   *)
(* find: nothing is reported.                                               *)
ReadMouseOff ==
  /\ MouseOff
  /\ valid' = FALSE /\ irqs' = irqs \ {"mouse"} /\ hushed' = (hushed \/ valid)
  /\ complaint' = "none"
  /\ UNCHANGED <<cmdVars, intByte, c027, confVars, keyVars, fifo, a2, a2btn, coordY, warp,
                 moves, polite>>

(* The button a read reports: with the y coordinate, and no more to move    *)
(* than this read can say, it is already that of the entry in front.        *)
Button(f, d) ==
  LET clamped == \E i \in 1..2 : Clamp(d[i]) # d[i]
  IN IF Len(f) > 1 /\ ~clamped /\ coordY THEN f[Len(f) - 1].btn ELSE f[Len(f)].btn

(* mutant: the entry goes only once the mouse's own place has been reached *)
PoppedAtMouse(f, at, btn, seen) ==
  IF Len(f) > 1 /\ f[1].at = at /\ seen = btn THEN Front(f) ELSE f
(* The fifo after a read: its last entry goes once it has been reached.     *)
Popped(f, at, btn, seen) ==
  IF Len(f) > 1 /\ f[Len(f)].at = at /\ seen = btn THEN Front(f) ELSE f

(* mutant: the button is not looked at *)
CaughtUpAnyButton(f, at, btn) == Len(f) = 1 /\ f[1].at = at
CaughtUp(f, at, btn) == Len(f) = 1 /\ f[1].at = at /\ f[1].btn = btn

ReadMouse ==
  /\ ~MouseOff /\ MaxMoves > 0
  /\ \E f \in Compressed :
       LET target == f[Len(f)].at
           d      == <<target[1] - a2[1], target[2] - a2[2]>>
           btn    == Button(f, d)
       IN /\ a2' = IF coordY THEN <<a2[1], a2[2] + Clamp(d[2])>>
                             ELSE <<a2[1] + Clamp(d[1]), a2[2]>>
          /\ a2btn' = IF coordY THEN btn ELSE a2btn
          /\ fifo' = Popped(f, a2', btn, a2btn')
          /\ LET done == CaughtUp(fifo', a2', a2btn')
             IN /\ valid' = (valid /\ ~done)
                /\ irqs' = IF done THEN irqs \ {"mouse"} ELSE irqs
  /\ coordY' = ~coordY /\ complaint' = "none"
  /\ UNCHANGED <<cmdVars, intByte, c027, confVars, keyVars, warp, hushed, moves, polite>>

-----------------------------------------------------------------------------
WriteCommand(o, d) ==
  \/ WriteNoReply(o, d) \/ WriteArgOp(o, d) \/ WriteReplyOp(o, d) \/ WriteReset(o, d)
  \/ WriteTalk0(o, d) \/ WriteTalk3(o, d) \/ WriteUnknown(o, d)

LastArg ==
  \/ \E m \in SUBSET Modes : DoSetModes(m)
  \/ \E m \in MouseAddrs, k \in KbdAddrs : DoSetConfig(m, k)
  \/ \E s \in SUBSET Modes, m \in MouseAddrs, k \in KbdAddrs : DoSync(s, m, k)
  \/ DoNothing \/ DoReadMem \/ DoSendKey
  \/ \E addr \in KbdAddrs, h \in {"move", "known", "other"} : DoListen3(addr, h)

(* What the program does.                                                   *)
Program ==
  \/ \E o \in Ops, d \in Addrs : WriteCommand(o, d)
  \/ WriteWhileSending \/ WriteArg \/ LastArg
  \/ ReadStatus \/ ReadData
  \/ \E s \in SUBSET Enables : WriteC027(s)
  \/ ReadMouse \/ ReadMouseOff

(* What the host and the user do.                                           *)
Host ==
  \/ \E b \in Codes : HostKey(b)
  \/ HostDeskManager \/ Reset
  \/ \E at \in Position, btn \in BOOLEAN : HostMouse(at, btn)
  \/ \E at \in Position : HostWarp(at)
  \/ HostToggleWarp

Next == Program \/ Host

(* The program looks at the mouse over and over.                            *)
Fairness == WF_vars(ReadMouse \/ ReadMouseOff)

Spec == Init /\ [][Next]_vars /\ Fairness

-----------------------------------------------------------------------------
(* A data interrupt is requested only while it is enabled and $C027 shows    *)
(* that there is something to read: the handler is never entered for         *)
(* nothing. adb_add_data_int and adb_clear_data_int are called from six     *)
(* places (adb.c) that have to agree on it.                                 *)
DataIrqHasData == "data" \in irqs => "data" \in c027 /\ (DataValid \/ state = "in_cmd")

(* The keyboard's service request, its bit of the interrupt byte and the    *)
(* keys waiting for a Talk say the same, whatever is read, asked for or     *)
(* reset in between (adb_add_kbd_srq, adb_clear_kbd_srq, adb_read_c026).    *)
SrqSaysKeys ==
  /\ "srq" \in irqs <=> reg0 # <<>>
  /\ "srq" \in irqs <=> "srq" \in intByte

(* A program that reads every answer before it asks again, and asks for keys *)
(* only when there are some, never runs into one of adb.c's own alarms      *)
(* (halt_printf and adb_error), whatever the user does meanwhile.           *)
PoliteNeverHalts == polite => complaint \in {"none", "toss"}

(* The reset key is reported alone: "If first byte some other key, don't     *)
(* put RESET next" (adb_kbd_talk_reg0).                                      *)
ResetKeyAlone ==
  Len(data) = 2 /\ "reply" \notin {data[1], data[2]} =>
    (data[1] \in ResetCodes \ {Pad} \/ data[2] \in ResetCodes => data[1] = data[2])

(* A mouse interrupt is requested only while it is enabled and there is      *)
(* mouse data.                                                              *)
MouseIrqHasData == "mouse" \in irqs => "mouse" \in c027 /\ valid

(* Both interrupts are requested only while enabled and with something to    *)
(* read: no handler is ever entered for nothing. adb.c adds, clears and      *)
(* disables them in a dozen places.                                         *)
IrqsHaveData == DataIrqHasData /\ MouseIrqHasData

(* When no mouse data is announced the program has seen the last position   *)
(* and the last state of the button, unless the mouse was off or a reset    *)
(* intervened: no motion is lost by the fifo, its compression or warping.   *)
MouseSeen == ~valid /\ ~hushed => fifo = <<[at |-> a2, btn |-> a2btn]>>

(* A program that goes on reading $C024 gets to the end of the mouse data.  *)
MouseDrains == valid ~> ~valid

(* Keys are answered in the order they were pressed, each once.             *)
KeysInOrder == reg0 = owed
=============================================================================
