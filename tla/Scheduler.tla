----------------------------- MODULE Scheduler ------------------------------
(***************************************************************************)
(* The emulator's scheduler (sim65816.c): run_16ms calls run_a2_one_vbl,    *)
(* which runs the CPU engine up to the first entry of the event list,       *)
(* handles what is due and returns when the 60 Hz event has been handled.   *)
(* With it the interrupt sources of the VGC ($C023, $C032, scan-line        *)
(* interrupts) and of the Mega II ($C041, $C046, $C047), whose bits, queued *)
(* events and interrupt requests have to agree.                             *)
(*                                                                          *)
(* Time is in the unit of dfcyc, of which a cycle has 2^16.  An instruction  *)
(* is one step: its length, and at most one access to a register that       *)
(* concerns the scheduler.                                                  *)
(***************************************************************************)
EXTENDS EventQueue

CONSTANTS
  LineCyc,      \* length of a video line (65 cycles)
  FrameLines,   \* lines per frame (262)
  VblLine,      \* line at which the vertical blanking starts (192)
  ShrLines,     \* lines of the super hires screen (200)
  LineRefs,     \* g_line_ref_amt: lines from one update of the screen to the next
  SecFrames,    \* frames between 1-second interrupts (60)
  QsecFrames,   \* frames between quarter-second interrupts (16)
  MinInstr, MaxInstr,   \* bounds on the time an instruction takes
  Devices,      \* numbers of the events owned by the DOC, SCC, Mockingboard
  MaxDelay,     \* the longest delay a device asks for
  Inputs,       \* which operations the program and the user perform
  MaxFrames,    \* bound: frames that may be started
  MaxStops      \* bound: stop events the debugger may queue

Frame == FrameLines * LineCyc   \* CYCLES_IN_16MS_RAW

InputNames == {"c023", "c032", "c041", "c047", "c029", "scb", "device",
               "psr", "wai", "speed", "halt", "step", "reset", "adbreset", "stop"}

ASSUME SchedulerAssumption ==
  /\ {LineCyc, FrameLines, MaxDelay, SecFrames, QsecFrames} \subseteq Nat \ {0}
  /\ LineRefs \subseteq Nat \ {0}
  /\ {MinInstr, MaxInstr} \subseteq Nat /\ MinInstr > 1
  /\ VblLine \in Nat /\ ShrLines \in Nat
  /\ VblLine <= ShrLines /\ ShrLines < FrameLines
  /\ Devices \subseteq Nat /\ IsFiniteSet(Devices)
  /\ Inputs \subseteq InputNames
  /\ MaxFrames \in Nat /\ MaxStops \in Nat
  /\ MaxInstr < Frame /\ Frame <= TooFar

Lines == 0..(ShrLines - 1)

(* Bits of the registers and of g_irq_pending.                              *)
C023Enables == {"SEC_EN", "SCAN_EN"}
C023Bits    == {"VGC", "SEC", "SCAN"} \cup C023Enables
MegaIIBits  == {"VBL", "QSEC"}
IrqSources  == {"SEC", "SCAN", "VBL", "QSEC", "DEVICE"}

VARIABLES
  pc,           \* where the main thread is
  queue,        \* g_event_start
  curCyc,       \* g_cur_dfcyc: time when the engine was last left
  dfcyc,        \* engine.dfcyc
  dcyclesEnd,   \* g_dcycles_end: the engine runs up to here
  dcyclesSave,  \* dcycles_end_save of enter_engine
  ret,          \* g_ret1
  lastVbl,      \* g_last_vbl_dfcyc
  scanAt,       \* g_dfcyc_scan_int, 0 when none is queued
  scanEvents,   \* g_scan_int_events
  irq,          \* g_irq_pending
  iFlag,        \* interrupt disable bit of the psr
  waiting,      \* g_wait_pending
  c023, c041, c046,   \* g_c023_val, g_c041_val, g_c046_val
  shr,          \* super hires bit of g_cur_a2_stat
  scb,          \* lines whose control byte asks for an interrupt
  secCnt, qsecCnt,    \* g_1sec_cntr, g_25sec_cntr
  halt,         \* g_halt_sim
  stepping,     \* g_stepping
  devPending,   \* the devices' own record of what they have queued
  stops         \* stop events the debugger has queued so far

timeVars   == <<curCyc, dfcyc, lastVbl>>
engineVars == <<dcyclesEnd, dcyclesSave, ret>>
scanVars   == <<scanAt, scanEvents>>
megaVars   == <<c041, c046>>
videoVars  == <<shr, scb>>
cntVars    == <<secCnt, qsecCnt>>
ctlVars    == <<halt, stepping>>
vars == <<pc, queue, timeVars, engineVars, scanVars, irq, iFlag, waiting, c023,
          megaVars, videoVars, cntVars, ctlVars, devPending, stops>>

-----------------------------------------------------------------------------
(* Interrupt requests *)

(* add_irq: a request that is new also ends the engine's inner loop.        *)
AddIrqOneAtATime(pending, mask) ==       \* mutant: any request blocks a new one
  IF pending # {} THEN pending ELSE pending \cup mask

AddIrq(pending, mask) ==
  IF pending \cap mask # {} THEN pending ELSE pending \cup mask

RemoveIrq(pending, mask) == pending \ mask

(* engine_recalc_events, called by add_irq and add_event_entry.             *)
Recalc(needed, end) == IF needed THEN 0 ELSE end

-----------------------------------------------------------------------------
(* Scan-line interrupts *)

Later(a, b) == IF a < b THEN b ELSE a

(* The scan-line part of the state as it changes inside a handler: the list *)
(* q, the engine's deadline end, g_dfcyc_scan_int at, g_scan_int_events on. *)
ScanState(q, end, at, on) == [q |-> q, end |-> end, at |-> at, on |-> on]

(* add_event_scan_int: keep an earlier one that is queued, else replace it. *)
AddEventScanInt(s, now, due, line) ==
  LET left == IF s.at # 0 THEN RemoveFirstAt(s.q, OfType(s.q, "SCAN_INT")) ELSE s.q
      when == Later(due, now)
  IN  IF s.at # 0 /\ due >= s.at
      THEN s
      ELSE ScanState(AddEvent(left, now, when, "SCAN_INT", line),
                     Recalc(NewHead(left, now, when), s.end), when, s.on)

(* check_scan_line_int: of the lines whose control byte asks, queue the     *)
(* first from start on.                                                     *)
CheckScanLineIntUnserved(s, c, lines, start, now, vbl) ==  \* mutant: $C023 ignored
  LET asking == {line \in lines : line >= start}
  IN  IF ~shr \/ asking = {} THEN s
      ELSE [AddEventScanInt(s, now, vbl + LineCyc * Min(asking), Min(asking))
              EXCEPT !.on = TRUE]

CheckScanLineIntAfter(s, c, lines, start, now, vbl) ==     \* mutant: off by one
  LET asking == {line \in lines : line > start}
  IN  IF ~shr \/ "SCAN" \in c \/ asking = {} THEN s
      ELSE [AddEventScanInt(s, now, vbl + LineCyc * Min(asking), Min(asking))
              EXCEPT !.on = TRUE]

CheckScanLineInt(s, c, lines, start, now, vbl) ==
  LET asking == {line \in lines : line >= start}
  IN  IF ~shr \/ "SCAN" \in c \/ asking = {}
      THEN s
      ELSE [AddEventScanInt(s, now, vbl + LineCyc * Min(asking), Min(asking))
              EXCEPT !.on = TRUE]

Becomes(s) ==
  /\ queue' = s.q
  /\ dcyclesEnd' = s.end
  /\ scanAt' = s.at
  /\ scanEvents' = s.on

(* get_lines_since_vbl, whole lines: past the end of the frame the next one *)
(* has begun although its 60 Hz event is still to come.                     *)
LinesSinceVbl(t) ==
  LET lines == (t - lastVbl) \div LineCyc
  IN  IF lines < FrameLines THEN lines ELSE lines - FrameLines

-----------------------------------------------------------------------------
(* initialize_events and the initial values of the globals.                 *)
Init ==
  /\ pc = "idle"
  /\ curCyc = 1 /\ dfcyc = 1 /\ lastVbl = 0
  /\ queue = AddEvent(<<>>, 1, Frame, "60HZ", 0)
  /\ dcyclesEnd = 0 /\ dcyclesSave = 0 /\ ret = "none"
  /\ scanAt = 0 /\ scanEvents = FALSE
  /\ irq = {} /\ iFlag = TRUE /\ waiting = FALSE
  /\ c023 = {} /\ c041 = {} /\ c046 = {}
  /\ shr = FALSE /\ scb = {}
  /\ secCnt = 0 /\ qsecCnt = 0
  /\ halt = FALSE /\ stepping = FALSE
  /\ devPending = {} /\ stops = 0

-----------------------------------------------------------------------------
(* run_16ms and the top of run_a2_one_vbl *)

(* run_16ms runs the machine, or the debugger if it is halted.              *)
RunFrame ==
  /\ pc = "idle"
  /\ ~halt => lastVbl < MaxFrames * Frame
  /\ pc' = IF halt THEN "video" ELSE "top"
  /\ UNCHANGED <<queue, timeVars, engineVars, scanVars, irq, iFlag, waiting, c023,
                 megaVars, videoVars, cntVars, ctlVars, devPending, stops>>

(* ... and then video_update draws what is left of the screen and, unless    *)
(* the machine is halted, asks to be called again at the first line.        *)
AddEventVidUpd(q, line) ==
  AddEvent(q, curCyc, lastVbl + LineCyc * (line + 1), "VID_UPD", line)

VideoUpdate ==
  /\ pc = "video"
  /\ queue' = IF halt THEN queue ELSE AddEventVidUpd(queue, 0)
  /\ halt' \in {halt, halt \/ MoreThanOne(queue', "VID_UPD")}
  /\ pc' = "idle"
  /\ UNCHANGED <<timeVars, engineVars, scanVars, irq, iFlag, waiting, c023, megaVars,
                 videoVars, cntVars, stepping, devPending, stops>>

(* Where the engine is to stop: past the first event, or at once.           *)
DeadlineEarly == (IF stepping THEN curCyc ELSE queue[1].at - MaxInstr) + 1   \* mutant

Deadline == (IF stepping THEN curCyc ELSE queue[1].at) + 1

(* The head of the while loop: take_irq, the deadline, enter_engine.        *)
EnterEngine ==
  /\ pc = "top"
  /\ IF irq # {} /\ ~iFlag
     THEN iFlag' = TRUE /\ waiting' = FALSE
     ELSE UNCHANGED <<iFlag, waiting>>
  /\ dcyclesEnd' = Deadline
  /\ dcyclesSave' = dcyclesEnd'
  /\ ret' = "none"
  /\ pc' = "engine"
  /\ UNCHANGED <<queue, timeVars, scanVars, irq, c023, megaVars, videoVars,
                 cntVars, ctlVars, devPending, stops>>

-----------------------------------------------------------------------------
(* Instructions *)

(* The engine's loop runs one more instruction, which takes d cycles.       *)
Executes(d) ==
  /\ pc = "engine" /\ dfcyc <= dcyclesEnd
  /\ dfcyc' = dfcyc + d
  /\ UNCHANGED <<pc, curCyc, lastVbl, dcyclesSave, waiting, secCnt, qsecCnt,
                 stepping, stops>>

(* An instruction that does nothing but take time, or (speed) changes what  *)
(* a cycle is worth: $C036, $C031, the ZIP registers.                       *)
InstrOther(d) ==
  /\ Executes(d)
  /\ \E recalc \in BOOLEAN :
       /\ recalc => "speed" \in Inputs
       /\ dcyclesEnd' = Recalc(recalc, dcyclesEnd)
  /\ UNCHANGED <<queue, ret, scanVars, irq, iFlag, c023, megaVars, videoVars,
                 halt, devPending>>

(* WAI: it waits by executing itself again until there is a request.        *)
InstrWai(d) ==
  /\ "wai" \in Inputs
  /\ pc = "engine" /\ dfcyc <= dcyclesEnd
  /\ dfcyc' = dfcyc + d
  /\ waiting' = (irq = {})
  /\ UNCHANGED <<pc, queue, curCyc, lastVbl, engineVars, scanVars, irq, iFlag,
                 c023, megaVars, videoVars, cntVars, ctlVars, devPending, stops>>

(* SEI; CLI; and (UPDATE_PSR) PLP, RTI, REP, SEP, XCE, which may also       *)
(* change the width of the accumulator and leave the engine for that.       *)
(* FINISH does not return: when both apply, RET_PSR is what remains.        *)
InstrPsr(d) ==
  /\ "psr" \in Inputs
  /\ Executes(d)
  /\ iFlag' \in BOOLEAN
  /\ \E width \in BOOLEAN :
       LET unmasked == ~iFlag' /\ irq # {}
       IN  /\ ret' = CASE width -> "psr"
                       [] ~width /\ unmasked -> "irq"
                       [] OTHER -> ret
           /\ dcyclesEnd' = Recalc(width \/ unmasked, dcyclesEnd)
  /\ UNCHANGED <<queue, scanVars, irq, c023, megaVars, videoVars, halt, devPending>>

(* A breakpoint or a bad access: set_halt_act inside the engine; or a WDM   *)
(* whose trap handle_action will turn into a halt (ret = "dbg").            *)
InstrHalt(d) ==
  /\ "halt" \in Inputs
  /\ Executes(d)
  /\ \/ halt' = TRUE /\ ret' = ret
     \/ halt' = halt /\ ret' = "dbg"
  /\ dcyclesEnd' = 0
  /\ UNCHANGED <<queue, scanVars, irq, iFlag, c023, megaVars, videoVars, devPending>>

(* A write of $C023: the enables are replaced, the status bits are kept.    *)
WriteC023(d, enables) ==
  LET tmp  == (c023 \cap {"SEC", "SCAN"}) \cup enables
      scan == IF {"SCAN", "SCAN_EN"} \subseteq tmp THEN AddIrq(irq, {"SCAN"}) ELSE irq
      off1 == IF "SCAN_EN" \in tmp THEN scan ELSE RemoveIrq(scan, {"SCAN"})
      sec  == IF {"SEC", "SEC_EN"} \subseteq tmp THEN AddIrq(off1, {"SEC"}) ELSE off1
      off2 == IF "SEC_EN" \in tmp THEN sec ELSE RemoveIrq(sec, {"SEC"})
  IN  /\ "c023" \in Inputs
      /\ Executes(d)
      /\ irq' = off2
      /\ c023' = IF irq' \cap {"SCAN", "SEC"} # {} THEN tmp \cup {"VGC"} ELSE tmp
      /\ dcyclesEnd' = Recalc(irq' \ irq # {}, dcyclesEnd)
      /\ UNCHANGED <<queue, ret, scanVars, iFlag, megaVars, videoVars, halt, devPending>>

(* A write of $C032 with zeroes for the status bits in clear.               *)
WriteC032(d, clear) ==
  LET tmp    == c023 \ {"VGC"}
      noSec  == "SEC" \in clear /\ "SEC" \in tmp
      tmp2   == IF noSec THEN tmp \ {"SEC"} ELSE tmp
      noScan == "SCAN" \in clear /\ "SCAN" \in tmp2
      c      == CASE noScan -> tmp2 \ {"SCAN"}
                  [] ~noScan /\ noSec -> tmp2
                  [] OTHER -> c023
  IN  /\ "c032" \in Inputs
      /\ Executes(d)
      /\ irq' = RemoveIrq(RemoveIrq(irq, IF noSec THEN {"SEC"} ELSE {}),
                          IF noScan THEN {"SCAN"} ELSE {})
      /\ c023' = IF irq' \cap {"SCAN", "SEC"} # {} THEN c \cup {"VGC"} ELSE c
      /\ IF noScan
         THEN Becomes(CheckScanLineInt(
                        ScanState(queue, dcyclesEnd, scanAt, scanEvents),
                        c, scb, LinesSinceVbl(dfcyc'), curCyc, lastVbl))
         ELSE UNCHANGED <<queue, dcyclesEnd, scanVars>>
      /\ UNCHANGED <<ret, iFlag, megaVars, videoVars, halt, devPending>>

(* A write of $C041 drops the requests of what it disables; the status      *)
(* bits of $C046 stay.                                                      *)
WriteC041(d, enables) ==
  /\ "c041" \in Inputs
  /\ Executes(d)
  /\ c041' = enables
  /\ irq' = RemoveIrq(irq, MegaIIBits \ enables)
  /\ UNCHANGED <<queue, dcyclesEnd, ret, scanVars, iFlag, c023, c046, videoVars,
                 halt, devPending>>

(* Any access to $C047 clears both Mega II interrupts.                      *)
AccessC047(d) ==
  /\ "c047" \in Inputs
  /\ Executes(d)
  /\ irq' = RemoveIrq(irq, MegaIIBits)
  /\ c046' = c046 \ MegaIIBits
  /\ UNCHANGED <<queue, dcyclesEnd, ret, scanVars, iFlag, c023, c041, videoVars,
                 halt, devPending>>

(* $C029 turns super hires on or off; nothing is queued for it.             *)
WriteC029(d) ==
  /\ "c029" \in Inputs
  /\ Executes(d)
  /\ shr' = ~shr
  /\ UNCHANGED <<queue, dcyclesEnd, ret, scanVars, irq, iFlag, c023, megaVars, scb,
                 halt, devPending>>

(* scb_changed: setting the interrupt bit of a line looks for the next one  *)
(* from the line being drawn; clearing it is seen when the event is due.    *)
WriteScb(d, line) ==
  /\ "scb" \in Inputs
  /\ Executes(d)
  /\ IF line \in scb
     THEN /\ scb' = scb \ {line}
          /\ UNCHANGED <<queue, dcyclesEnd, scanVars>>
     ELSE /\ scb' = scb \cup {line}
          /\ Becomes(CheckScanLineInt(
                       ScanState(queue, dcyclesEnd, scanAt, scanEvents),
                       c023, scb', LinesSinceVbl(dfcyc'), curCyc, lastVbl))
  /\ UNCHANGED <<ret, irq, iFlag, c023, megaVars, shr, halt, devPending>>

-----------------------------------------------------------------------------
(* Devices: how the DOC, the SCC and the Mockingboard use the list.  Each   *)
(* remembers which of its events are queued, and queues one of a kind.      *)

(* add_event_doc, add_event_scc, add_event_mockingboard.                    *)
AddDeviceEvent(q, now, due, dev) == AddEvent(q, now, Later(due, now), "DEVICE", dev)

NewDeviceHead(q, now, due) == NewHead(q, now, Later(due, now))

RemoveDeviceEventAnyArg(q, dev) ==       \* mutant: the argument is not compared
  RemoveFirstAt(q, OfType(q, "DEVICE"))

RemoveDeviceEvent(q, dev) == RemoveFirstAt(q, OfTypeArg(q, "DEVICE", dev))

DeviceStart(d, dev, delay) ==
  /\ "device" \in Inputs
  /\ Executes(d)
  /\ dev \notin devPending
  /\ devPending' = devPending \cup {dev}
  /\ queue' = AddDeviceEvent(queue, curCyc, dfcyc' + delay, dev)
  /\ dcyclesEnd' = Recalc(NewDeviceHead(queue, curCyc, dfcyc' + delay), dcyclesEnd)
  /\ UNCHANGED <<ret, scanVars, irq, iFlag, c023, megaVars, videoVars, halt>>

(* A device withdraws its event or (ack) its interrupt request.             *)
DeviceStop(d, dev) ==
  /\ "device" \in Inputs
  /\ Executes(d)
  /\ dev \in devPending
  /\ devPending' = devPending \ {dev}
  /\ queue' = RemoveDeviceEvent(queue, dev)
  /\ UNCHANGED <<dcyclesEnd, ret, scanVars, irq, iFlag, c023, megaVars, videoVars, halt>>

DeviceAck(d) ==
  /\ "device" \in Inputs
  /\ Executes(d)
  /\ irq' = RemoveIrq(irq, {"DEVICE"})
  /\ UNCHANGED <<queue, dcyclesEnd, ret, scanVars, iFlag, c023, megaVars, videoVars,
                 halt, devPending>>

(* do_reset: every request and enable goes, the list of events stays except *)
(* for what a device withdraws (gone: sound_reset, doc_reset).              *)
ResetMachine(gone) ==
  /\ c023' = {} /\ c041' = {} /\ irq' = {}
  /\ waiting' = FALSE /\ stepping' = FALSE /\ shr' = FALSE
  /\ queue' = IF gone = {} THEN queue
              ELSE RemoveDeviceEvent(queue, CHOOSE dev \in gone : TRUE)
  /\ devPending' = devPending \ gone
  /\ UNCHANGED <<scanVars, lastVbl, curCyc, c046, scb, cntVars, halt, stops>>

Withdrawn == {{}} \cup {{dev} : dev \in devPending}

(* The program's own reset, command $10 of the ADB controller: it happens   *)
(* inside an instruction, and on its way out the engine writes its copy of  *)
(* the registers over the ones do_reset set.                                *)
InstrAdbReset(d, gone) ==
  /\ "adbreset" \in Inputs
  /\ pc = "engine" /\ dfcyc <= dcyclesEnd
  /\ dfcyc' = dfcyc + d
  /\ ResetMachine(gone)
  /\ UNCHANGED <<pc, iFlag, engineVars>>

Instruction ==
  \E d \in MinInstr..MaxInstr :
    \/ InstrOther(d) \/ InstrWai(d) \/ InstrPsr(d) \/ InstrHalt(d)
    \/ \E enables \in SUBSET C023Enables : WriteC023(d, enables)
    \/ \E clear \in SUBSET {"SEC", "SCAN"} : WriteC032(d, clear)
    \/ \E enables \in SUBSET MegaIIBits : WriteC041(d, enables)
    \/ AccessC047(d) \/ WriteC029(d)
    \/ \E line \in Lines : WriteScb(d, line)
    \/ \E dev \in Devices, delay \in 1..MaxDelay : DeviceStart(d, dev, delay)
    \/ \E dev \in Devices : DeviceStop(d, dev)
    \/ DeviceAck(d)
    \/ \E gone \in Withdrawn : InstrAdbReset(d, gone)

-----------------------------------------------------------------------------
(* Leaving the engine *)

EngineStops == pc = "engine" /\ dfcyc > dcyclesEnd

(* enter_engine: after a change of width go on, with the deadline that was  *)
(* computed on entry, unless the emulator was halted meanwhile.             *)
ReenterEngineLater ==                    \* mutant: a new slice after each change
  /\ EngineStops /\ ret = "psr" /\ ~halt
  /\ dcyclesEnd' = dcyclesSave + (dfcyc - curCyc)
  /\ ret' = "none"
  /\ UNCHANGED <<pc, queue, timeVars, dcyclesSave, scanVars, irq, iFlag, waiting, c023,
                 megaVars, videoVars, cntVars, ctlVars, devPending, stops>>

ReenterEngine ==
  /\ EngineStops /\ ret = "psr" /\ ~halt
  /\ dcyclesEnd' = dcyclesSave
  /\ ret' = "none"
  /\ UNCHANGED <<pc, queue, timeVars, dcyclesSave, scanVars, irq, iFlag, waiting, c023,
                 megaVars, videoVars, cntVars, ctlVars, devPending, stops>>

(* Back in run_a2_one_vbl: g_cur_dfcyc catches up, handle_action.           *)
LeaveEngine ==
  /\ EngineStops /\ (ret # "psr" \/ halt)
  /\ pc' = "events"
  /\ curCyc' = dfcyc
  /\ halt' = (halt \/ ret = "dbg")
  /\ dcyclesEnd' = 0 /\ dcyclesSave' = 0 /\ ret' = "none"
  /\ UNCHANGED <<queue, dfcyc, lastVbl, scanVars, irq, iFlag, waiting, c023, megaVars,
                 videoVars, cntVars, stepping, devPending, stops>>

-----------------------------------------------------------------------------
(* Events that are due, first to last.  Outside the engine the deadline is  *)
(* not read before it is computed anew: the handlers' stores to it are dead *)
(* and it is 0 (as LeaveEngine sets it).                                    *)

Due(type) == pc = "events" /\ queue[1].at <= dfcyc /\ queue[1].type = type

(* What handlers do to the devices: nothing, or one device queues an event   *)
(* (scc_update and sound_update of the frame; an event's own handler).      *)
DeviceUpdates ==
  [starting : {{}} \cup {{dev} : dev \in Devices}, delay : 1..MaxDelay]

WithDevices(q, upd) ==
  IF upd.starting = {} THEN q
  ELSE AddDeviceEvent(q, curCyc, curCyc + upd.delay, CHOOSE dev \in upd.starting : TRUE)

(* g_25sec_cntr and g_1sec_cntr count frames.                               *)
NextCount(cnt, frames) == IF cnt + 1 >= frames THEN 0 ELSE cnt + 1

(* add_event_vbl                                                            *)
AddEventVbl(q, vbl) == AddEvent(q, curCyc, vbl + LineCyc * VblLine, "VBL_INT", 0)

(* update_60hz: the next frame's event first, then the frame's interrupts   *)
(* and the devices.  Ends the call of run_a2_one_vbl.                       *)
Handle60Hz(upd) ==
  LET vbl    == lastVbl + Frame
      next   == AddEvent(Tail(queue), curCyc, vbl + Frame, "60HZ", 0)
      withV  == IF "VBL" \in c041 THEN AddEventVbl(next, vbl) ELSE next
      qsec   == NextCount(qsecCnt, QsecFrames) = 0 /\ "QSEC" \in c041
      sec    == NextCount(secCnt, SecFrames) = 0
      secInt == sec /\ "SEC_EN" \in c023
      c      == c023 \cup (IF sec THEN {"SEC"} ELSE {})
                     \cup (IF secInt THEN {"VGC"} ELSE {})
      irq1   == IF qsec THEN AddIrq(irq, {"QSEC"}) ELSE irq
      s0     == ScanState(withV, dcyclesEnd, scanAt, scanEvents)
      s      == IF scanEvents THEN s0 ELSE CheckScanLineInt(s0, c, scb, 0, curCyc, vbl)
  IN  /\ Due("60HZ")
      /\ upd.starting \cap devPending = {}
      /\ lastVbl' = vbl
      /\ qsecCnt' = NextCount(qsecCnt, QsecFrames)
      /\ secCnt' = NextCount(secCnt, SecFrames)
      /\ c046' = IF qsec THEN c046 \cup {"QSEC"} ELSE c046
      /\ c023' = c
      /\ irq' = IF secInt THEN AddIrq(irq1, {"SEC"}) ELSE irq1
      /\ Becomes([s EXCEPT !.q = WithDevices(s.q, upd)])
      /\ devPending' = devPending \cup upd.starting
      /\ pc' = "video"
      /\ UNCHANGED <<curCyc, dfcyc, dcyclesSave, ret, iFlag, waiting, c041, videoVars,
                     ctlVars, stops>>

(* do_scan_int: raise the interrupt if the line still asks for it, else     *)
(* look for the next line that does.  The code halts if one is unserved.    *)
HandleScanInt ==
  LET line  == queue[1].arg
      s0    == ScanState(Tail(queue), dcyclesEnd, 0, FALSE)
      valid == line \in scb /\ shr
  IN  /\ Due("SCAN_INT")
      /\ halt' = (halt \/ "SCAN" \in c023)
      /\ c023' = IF valid THEN c023 \cup {"VGC", "SCAN"} ELSE c023
      /\ irq' = IF valid /\ "SCAN_EN" \in c023 THEN AddIrq(irq, {"SCAN"}) ELSE irq
      /\ Becomes(IF valid THEN s0
                 ELSE CheckScanLineInt(s0, c023, scb, line + 1, curCyc, lastVbl))
      /\ UNCHANGED <<pc, timeVars, dcyclesSave, ret, iFlag, waiting, megaVars, videoVars,
                     cntVars, stepping, devPending, stops>>

(* do_vbl_int *)
HandleVblInt ==
  /\ Due("VBL_INT")
  /\ queue' = Tail(queue)
  /\ IF "VBL" \in c041
     THEN c046' = c046 \cup {"VBL"} /\ irq' = AddIrq(irq, {"VBL"})
     ELSE UNCHANGED <<c046, irq>>
  /\ UNCHANGED <<pc, timeVars, engineVars, scanVars, iFlag, waiting, c023, c041,
                 videoVars, cntVars, ctlVars, devPending, stops>>

(* doc_handle_event, scc_do_event, mockingboard_event: the event is no      *)
(* longer pending; perhaps an interrupt request, perhaps the next event, of *)
(* the same device or (an oscillator's partner) of another.                 *)
HandleDevice(request, upd) ==
  LET dev  == queue[1].arg
      left == devPending \ {dev}
  IN  /\ Due("DEVICE")
      /\ upd.starting \cap left = {}
      /\ irq' = IF request THEN AddIrq(irq, {"DEVICE"}) ELSE irq
      /\ queue' = WithDevices(Tail(queue), upd)
      /\ devPending' = left \cup upd.starting
      /\ UNCHANGED <<pc, timeVars, engineVars, scanVars, iFlag, waiting, c023, megaVars,
                     videoVars, cntVars, ctlVars, stops>>

(* EV_STOP: halt_printf, which the user may have asked to be ignored.       *)
HandleStop ==
  /\ Due("STOP")
  /\ queue' = Tail(queue)
  /\ halt' \in {halt, TRUE}
  /\ UNCHANGED <<pc, timeVars, engineVars, scanVars, irq, iFlag, waiting, c023, megaVars,
                 videoVars, cntVars, stepping, devPending, stops>>

(* video_update_event_line: the next update, some lines on.                 *)
NextVidUpd(q, line) == IF line < ShrLines /\ ~halt THEN AddEventVidUpd(q, line) ELSE q

HandleVidUpd(lines) ==
  LET next == queue[1].arg + lines
  IN  /\ Due("VID_UPD")
      /\ queue' = NextVidUpd(Tail(queue), next)
      /\ halt' \in {halt, halt \/ (next < ShrLines /\ MoreThanOne(queue', "VID_UPD"))}
      /\ UNCHANGED <<pc, timeVars, engineVars, scanVars, irq, iFlag, waiting, c023,
                     megaVars, videoVars, cntVars, stepping, devPending, stops>>

(* Nothing more is due: run on, or return because of a halt or a step.      *)
NoMoreDue ==
  /\ pc = "events" /\ queue[1].at > dfcyc
  /\ pc' = IF halt \/ stepping THEN "video" ELSE "top"
  /\ UNCHANGED <<queue, timeVars, engineVars, scanVars, irq, iFlag, waiting, c023,
                 megaVars, videoVars, cntVars, ctlVars, devPending, stops>>

HandleEvents ==
  \/ \E upd \in DeviceUpdates : Handle60Hz(upd)
  \/ HandleScanInt \/ HandleVblInt \/ HandleStop
  \/ \E lines \in LineRefs : HandleVidUpd(lines)
  \/ \E request \in BOOLEAN, upd \in DeviceUpdates : HandleDevice(request, upd)
  \/ NoMoreDue

-----------------------------------------------------------------------------
(* The user, the debugger and the debug server *)

(* Between frames, or from debug_server_poll: the psr is set up for the     *)
(* reset vector.                                                            *)
Reset(gone) ==
  /\ "reset" \in Inputs
  /\ pc \in {"idle", "video"}
  /\ ResetMachine(gone)
  /\ iFlag' = TRUE
  /\ UNCHANGED <<pc, dfcyc, engineVars>>

(* The debugger's "z=": a stop event at any time, past ones included.       *)
DebuggerStopAt(due) ==
  /\ "stop" \in Inputs
  /\ pc \in {"idle", "video"} /\ stops < MaxStops
  /\ stops' = stops + 1
  /\ queue' = AddEvent(queue, curCyc, due, "STOP", 0)
  /\ halt' \in {halt, halt \/ MoreThanOne(queue', "STOP")}
  /\ UNCHANGED <<pc, timeVars, engineVars, scanVars, irq, iFlag, waiting, c023, megaVars,
                 videoVars, cntVars, stepping, devPending>>

(* halt, continue and step as the server's thread stores them, one store at *)
(* a time, at any moment of the main thread.  The store of halt into the    *)
(* deadline may come when it has no effect any more, or be overwritten.     *)
ServerControl ==
  /\ \/ /\ "halt" \in Inputs
        /\ halt' = TRUE /\ stepping' = stepping
        /\ dcyclesEnd' \in {dcyclesEnd, 0}
     \/ /\ "halt" \in Inputs
        /\ halt' = FALSE /\ stepping' \in {stepping, FALSE}
        /\ dcyclesEnd' = dcyclesEnd
     \/ /\ "step" \in Inputs
        /\ stepping' = TRUE /\ halt' \in {halt, FALSE}
        /\ dcyclesEnd' = dcyclesEnd
  /\ UNCHANGED <<pc, queue, timeVars, dcyclesSave, ret, scanVars, irq, iFlag, waiting, c023,
                 megaVars, videoVars, cntVars, devPending, stops>>

User ==
  \/ \E gone \in Withdrawn : Reset(gone)
  \/ \E due \in 0..(MaxFrames * Frame) : DebuggerStopAt(due)
  \/ ServerControl

Main == VideoUpdate \/ EnterEngine \/ Instruction \/ ReenterEngine \/ LeaveEngine \/ HandleEvents

Next == RunFrame \/ Main \/ User

(* The main thread keeps running; nobody has to press a key.                *)
Spec == Init /\ [][Next]_vars /\ WF_vars(Main) /\ WF_vars(RunFrame)

-----------------------------------------------------------------------------
(* Properties *)

TypeOK ==
  /\ pc \in {"idle", "top", "engine", "events", "video"}
  /\ queue \in Seq(Event)
  /\ curCyc \in Nat /\ dfcyc \in Nat /\ lastVbl \in Nat
  /\ dcyclesEnd \in Nat /\ dcyclesSave \in Nat /\ scanAt \in Nat
  /\ ret \in {"none", "psr", "irq", "dbg"}
  /\ scanEvents \in BOOLEAN /\ iFlag \in BOOLEAN /\ waiting \in BOOLEAN
  /\ shr \in BOOLEAN /\ halt \in BOOLEAN /\ stepping \in BOOLEAN
  /\ irq \subseteq IrqSources
  /\ c023 \subseteq C023Bits /\ c041 \subseteq MegaIIBits /\ c046 \subseteq MegaIIBits
  /\ scb \subseteq Lines
  /\ secCnt \in 0..(SecFrames - 1) /\ qsecCnt \in 0..(QsecFrames - 1)
  /\ devPending \subseteq Devices
  /\ stops \in 0..MaxStops

(* The list stays in order of time whatever is inserted, replaced, removed. *)
QueueSorted == Sorted(queue)

(* There is always exactly one 60 Hz event, and it is due one frame after   *)
(* the last: frames neither drift nor stop, and the list is never empty.    *)
FrameEventQueued ==
  \E i \in 1..Len(queue) :
    /\ OfType(queue, "60HZ") = {i}
    /\ queue[i].at = lastVbl + Frame

(* The list is in order, and the next frame is on it.                       *)
QueueInOrder == QueueSorted /\ FrameEventQueued

(* A device believes that its event is queued exactly when it is, once.     *)
DevicesAgree ==
  \A dev \in Devices :
    Cardinality(OfTypeArg(queue, "DEVICE", dev)) = IF dev \in devPending THEN 1 ELSE 0

(* g_scan_int_events, g_dfcyc_scan_int and the list agree, and no scan-line *)
(* event is queued while an interrupt is unserved ("c023 scan_int and       *)
(* another" in do_scan_int).                                                *)
ScanAgrees ==
  /\ TypeOK
  /\ scanEvents <=> scanAt # 0
  /\ IF scanEvents
     THEN /\ "SCAN" \notin c023
          /\ \E i \in 1..Len(queue) :
               OfType(queue, "SCAN_INT") = {i} /\ queue[i].at = scanAt
     ELSE OfType(queue, "SCAN_INT") = {}

(* While the engine runs, its deadline is not behind the list: whatever a   *)
(* handler queued, the first event is seen at most one instruction late (a  *)
(* single step runs its instruction even if an event is overdue).           *)
DeadlineFresh ==
  pc = "engine" =>
    /\ dcyclesEnd <= Later(queue[1].at, curCyc) + 1
    /\ ret = "psr" => dcyclesSave <= Later(queue[1].at, curCyc) + 1

(* The 60 Hz event is never handled more than an instruction late.          *)
FrameOnTime == dfcyc <= lastVbl + Frame + 1 + MaxInstr

(* The pool of entries suffices: one 60 Hz, VBL, scan-line and video event,  *)
(* those of the devices and the debugger's; unless the machine is halted    *)
(* and set going again, or stepped, add_event_entry never finds it empty.   *)
PoolSuffices == Len(queue) <= 4 + Cardinality(devPending) + stops

(* The VBL interrupt of a frame is queued at most once, at its line.        *)
VblOnce ==
  /\ Cardinality(OfType(queue, "VBL_INT")) <= 1
  /\ \A i \in OfType(queue, "VBL_INT") : queue[i].at = lastVbl + LineCyc * VblLine

(* Whoever counts on an event of his is right: a device on its own, and the  *)
(* frame on its VBL interrupt, whatever else is put on the list, taken off, *)
(* moved out of the past, or reset; and the pool of entries suffices.       *)
EventsExpected == DevicesAgree /\ VblOnce /\ PoolSuffices

(* The VGC and Mega II interrupts are requested exactly as their registers  *)
(* say: no request without its status and enable bits, none lost.           *)
IrqsMatchRegisters ==
  /\ \A s \in {"SEC", "SCAN"} :
       s \in irq <=> {s, IF s = "SEC" THEN "SEC_EN" ELSE "SCAN_EN"} \subseteq c023
  /\ irq \cap {"SEC", "SCAN"} # {} => "VGC" \in c023
  /\ irq \cap MegaIIBits \subseteq c041 \cap c046

(* When a frame begins with super hires on and no unserved interrupt, the    *)
(* scan-line event of the first line that asks is queued, in its time.      *)
ScanArmed ==
  [][ lastVbl' # lastVbl /\ shr' /\ "SCAN" \notin c023' /\ scb' # {}
        => scanEvents' /\ scanAt' <= Later(lastVbl' + LineCyc * Min(scb'), curCyc') ]_vars

(* Each call of run_16ms comes back, unless the server keeps cutting the    *)
(* engine's runs short for ever.                                            *)
RunReturns ==
  <>[][~ServerControl]_vars => (pc = "top" ~> pc = "idle")

=============================================================================
