--------------------------------- MODULE Scc ---------------------------------
(***************************************************************************)
(* The Z8530 of scc.c: two channels, each with the queue of three received  *)
(* characters the guest reads, the buffer behind it that the driver fills,  *)
(* one event per kind on the emulator's event list, the conditions that     *)
(* want an interrupt (wantint_rx, ...) and the bits of g_irq_pending they set.    *)
(*                                                                          *)
(* Time is abstract: an event that is queued may come at any later step.    *)
(* A character is a model value; the bits of a register are kept when       *)
(* something is decided by them.                                            *)
(***************************************************************************)
EXTENDS Integers, Sequences, FiniteSets

CONSTANTS
  A, B,         \* g_scc[0] and g_scc[1]
  Wired,        \* the ports something is connected to
  Chars,
  InSize,       \* SCC_INBUF_SIZE
  Values        \* the bytes the guest writes to the control port

ASSUME SccAssumption ==
  /\ A # B
  /\ Wired \subseteq {A, B}
  /\ InSize \in Nat \ {0}
  /\ Values \subseteq 0..255

Ports == {A, B}
Held == 3                     \* characters in rx_queue
Kinds == {"rx", "tx", "br"}   \* SCC_RX_EVENT, SCC_TX_EVENT, SCC_BR_EVENT
Lines == {"RX", "TX", "ZC"}   \* IRQ_PENDING_SCCn_RX, _TX, _ZEROCNT
NoReg == 16                   \* mode is 0: the next write goes to register 0

VARIABLES
  chan,         \* g_scc[]: one record for a port
  irq           \* the six SCC bits of g_irq_pending

sccVars == <<chan, irq>>

Channel ==
  [ rxQueue : Seq(Chars), inBuf : Seq(Chars), txEmpty : BOOLEAN,
    pending : [Kinds -> BOOLEAN],   \* rx_, tx_ and br_event_pending
    queued : [Kinds -> Nat],        \* events of this port on the event list
    want : SUBSET Lines,            \* wantint_rx, _tx, _zerocnt
    sel : 0..NoReg,                 \* reg_ptr while mode is 1
    rxInt : BOOLEAN, txInt : BOOLEAN,                 \* of reg[1]
    mie : BOOLEAN,                                    \* of reg[9]
    brOn : BOOLEAN, loop : BOOLEAN, zcOn : BOOLEAN ]  \* of reg[14], reg[15]

Bit(v, n) == (v \div n) % 2 = 1

-----------------------------------------------------------------------------
(* Interrupts                                                               *)
(* add_irq as scc_evaluate_ints uses it: a mask of which one bit is already *)
(* pending changes nothing.                                                 *)
AddIrq(q, mask) == IF q \cap mask # {} THEN q ELSE q \cup mask

Bits(p) == {p} \X Lines

(* scc_evaluate_ints: the master enable is the one of g_scc[0] for both.    *)
Evaluate(ch, q, p) ==
  LET wanted == {p} \X ch[p].want
  IN  IF ~ch[A].mie THEN {} ELSE AddIrq(q, wanted) \ (Bits(p) \ wanted)

-----------------------------------------------------------------------------
(* Receiving                                                                *)

Schedule(c, kind) ==
  [c EXCEPT !.pending[kind] = TRUE, !.queued[kind] = @ + 1]

RxIntSticky(c) ==                                  \* mutant: an empty queue clears nothing
  [c EXCEPT !.want = IF c.rxQueue # <<>> /\ c.rxInt THEN @ \cup {"RX"} ELSE @]

(* scc_maybe_rx_int *)
RxInt(c) ==
  [c EXCEPT !.want = IF c.rxQueue = <<>> THEN @ \ {"RX"}
                     ELSE IF c.rxInt THEN @ \cup {"RX"} ELSE @]

(* scc_maybe_rx_event: one character into the queue, and the event that     *)
(* will bring the next one.                                                 *)
CanPull(c) ==
  ~c.pending["rx"] /\ c.inBuf # <<>> /\ Len(c.rxQueue) < Held

PullInFront(c) ==                                  \* mutant: into the front of the queue
  IF ~CanPull(c) THEN c
  ELSE Schedule(RxInt([c EXCEPT !.rxQueue = <<Head(c.inBuf)>> \o @,
                                !.inBuf = Tail(@)]), "rx")
Pull(c) ==
  IF ~CanPull(c) THEN c
  ELSE Schedule(RxInt([c EXCEPT !.rxQueue = Append(@, Head(c.inBuf)),
                                !.inBuf = Tail(@)]), "rx")

(* scc_add_to_readbuf: a full buffer drops the character.                   *)
AddToReadbuf(c, char) ==
  RxInt(Pull([c EXCEPT !.inBuf =
                IF Len(@) + 1 < InSize THEN Append(@, char) ELSE @]))

(* scc_try_fill_readbuf: the driver may deliver while the buffer is not     *)
(* more than seven eighths full.  One character at a time.                  *)
HasSpace(c) == Len(c.inBuf) < (7 * InSize) \div 8

Fill(c, more) == IF more = <<>> THEN c ELSE AddToReadbuf(c, Head(more))

(* scc_read_data: what came in is taken first, then the queue moves up.     *)
Take(c) ==
  IF c.rxQueue = <<>> THEN c
  ELSE RxInt(Pull([c EXCEPT !.rxQueue = Tail(@)]))

(* What a recv may bring: nothing, or (more than once a step) a character.  *)
Incoming(p, chars) ==
  {<<>>} \cup
  IF p \in Wired /\ HasSpace(chan[p]) THEN {<<char>> : char \in chars} ELSE {}

-----------------------------------------------------------------------------
(* Transmitting, and the baud rate generator counting down                  *)

(* scc_maybe_tx_event *)
TxStart(c) ==
  IF c.pending["tx"] THEN [c EXCEPT !.txEmpty = FALSE]
  ELSE Schedule([c EXCEPT !.txEmpty = FALSE], "tx")

(* scc_maybe_br_event: it asks for the master enable in the channel's own   *)
(* register 9, which only channel A has.                                    *)
BrStart(c) ==
  IF c.brOn /\ ~c.pending["br"] /\ c.zcOn /\ c.mie
  THEN Schedule(c, "br")
  ELSE c

-----------------------------------------------------------------------------
(* Resets                                                                   *)

ResetPortEvents(c) ==                              \* mutant: forgets that events are queued
  [c EXCEPT !.rxQueue = <<>>, !.txEmpty = TRUE, !.want = {},
            !.loop = FALSE, !.zcOn = FALSE, !.pending = [k \in Kinds |-> FALSE]]
(* scc_reset_port: neither the buffer nor the events are touched.           *)
ResetPort(c) ==
  [c EXCEPT !.rxQueue = <<>>, !.txEmpty = TRUE, !.want = {},
            !.loop = FALSE, !.zcOn = FALSE]

(* scc_hard_reset_port: also clears g_scc[0].reg[9], of whichever port.     *)
HardResetPort(ch, p) ==
  [[ch EXCEPT ![p] = [ResetPort(@) EXCEPT !.brOn = FALSE, !.rxInt = FALSE,
                                          !.txInt = FALSE]]
     EXCEPT ![A].mie = FALSE]

(* The part of scc_reset that comes before scc_hard_reset_port.             *)
ResetPointers(c) == [c EXCEPT !.sel = NoReg, !.inBuf = <<>>, !.want = {}]

-----------------------------------------------------------------------------
(* Registers                                                                *)

(* scc_write_reg, register 0: commands 2, 5 and 7.  Reset Highest IUS looks  *)
(* at g_irq_pending, and so at what was raised rather than what is wanted.  *)
Highest(p) ==
  IF <<p, "RX">> \in irq THEN {"RX"}
  ELSE IF <<p, "TX">> \in irq THEN {"TX"}
  ELSE IF <<p, "ZC">> \in irq THEN {"ZC"} ELSE {}

Command(c, p, v) ==
  LET cmd == (v \div 8) % 8
  IN  [c EXCEPT !.want =
         IF cmd = 2 THEN @ \ {"ZC"}
         ELSE IF cmd = 5 THEN @ \ {"TX"}
         ELSE IF cmd = 7 THEN @ \ Highest(p) ELSE @]

(* The registers whose bits decide something here; the others are stored.   *)
StoreReg(c, reg, v) ==
  CASE reg = 1  -> [c EXCEPT !.rxInt = (v \div 8) % 4 \in {1, 2}, !.txInt = Bit(v, 2)]
    [] reg = 14 -> BrStart([c EXCEPT !.brOn = Bit(v, 1), !.loop = Bit(v, 16)])
    [] reg = 15 -> BrStart([c EXCEPT !.zcOn = Bit(v, 2)])
    [] OTHER    -> c

(* Register 9 is the chip's: resets of either channel, then the new value.  *)
WriteReg9(ch, v) ==
  LET one == [ch EXCEPT ![A] = IF Bit(v, 128) THEN ResetPort(@) ELSE @,
                        ![B] = IF Bit(v, 64) THEN ResetPort(@) ELSE @]
      two == IF Bit(v, 128) /\ Bit(v, 64)
             THEN HardResetPort(HardResetPort(one, A), B) ELSE one
  IN  [two EXCEPT ![A].mie = Bit(v, 8)]

(* scc_write_data: into the receiver in local loopback, else to the driver  *)
(* (module Modem); the transmitter is busy in either case.                  *)
Send(c, char) == TxStart(IF c.loop THEN AddToReadbuf(c, char) ELSE c)

-----------------------------------------------------------------------------
(* Actions.  Every handler that changes what is wanted ends by comparing it *)
(* with g_irq_pending.                                                      *)

Become(p, c) ==
  /\ chan' = [chan EXCEPT ![p] = c]
  /\ irq' = Evaluate(chan', irq, p)

Settle(p, c) ==                                    \* handlers that do not evaluate
  chan' = [chan EXCEPT ![p] = c] /\ UNCHANGED irq

RxEvent(p) ==
  LET c == chan[p] IN
  /\ c.queued["rx"] > 0
  /\ Become(p, RxInt(Pull([c EXCEPT !.queued["rx"] = @ - 1, !.pending["rx"] = FALSE])))

TxEvent(p) ==
  LET c == chan[p] IN
  /\ c.queued["tx"] > 0
  /\ Become(p, [c EXCEPT !.queued["tx"] = @ - 1, !.pending["tx"] = FALSE, !.txEmpty = TRUE,
                         !.want = IF c.txInt THEN @ \cup {"TX"} ELSE @])

BrEvent(p) ==
  LET c == chan[p] IN
  /\ c.queued["br"] > 0
  /\ Become(p, BrStart([c EXCEPT !.queued["br"] = @ - 1, !.pending["br"] = FALSE,
                                 !.want = IF c.zcOn THEN @ \cup {"ZC"} ELSE @]))

(* scc_try_fill_readbuf from the VBL update, with something to read         *)
Receive(p, chars) ==
  \E more \in Incoming(p, chars) \ {<<>>} : Become(p, Fill(chan[p], more))

(* The virtual modem echoes and answers without asking for space.           *)
Echo(p, char) == p \in Wired /\ Become(p, AddToReadbuf(chan[p], char))

ReadData(p, chars) ==
  \E more \in Incoming(p, chars) :
    LET c == Fill(chan[p], more) IN
    IF more = <<>> /\ c.rxQueue = <<>> THEN Settle(p, c) ELSE Become(p, Take(c))

WriteData(p, char) ==
  IF chan[p].loop \/ ~chan[p].pending["tx"]
  THEN Become(p, Send(chan[p], char))
  ELSE Settle(p, Send(chan[p], char))

(* scc_read_reg: the pointer goes back to 0; register 8 is the data.        *)
ReadReg(p, chars) ==
  LET c == [chan[p] EXCEPT !.sel = NoReg] IN
  IF chan[p].sel # 8 THEN Settle(p, c)
  ELSE \E more \in Incoming(p, chars) : Become(p, Take(Fill(c, more)))

(* scc_write_reg: a first byte below 16 is a pointer (and register 0's      *)
(* command all the same); the byte after it goes where it points.           *)
WriteReg(p, v, char) ==
  LET first == chan[p].sel = NoReg
      reg == IF first THEN 0 ELSE chan[p].sel
      c == [chan[p] EXCEPT !.sel = IF first /\ v < 16 THEN v ELSE NoReg]
  IN  CASE reg = 0 ->
             IF (v \div 8) % 8 \in {2, 5, 7} THEN Become(p, Command(c, p, v)) ELSE Settle(p, c)
        [] reg = 8 ->
             IF c.loop \/ ~c.pending["tx"] THEN Become(p, Send(c, char)) ELSE Settle(p, Send(c, char))
        [] reg = 9 ->
             /\ chan' = WriteReg9([chan EXCEPT ![p] = c], v)
             /\ irq' = Evaluate(chan', Evaluate(chan', irq, A), B)
        [] reg = 15 -> Become(p, StoreReg(c, reg, v))
        [] OTHER -> Settle(p, StoreReg(c, reg, v))

(* scc_reset, for both ports, and do_reset's g_irq_pending = 0              *)
Reset ==
  /\ chan' = LET one == [p \in Ports |-> ResetPointers(chan[p])]
             IN  HardResetPort(HardResetPort(one, A), B)
  /\ irq' = {}

SccInit ==
  /\ chan = [p \in Ports |->
       [ rxQueue |-> <<>>, inBuf |-> <<>>, txEmpty |-> TRUE,
         pending |-> [k \in Kinds |-> FALSE], queued |-> [k \in Kinds |-> 0],
         want |-> {}, sel |-> NoReg, rxInt |-> FALSE, txInt |-> FALSE,
         mie |-> FALSE, brOn |-> FALSE, loop |-> FALSE, zcOn |-> FALSE ]]
  /\ irq = {}

(* What may happen to some ports, with some characters and bytes            *)
Steps(ports, chars, values) ==
  \/ \E p \in ports : RxEvent(p) \/ TxEvent(p) \/ BrEvent(p)
  \/ \E p \in ports : Receive(p, chars) \/ ReadData(p, chars) \/ ReadReg(p, chars)
  \/ \E p \in ports, char \in chars : Echo(p, char) \/ WriteData(p, char)
  \/ \E p \in ports, v \in values, char \in chars : WriteReg(p, v, char)
  \/ Reset

SccNext == Steps(Ports, Chars, Values)

SccSpec == SccInit /\ [][SccNext]_sccVars

-----------------------------------------------------------------------------
(* Properties                                                               *)

(* Every field of both channels has its type; the queue and the buffer stay *)
(* within the arrays of scc.h.                                              *)
SccTypeOK ==
  /\ chan \in [Ports -> Channel]
  /\ irq \subseteq Ports \X Lines
  /\ \A p \in Ports : Len(chan[p].rxQueue) <= Held /\ Len(chan[p].inBuf) < InSize

(* The *_event_pending flags and the global event list stay in step through *)
(* resets that clear neither: a port has one event of a kind on the list    *)
(* when its flag is up, and none when it is down (scc_do_event).            *)
EventsMatchFlags ==
  \A p \in Ports, k \in Kinds :
    chan[p].queued[k] = IF chan[p].pending[k] THEN 1 ELSE 0

(* A transmitter that says it is full has the event on the list that will   *)
(* empty it, even after a channel reset with an event outstanding.          *)
BusyTransmitterIsTimed ==
  \A p \in Ports : ~chan[p].txEmpty => chan[p].queued["tx"] > 0

(* What a port remembers of its events is what the global list holds of     *)
(* them, and a transmitter that is full waits for one of them.              *)
EventsInStep == EventsMatchFlags /\ BusyTransmitterIsTimed

(* No interrupt line is up for a condition the chip no longer wants, and    *)
(* none at all with the master enable off (scc_evaluate_ints).              *)
OnlyWantedRaised ==
  \A p \in Ports, l \in Lines :
    <<p, l>> \in irq => chan[A].mie /\ l \in chan[p].want

(* add_irq ignores a mask of several bits when one of them is pending, and  *)
(* so a wanted line may be down; but a channel that wants anything has some *)
(* line up, and the processor is interrupted.                               *)
NoChannelForgotten ==
  \A p \in Ports :
    chan[A].mie /\ chan[p].want # {} => \E l \in Lines : <<p, l>> \in irq

(* "Rx char available" in RR2 of channel B is true: a receive interrupt is  *)
(* wanted only while there is a character to read (scc_do_read_rr2b).       *)
RxInterruptHasChar ==
  \A p \in Ports : "RX" \in chan[p].want => chan[p].rxQueue # <<>>

(* The lines that interrupt the processor: no line without its condition,   *)
(* no channel with a condition and no line, no character announced that is  *)
(* not there.                                                               *)
LinesMatchWants == OnlyWantedRaised /\ NoChannelForgotten /\ RxInterruptHasChar

(* Characters behind the queue, room in it, and no event to move them       *)
Stranded(p) == CanPull(chan[p])

(* The queue, the buffer and the one event advance together: only a reset   *)
(* of the channel strands characters behind the queue, and then until the   *)
(* next one arrives.                                                        *)
OnlyResetStrands ==
  [][\A p \in Ports : Stranded(p)' /\ ~Stranded(p) =>
       chan[p].rxQueue # <<>> /\ chan'[p].rxQueue = <<>> /\ chan'[p].inBuf = chan[p].inBuf]_sccVars

LineA == INSTANCE SerialLine WITH line <- chan[A].rxQueue \o chan[A].inBuf
LineB == INSTANCE SerialLine WITH line <- chan[B].rxQueue \o chan[B].inBuf

(* Queue and buffer together are the line of module SerialLine: what the    *)
(* guest reads is what arrived, in that order, each character once.         *)
PortsAreLines == LineA!LineSpec /\ LineB!LineSpec

(* Nothing that was received is overtaken, doubled, or left behind.         *)
ReceivedInOrder == PortsAreLines /\ OnlyResetStrands
=============================================================================
