-------------------------------- MODULE Modem --------------------------------
(***************************************************************************)
(* One serial port seen from the host (scc.c and scc_socket_driver.c): how  *)
(* the port is opened, the listening and the connected socket, the virtual  *)
(* modem that sits on the socket and its commands, and the output buffer    *)
(* that feeds either the modem or the socket.                               *)
(*                                                                          *)
(* The host's calls (socket, bind, connect, accept, send, recv) may succeed *)
(* or fail, so that a handler is a set of outcomes: the operators below     *)
(* take the state of a port and give the states it may be left in.  What    *)
(* comes in is module Scc's; a line of a modem command is one token, and    *)
(* time is how long nothing has been put out.                               *)
(***************************************************************************)
EXTENDS Integers, Sequences

CONSTANTS
  Modes,          \* the settings of g_serial_cfg the user chooses from
  AllowIncoming,  \* g_serial_modem_allow_incoming
  OutSize,        \* SCC_OUTBUF_SIZE
  Typed,          \* what the guest puts out
  ResetDcd        \* what scc_reset makes of dcd: 1 - port

Commands == {"AT", "ATS0", "ATO", "ATH", "ATA", "ATD"}
Tokens == Commands \cup {"+", "x", "telnet"}

ASSUME ModemAssumption ==
  /\ Modes \subseteq 0..3 /\ Typed \subseteq Tokens
  /\ AllowIncoming \in BOOLEAN /\ ResetDcd \in BOOLEAN
  /\ OutSize \in Nat \ {0}

(* g_serial_cfg and cur_state                                               *)
RealPort == 0
VirtualModem == 1
Outgoing == 2
Closed == -1
Failed == -2

(* How long ago the last character was put out: under half a second, under  *)
(* 0.8, under 0.9, or longer.                                               *)
Pauses == 0..3

VARIABLES
  m,        \* the state of the port
  cfg,      \* g_serial_cfg[port]
  pause,    \* time since out_char_dfcyc
  ringDue   \* two seconds have passed since the last ring

modemVars == <<m, cfg, pause, ringDue>>

Port ==
  [ state : -2..3,                         \* cur_state
    modem : BOOLEAN,                       \* modem_state: talk to the modem
    sock  : {"none", "listen", "remote"},  \* sockfd
    rdwr  : {"none", "caller", "remote"},  \* rdwrfd
    dcd   : BOOLEAN,
    dtr   : BOOLEAN,                       \* reg[5] & 0x80
    rings : 0..4,                          \* socket_num_rings
    s0    : 0..1,                          \* modem_s0_val
    plus  : 0..4,                          \* modem_plus_mode
    flushed : BOOLEAN,                     \* write_called_this_vbl
    out   : Seq(Tokens) ]                  \* out_buf

Then(states, Op(_)) == UNION {Op(s) : s \in states}

-----------------------------------------------------------------------------
(* Closing                                                                  *)

(* scc_socket_close: a modem goes back to its command mode, without carrier *)
Close(s) ==
  [s EXCEPT !.sock = "none", !.rdwr = "none", !.rings = 0,
            !.modem = (s.state = VirtualModem),
            !.dcd = IF s.state = VirtualModem THEN FALSE ELSE @]

(* scc_socket_close_extended: an outgoing-only port that may not try again  *)
(* has failed.                                                              *)
CloseExtended(s, retry) ==
  LET c == Close(s)
  IN  IF s.state = Outgoing /\ ~retry THEN [c EXCEPT !.state = Failed] ELSE c

-----------------------------------------------------------------------------
(* Opening                                                                  *)

(* scc_socket_open_incoming: socket, bind and listen, or not.               *)
OpenIncoming(s) ==
  LET c == Close(s) IN
  IF s.sock # "none" THEN {s}
  ELSE IF \/ s.state = Outgoing
          \/ s.state = VirtualModem /\ (~AllowIncoming \/ s.dtr)
       THEN {c}
       ELSE {c, [c EXCEPT !.sock = "listen"]}

(* scc_socket_open_outgoing                                                 *)
OpenOutgoing(s) ==
  LET c == Close(s)
  IN  { CloseExtended(c, FALSE),
        [c EXCEPT !.dcd = TRUE, !.modem = FALSE, !.sock = "remote", !.rdwr = "remote"] }

MaybeOpenNoDtr(s, must) ==             \* mutant: DTR is not looked at
  IF s.sock # "none" THEN {s}
  ELSE IF s.state # Outgoing THEN OpenIncoming(s)
  ELSE IF must THEN OpenOutgoing(s) ELSE {s}

(* scc_socket_maybe_open: DTR hangs a modem up; otherwise a port without a   *)
(* socket gets one, the outgoing port only if there is something to put out. *)
MaybeOpen(s, must) ==
  IF s.sock # "none"
  THEN {IF s.dtr /\ s.state = VirtualModem THEN Close(s) ELSE s}
  ELSE IF s.state # Outgoing THEN OpenIncoming(s)
  ELSE IF must THEN OpenOutgoing(s) ELSE {s}

(* scc_socket_open *)
SocketOpen(s, mode) ==
  LET o == [s EXCEPT !.state = mode, !.sock = "none", !.rdwr = "none", !.rings = 0, !.s0 = 0,
                     !.modem = (mode = VirtualModem), !.dcd = (mode # VirtualModem)]
  IN  IF mode = Outgoing THEN {o} ELSE OpenIncoming(o)
(* scc_is_port_closed: opens a closed port; one that did not open has       *)
(* failed, and stays so.                                                    *)
Opened(s, mode) ==
  LET tried == IF s.state # Closed THEN {s}
               ELSE IF mode = RealPort THEN {s, [s EXCEPT !.state = RealPort]}
               ELSE SocketOpen(s, mode)
  IN  {IF o.state < 0 THEN [o EXCEPT !.state = Failed] ELSE o : o \in tried}

-----------------------------------------------------------------------------
(* Answering                                                                *)

WithOut(s, t) ==                       \* scc_add_to_writebuf
  IF Len(s.out) + 1 < OutSize THEN [s EXCEPT !.out = Append(@, t)] ELSE s

(* scc_socket_telnet_reqs and the rest of scc_socket_do_answer, with a      *)
(* caller on the line                                                       *)
Answered(s) ==
  [WithOut(s, "telnet") EXCEPT !.modem = FALSE, !.dcd = TRUE, !.rings = 0]

(* scc_socket_modem_do_ring: four rings, or as many as S0 says, and then    *)
(* the call is answered or dropped.                                         *)
Ring(s, due) ==
  IF s.rings = 0 \/ ~s.modem \/ ~due THEN s
  ELSE IF s.rings > 1 THEN [s EXCEPT !.rings = @ - 1]
  ELSE IF s.s0 = 0 THEN Close(s)
  ELSE IF s.rdwr = "none" THEN CloseExtended(s, FALSE) ELSE Answered(s)

(* scc_accept_socket: a caller may be there.  The first ring is at once.    *)
Accept(s) ==
  Then(IF s.sock = "none" THEN OpenIncoming(s) ELSE {s},
       LAMBDA o : IF o.sock = "none" \/ o.rdwr # "none" THEN {o}
                  ELSE {o, Ring([o EXCEPT !.rdwr = "caller",
                                          !.rings = IF o.s0 > 0 THEN o.s0 ELSE 4], TRUE)})

DoAnswerBlind(s) ==                    \* mutant: answers without a caller
  {Answered(o) : o \in Accept(s)}

DoAnswer(s) ==
  {IF o.rdwr = "none" THEN CloseExtended(o, FALSE) ELSE Answered(o) : o \in Accept(s)}

-----------------------------------------------------------------------------
(* The modem's commands                                                     *)

(* scc_socket_do_cmd_str *)
Obey(s, cmd) ==
  CASE cmd = "ATS0" -> {[s EXCEPT !.s0 = 1]}
    [] cmd = "ATO" -> {IF s.dcd /\ s.modem /\ s.rdwr # "none" THEN [s EXCEPT !.modem = FALSE] ELSE s}
    [] cmd = "ATH" -> {Close(s)}
    [] cmd = "ATA" -> DoAnswer(s)
    [] cmd = "ATD" -> OpenOutgoing(s)
    [] OTHER -> {s}

(* scc_socket_modem_write: anything but a command changes only the line     *)
(* being typed.  The token leaves the buffer when it has been obeyed.       *)
ModemWrite(s) ==
  {[o EXCEPT !.out = Tail(@), !.flushed = FALSE] :
     o \in Then(OpenIncoming(s), LAMBDA c : Obey(c, Head(s.out)))}

-----------------------------------------------------------------------------
(* Output                                                                   *)

(* The escape, "+++": counted over what is about to be sent.  From the      *)
(* second character of a write on no time has passed.                       *)
CountPlus(s, n, quiet) ==
  LET Step(plus, t, gap) ==
        IF t # "+" THEN 0
        ELSE IF plus = 0 THEN (IF gap > 0 THEN 1 ELSE 0)
        ELSE IF gap < 2 THEN (IF plus < 4 THEN plus + 1 ELSE 4) ELSE plus
      After[i \in 0..n] ==
        IF i = 0 THEN s.plus
        ELSE Step(After[i - 1], s.out[i], IF i = 1 THEN quiet ELSE 0)
  IN  After[n]

(* After "+++" and a pause the modem listens to commands, still connected.  *)
Escape(s, quiet) ==
  IF quiet = 3 /\ s.plus = 3 /\ ~s.modem /\ s.state = VirtualModem
  THEN [s EXCEPT !.modem = TRUE, !.plus = 0] ELSE s

(* send: some of it, none, or an error, which is taken for a dead line.     *)
Sent(s, quiet) ==
  LET counted == [s EXCEPT !.plus = CountPlus(s, Len(s.out), quiet)]
  IN  {[counted EXCEPT !.out = SubSeq(@, n + 1, Len(@))] : n \in 0..Len(s.out)}
      \cup {CloseExtended(counted, TRUE)}

(* One turn of the loop of scc_socket_empty_writebuf, which is over once the *)
(* buffer is empty or left to the socket.  Which socket to write to is read *)
(* before scc_socket_maybe_open is called, which may open or close it.  (A  *)
(* second send in one call is left to the next call.)                       *)
DrainTurn(r, quiet) ==
  IF r.over \/ r.port.out = <<>> THEN {r}
  ELSE Then(MaybeOpen(r.port, TRUE),
            LAMBDA o : IF o.modem THEN {[port |-> w, over |-> FALSE] : w \in ModemWrite(o)}
                       ELSE {[port |-> w, over |-> TRUE] :
                               w \in IF r.port.rdwr = "none" THEN {o} ELSE Sent(o, quiet)})

TurnsAfter(s, quiet, turns) ==
  LET After[n \in 0..turns] ==
        IF n = 0 THEN {[port |-> s, over |-> FALSE]}
        ELSE UNION {DrainTurn(r, quiet) : r \in After[n - 1]}
  IN  After[turns]

(* The loop.  A turn that is not the last takes a token out of the buffer,  *)
(* or answers a call, and then the next one is the last.                    *)
Drain(s, quiet) == {r.port : r \in TurnsAfter(s, quiet, OutSize)}

EmptyWritebuf(s, quiet) ==
  Then(MaybeOpen(s, FALSE), LAMBDA o : Drain(Escape(o, quiet), quiet))

(* scc_serial_unix_empty_writebuf *)
WriteDevice(s) == {[s EXCEPT !.out = SubSeq(@, n + 1, Len(@))] : n \in 0..Len(s.out)}

(* scc_try_to_empty_writebuf: which driver is asked was decided before the  *)
(* port may have been opened.                                               *)
TryEmpty(s, mode, quiet) ==
  IF s.flushed THEN {s}
  ELSE Then(Opened(s, mode),
            LAMBDA o : LET f == [o EXCEPT !.flushed = (o.state >= 0)]
                       IN  IF o.state < 0 \/ s.state < 0 THEN {f}
                           ELSE IF s.state = RealPort THEN WriteDevice(f)
                           ELSE EmptyWritebuf(f, quiet))

-----------------------------------------------------------------------------
(* Input                                                                    *)

(* scc_socket_fill_readbuf: recv may find the line closed by the other side *)
FillReadbuf(s, due) ==
  Then(Accept(s),
       LAMBDA o : LET r == Ring(o, due /\ o.rings = s.rings)
                  IN  IF r.modem \/ r.rdwr = "none" THEN {r} ELSE {r, CloseExtended(r, TRUE)})

(* scc_serial_unix_fill_readbuf takes the carrier from the device.          *)
ReadDevice(s) == {[s EXCEPT !.dcd = c] : c \in BOOLEAN}

TryFill(s, mode, due) ==
  Then(Opened(s, mode),
       LAMBDA o : IF o.state < 0 THEN {o}
                  ELSE IF o.state = RealPort THEN ReadDevice(o) ELSE FillReadbuf(o, due))

-----------------------------------------------------------------------------
(* Actions                                                                  *)

(* Something put out starts the pause again; a ring starts its two seconds. *)
LeftAs(s, quiet) ==
  /\ m' = s
  /\ pause' = quiet
  /\ ringDue' = IF s.rings # m.rings THEN FALSE ELSE ringDue

PauseAfter(s) == IF ~s.modem /\ m.rdwr # "none" /\ m.out # <<>> THEN 0 ELSE pause

(* scc_update, once a frame *)
VblUpdate ==
  /\ \E e \in TryEmpty([m EXCEPT !.flushed = FALSE], cfg, pause) :
       \E f \in TryFill(e, cfg, ringDue) :
         LeftAs([f EXCEPT !.flushed = FALSE], PauseAfter(e))
  /\ UNCHANGED cfg

(* scc_write_data: scc_transmit, and an attempt to send                     *)
Transmit ==
  /\ \E t \in Typed, o \in Opened(m, cfg) :
       \E e \in TryEmpty(IF o.state < 0 THEN o ELSE WithOut(o, t), cfg, pause) :
         LeftAs(e, PauseAfter(e))
  /\ UNCHANGED cfg

(* scc_read_data *)
ReadPoll ==
  /\ \E f \in TryFill(m, cfg, ringDue) : LeftAs(f, pause)
  /\ UNCHANGED cfg

(* The guest writes WR5.                                                    *)
SetDtr ==
  /\ m' = [m EXCEPT !.dtr = ~@]
  /\ UNCHANGED <<cfg, pause, ringDue>>

(* scc_reset and scc_hard_reset_port                                        *)
MachineReset ==
  /\ m' = [m EXCEPT !.out = <<>>, !.dcd = ResetDcd, !.dtr = FALSE, !.flushed = FALSE]
  /\ UNCHANGED <<cfg, pause, ringDue>>

(* scc_port_close *)
PortClose(s) == [Close(s) EXCEPT !.state = Closed]

(* scc_config_changed: what matters depends on the state the port is in.    *)
ChangeMode ==
  /\ cfg' \in Modes \ {cfg}
  /\ m' = PortClose(m)
  /\ UNCHANGED <<pause, ringDue>>

ChangeRemote ==
  /\ m' = IF m.state = Outgoing THEN PortClose(m) ELSE m
  /\ UNCHANGED <<cfg, pause, ringDue>>

ChangeDevice ==
  /\ m' = IF m.state = RealPort THEN PortClose(m) ELSE m
  /\ UNCHANGED <<cfg, pause, ringDue>>

Wait ==
  /\ \/ pause < 3 /\ pause' = pause + 1 /\ UNCHANGED ringDue
     \/ ~ringDue /\ ringDue' = TRUE /\ UNCHANGED pause
  /\ UNCHANGED <<m, cfg>>

ModemInit ==
  /\ m = [ state |-> Closed, modem |-> FALSE, sock |-> "none", rdwr |-> "none",
           dcd |-> ResetDcd, dtr |-> FALSE, rings |-> 0, s0 |-> 0, plus |-> 0,
           flushed |-> FALSE, out |-> <<>> ]
  /\ cfg \in Modes
  /\ pause = 3
  /\ ringDue = TRUE

ModemNext ==
  \/ VblUpdate \/ Transmit \/ ReadPoll \/ SetDtr \/ MachineReset
  \/ ChangeMode \/ ChangeRemote \/ ChangeDevice \/ Wait

(* The frame update comes round, and time passes.                           *)
ModemFairness == WF_modemVars(VblUpdate) /\ WF_modemVars(Wait)

ModemSpec == ModemInit /\ [][ModemNext]_modemVars /\ ModemFairness

-----------------------------------------------------------------------------
(* Properties                                                               *)

(* The fields of the port have their types; the buffer stays in its array.  *)
ModemTypeOK ==
  /\ m \in Port /\ Len(m.out) < OutSize
  /\ cfg \in Modes /\ pause \in Pauses /\ ringDue \in BOOLEAN

(* A modem that is on line has somebody to talk to: with modem_state 0 what *)
(* the guest puts out would otherwise be kept for ever, and could not be    *)
(* answered by a command.  It rings only while a caller waits.              *)
OnlineHasLine ==
  m.state = VirtualModem =>
    /\ ~m.modem => m.rdwr # "none"
    /\ m.rings > 0 => m.rdwr = "caller"
    /\ m.rdwr # "none" => m.sock # "none"

(* A call does not ring for ever: it is answered or dropped, unless ATO     *)
(* takes the modem on line meanwhile.                                       *)
CallDecided ==
  m.state = VirtualModem /\ m.rings > 0 ~> m.rings = 0 \/ ~m.modem

(* DTR hangs the modem up, whatever it is doing, unless it is raised again. *)
DtrHangsUp ==
  m.state = VirtualModem /\ m.dtr /\ m.sock # "none" ~> ~m.dtr \/ m.sock = "none"

(* A virtual modem does not hang between two states: calls are decided, and *)
(* the guest can always hang up.                                            *)
ModemProgress == CallDecided /\ DtrHangsUp
=============================================================================
