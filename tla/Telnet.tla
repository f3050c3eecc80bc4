-------------------------------- MODULE Telnet --------------------------------
(***************************************************************************)
(* The negotiation of telnet options between two ends that both follow      *)
(* scc_socket_telnet_reqs and scc_socket_recvd_char: this emulator and one  *)
(* more of its kind at the other end of the line.  Each end keeps, for the  *)
(* 64 options of its bit masks, what it does itself, what the other does,   *)
(* and which requests of its own are not answered.                          *)
(***************************************************************************)
EXTENDS Integers, Sequences, FiniteSets

CONSTANTS
  Options,    \* options either end asks for
  Answers     \* how the host takes a call: "modem" (answers it) or "direct"

Ends == {"host", "peer"}
Other(e) == IF e = "host" THEN "peer" ELSE "host"
Verbs == {"WILL", "WONT", "DO", "DONT"}

(* What an end agrees to when asked (0x03 and 0x01), and what the host asks *)
(* for (the masks of scc_accept_socket).                                    *)
Agreeable == {1, 3}
HostWill == {1, 3}
HostDo == {1, 3, 34}

ASSUME TelnetAssumption ==
  /\ Options \subseteq 0..255 /\ HostWill \cup HostDo \subseteq Options
  /\ Answers \in {"modem", "direct"}

(* Options are kept in 64 bits.                                             *)
Slot(o) == o % 64
Slots == 0..63

VARIABLES
  self,      \* telnet_local_mode: options the end has on
  far,       \* telnet_remote_mode: options it takes the other to have on
  reqWill,   \* telnet_reqwill_mode
  reqDo,     \* telnet_reqdo_mode
  wire       \* what is on the way to an end

telnetVars == <<self, far, reqWill, reqDo, wire>>

(* scc_socket_telnet_reqs: the requests, in the order of the options        *)
Requests(will, do) ==
  LET Of(o) == (IF o \in will THEN <<<<"WILL", o>>>> ELSE <<>>)
               \o (IF o \in do THEN <<<<"DO", o>>>> ELSE <<>>)
      Upto[n \in 0..64] == IF n = 0 THEN <<>> ELSE Upto[n - 1] \o Of(n - 1)
  IN  Upto[64]

(* No call: scc_socket_close has cleared all four masks.                    *)
TelnetInit ==
  /\ self = [e \in Ends |-> {}] /\ far = [e \in Ends |-> {}]
  /\ reqWill = [e \in Ends |-> {}] /\ reqDo = [e \in Ends |-> {}]
  /\ wire = [e \in Ends |-> <<>>]

(* A call: the host notes its requests when it accepts (scc_accept_socket)  *)
(* and sends them when it answers, which only the virtual modem does        *)
(* (scc_socket_do_answer).  The other end may have requests of its own.     *)
Call ==
  /\ self["host"] = {} /\ far["host"] = {} /\ reqDo["host"] = {}
  /\ \E will, do \in SUBSET {o \in Options : o < 64} :
       /\ reqWill' = [e \in Ends |-> IF e = "host" THEN HostWill ELSE will]
       /\ reqDo' = [e \in Ends |-> IF e = "host" THEN HostDo ELSE do]
       /\ wire' = [e \in Ends |->
            IF e = "host" THEN Requests(will, do)
            ELSE IF Answers = "modem" THEN Requests(HostWill, HostDo) ELSE <<>>]
  /\ UNCHANGED <<self, far>>

(* Is it news, and not the answer to a request of this end?                 *)
NewDo(e, s) == s \notin self[e] /\ s \notin reqWill[e]
NewWill(e, s) == s \notin far[e] /\ s \notin reqDo[e]

(* The reply to a request, if there is one.                                 *)
Reply(e, verb, o) ==
  LET s == Slot(o) IN
  CASE verb = "DO" /\ NewDo(e, s) -> <<IF o \in Agreeable THEN "WILL" ELSE "WONT", o>>
    [] verb = "WILL" /\ NewWill(e, s) -> <<IF o \in Agreeable THEN "DO" ELSE "DONT", o>>
    [] verb = "DONT" /\ s \in self[e] /\ s \notin reqWill[e] -> <<"WONT", o>>
    [] verb = "WONT" /\ s \in far[e] /\ s \notin reqDo[e] -> <<"DONT", o>>
    [] OTHER -> <<>>

(* On agreement the option is on: asked for here, or agreed to just now.    *)
SelfAfter(e, verb, o) ==
  LET s == Slot(o) IN
  CASE verb = "DO" /\ (s \in reqWill[e] \/ (NewDo(e, s) /\ o \in Agreeable)) -> self[e] \cup {s}
    [] verb = "DONT" -> self[e] \ {s}
    [] OTHER -> self[e]

FarAfterAsked(e, verb, o) ==                       \* mutant: only what this end asked for
  LET s == Slot(o) IN
  CASE verb = "WILL" /\ s \in reqDo[e] -> far[e] \cup {s}
    [] verb = "WONT" -> far[e] \ {s}
    [] OTHER -> far[e]

FarAfter(e, verb, o) ==
  LET s == Slot(o) IN
  CASE verb = "WILL" /\ (s \in reqDo[e] \/ (NewWill(e, s) /\ o \in Agreeable)) -> far[e] \cup {s}
    [] verb = "WONT" -> far[e] \ {s}
    [] OTHER -> far[e]

(* scc_socket_recvd_char: one whole request is taken from the line.         *)
Recvd(e) ==
  /\ wire[e] # <<>>
  /\ LET verb == Head(wire[e])[1]
         o == Head(wire[e])[2]
         r == Reply(e, verb, o)
     IN  /\ self' = [self EXCEPT ![e] = SelfAfter(e, verb, o)]
         /\ far' = [far EXCEPT ![e] = FarAfter(e, verb, o)]
         /\ reqWill' = [reqWill EXCEPT ![e] = IF verb \in {"DO", "DONT"} THEN @ \ {Slot(o)} ELSE @]
         /\ reqDo' = [reqDo EXCEPT ![e] = IF verb \in {"WILL", "WONT"} THEN @ \ {Slot(o)} ELSE @]
         /\ wire' = [wire EXCEPT ![e] = Tail(@),
                                 ![Other(e)] = IF r = <<>> THEN @ ELSE Append(@, r)]

TelnetNext == Call \/ \E e \in Ends : Recvd(e)

TelnetFairness == \A e \in Ends : WF_telnetVars(Recvd(e))

TelnetSpec == TelnetInit /\ [][TelnetNext]_telnetVars /\ TelnetFairness

-----------------------------------------------------------------------------
Quiet == \A e \in Ends : wire[e] = <<>>

TelnetTypeOK ==
  /\ self \in [Ends -> SUBSET Slots] /\ far \in [Ends -> SUBSET Slots]
  /\ reqWill \in [Ends -> SUBSET Slots] /\ reqDo \in [Ends -> SUBSET Slots]
  /\ \A e \in Ends : \A i \in 1..Len(wire[e]) : wire[e][i] \in Verbs \X Options

(* Each end does what the other takes it to do.                             *)
EndsAgree == \A e \in Ends : self[e] = far[Other(e)]

(* Once nothing is on the way in either direction, however the requests and *)
(* the replies crossed, the ends mean the same options and wait for nothing.*)
AgreedWhenQuiet ==
  Answers = "modem" /\ Quiet => EndsAgree /\ \A e \in Ends : reqWill[e] = {} /\ reqDo[e] = {}

(* Negotiation settles.  Two ends that answer only what changes something   *)
(* do not go on answering each other, so the line falls silent; no request  *)
(* is left open, and however the requests of the two crossed, both ends     *)
(* mean the same options.                                                   *)
NegotiationSettles ==
  <>[](Quiet /\ EndsAgree /\ \A e \in Ends : reqWill[e] = {} /\ reqDo[e] = {})
=============================================================================
