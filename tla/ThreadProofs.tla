---------------------------- MODULE ThreadProofs ----------------------------
(***************************************************************************)
(* Proofs about the two places where the program's main thread shares memory *)
(* with the debug server's thread. PART 1: DebugServer, for any number of   *)
(* requests and instructions: the types, that an acknowledged halt holds,   *)
(* and that the answer to a command is at most one command behind. PART 2:  *)
(* Keyboard, for all sizes of the buffers, keys and numbers of them: keys   *)
(* are taken in the order they were pressed, pasted characters each once    *)
(* and in order while the two threads keep apart, none is left behind in    *)
(* the paste buffer even when they do not, and a key repeats only while it  *)
(* is down.                                                                 *)
(***************************************************************************)
EXTENDS DebugServer, Keyboard, SequenceTheorems, TLAPS

-----------------------------------------------------------------------------
(* PART 1: the debug server's mailbox *)

(* The main thread has a command in its hands.                              *)
Working == mpc \in {"exec", "post"} \/ (mpc = "reset" /\ hasCmd)

(* The mailbox is full exactly while the server's thread waits, then with    *)
(* the request that was accepted last; it is always the last command.       *)
Mailbox ==
  /\ pending <=> spc = "wait"
  /\ spc = "wait" => cmd = reqs /\ cmd # 0
  /\ cmd # 0 => /\ cmd <= reqs /\ kind[cmd] \in Commands
                /\ \A q \in (cmd + 1)..reqs : kind[q] \notin Commands

(* What the main thread works on is in the mailbox, or was before the one    *)
(* that is: then the server's thread has not been answered since.           *)
CopyOfLast ==
  Working => /\ copy \in 1..reqs /\ kind[copy] \in Commands
             /\ \/ copy = cmd
                \/ spc = "wait" /\ ~done /\ copy \in Previous(cmd)

RespOfLast == resp # 0 => resp \in {cmd} \cup Previous(cmd)

Answered ==
  \A r \in Ids : answer[r] # 0 => r <= reqs /\ answer[r] \in {r} \cup Previous(r)

(* The engine has been entered since the halt only if it is not about to be. *)
EnteredOnce == held /\ mpc = "enter" => entries = 0

(* The Boolean part of TypeOK.                                              *)
Flags ==
  /\ stepping \in BOOLEAN /\ newHalt \in BOOLEAN /\ open \in BOOLEAN
  /\ stepOnly \in BOOLEAN /\ pending \in BOOLEAN /\ done \in BOOLEAN
  /\ restart \in BOOLEAN /\ hasCmd \in BOOLEAN /\ doRestart \in BOOLEAN
  /\ held \in BOOLEAN

IInv ==
  TypeOK /\ Mailbox /\ CopyOfLast /\ RespOfLast /\ Answered /\ HaltHolds /\ EnteredOnce

LEMMA InvInit == Init => IInv
<1> SUFFICES ASSUME Init PROVE IInv
  OBVIOUS
<1>f. Flags /\ info \in [valid : BOOLEAN, pc : 0..MaxKpc]
  <2>1. 0 \in 0..MaxKpc
    BY ServerAssumption
  <2> QED BY <2>1 DEF Init, Flags
<1>1. TypeOK
  BY <1>f, ServerAssumption DEF Init, Flags, TypeOK, Ids
<1>2. Mailbox /\ CopyOfLast /\ RespOfLast /\ HaltHolds /\ EnteredOnce
  BY DEF Init, Mailbox, CopyOfLast, Working, RespOfLast, HaltHolds, EnteredOnce
<1>3. Answered
  BY DEF Init, Answered
<1> QED BY <1>1, <1>2, <1>3 DEF IInv

-----------------------------------------------------------------------------
(* A new request does not change what went before the earlier ones.         *)
LEMMA PreviousKept ==
  ASSUME TypeOK, NEW k, Accept(k), NEW r \in Nat, r <= reqs
  PROVE  Previous(r)' = Previous(r)
<1>1. \A q \in 1..(r - 1) : kind'[q] = kind[q]
  BY ServerAssumption DEF Accept, TypeOK, Ids
<1> QED
  BY <1>1 DEF Previous

(* What a request leaves as it is, and what it adds.                        *)
LEMMA AcceptSpec ==
  ASSUME TypeOK, NEW k \in Kinds, Accept(k)
  PROVE  /\ reqs' = reqs + 1 /\ reqs' \in Ids
         /\ kind' \in [Ids -> Kinds \cup {"none"}]
         /\ kind'[reqs'] = k
         /\ \A q \in 1..reqs : kind'[q] = kind[q]
  BY ServerAssumption DEF Accept, TypeOK, Ids

LEMMA AcceptKeeps ==
  ASSUME NEW k, Accept(k)
  PROVE  UNCHANGED <<mpc, info, kpc, back, haltRead, copy, answer>>
  BY DEF Accept, mainVars, pollVars

LEMMA RequestTypes ==
  ASSUME TypeOK, NEW k \in Kinds, Accept(k), Flags', halt' \subseteq {1, 2},
         spc' \in {"accept", "halt", "continue", "step", "wait"},
         cmd' \in 0..MaxReq, resp' \in 0..MaxReq, done' <=> resp' # 0,
         entries' = entries
  PROVE  TypeOK'
<1>1. reqs' \in 0..MaxReq /\ kind' \in [Ids -> Kinds \cup {"none"}]
  BY AcceptSpec, ServerAssumption DEF Ids
<1>2. UNCHANGED <<mpc, info, kpc, back, haltRead, copy, answer>>
  BY AcceptKeeps
<1>3. mpc' \in {"exec", "post"} => copy' \in 1..reqs' /\ kind'[copy'] \in Commands
  <2>1. mpc \in {"exec", "post"} => copy \in 1..reqs /\ kind[copy] \in Commands
    BY DEF TypeOK
  <2>2. reqs \in Nat
    BY ServerAssumption DEF TypeOK
  <2> QED BY <2>1, <2>2, <1>2, AcceptSpec
<1> QED BY <1>1, <1>2, <1>3 DEF TypeOK, Flags

(* Requests other than commands leave the mailbox alone.                    *)
LEMMA OtherRequest ==
  ASSUME IInv, NEW k \in Kinds \ Commands, Accept(k),
         UNCHANGED <<pending, done, cmd, resp>>,
         (spc' # "wait")
  PROVE  Mailbox' /\ CopyOfLast' /\ RespOfLast' /\ Answered'
<1>1. spc = "accept" /\ UNCHANGED <<mpc, hasCmd, copy, answer>>
  BY DEF Accept, pollVars
<1>2. /\ reqs \in Nat /\ reqs' = reqs + 1 /\ reqs' \in Ids /\ kind'[reqs'] = k
      /\ \A q \in 1..reqs : kind'[q] = kind[q]
  BY AcceptSpec, ServerAssumption DEF IInv, TypeOK
<1>3. cmd \in Nat /\ cmd <= reqs
  BY DEF IInv, TypeOK, Mailbox
<1>4. Previous(cmd)' = Previous(cmd)
  <2>1. \A r \in Nat : r <= reqs => Previous(r)' = Previous(r)
    BY PreviousKept DEF IInv
  <2> QED BY <2>1, <1>3, <1>1
<1>5. Mailbox'
  BY <1>1, <1>2, <1>3 DEF IInv, Mailbox
<1>6. CopyOfLast'
  BY <1>1, <1>2, <1>4 DEF IInv, CopyOfLast, Working
<1>7. RespOfLast'
  BY <1>4 DEF IInv, RespOfLast
<1>8. Answered'
  <2> SUFFICES ASSUME NEW r \in Ids, answer[r] # 0
               PROVE  r <= reqs' /\ answer[r] \in {r} \cup Previous(r)'
    BY <1>1 DEF Answered, Ids
  <2>1. r <= reqs /\ answer[r] \in {r} \cup Previous(r)
    BY DEF IInv, Answered
  <2>2. Previous(r)' = Previous(r)
    BY <2>1, PreviousKept DEF IInv, Ids
  <2> QED BY <2>1, <2>2, <1>2 DEF Ids
<1> QED BY <1>5, <1>6, <1>7, <1>8

-----------------------------------------------------------------------------
(* The main thread's steps, request and command numbers staying as they are. *)
LEMMA KindKept ==
  ASSUME kind' = kind, NEW r
  PROVE  Previous(r)' = Previous(r)
  BY DEF Previous

(* Steps that concern neither the mailbox nor the poll.                     *)
LEMMA MailboxUntouched ==
  ASSUME IInv, UNCHANGED <<mailVars, pollVars, reqs, kind, answer>>,
         pending <=> spc' = "wait",
         Working' => Working
  PROVE  Mailbox' /\ CopyOfLast' /\ RespOfLast' /\ Answered'
<1>1. UNCHANGED <<pending, done, cmd, resp, hasCmd, copy, reqs, kind, answer>>
  BY DEF mailVars, pollVars
<1>2. \A r : Previous(r)' = Previous(r)
  BY <1>1, KindKept
<1>3. Mailbox'
  BY <1>1 DEF IInv, Mailbox
<1>4. CopyOfLast'
  BY <1>1, <1>2 DEF IInv, CopyOfLast, Mailbox
<1>5. RespOfLast' /\ Answered'
  BY <1>1, <1>2 DEF IInv, RespOfLast, Answered
<1> QED BY <1>3, <1>4, <1>5

LEMMA MainStep == IInv /\ Main => IInv'
<1> SUFFICES ASSUME IInv, Main PROVE IInv'
  OBVIOUS
<1> USE DEF IInv
<1>1. CASE RunFrame
  <2>1. TypeOK' /\ HaltHolds' /\ EnteredOnce'
    BY <1>1 DEF RunFrame, TypeOK, HaltHolds, EnteredOnce, mainVars, mailVars, pollVars,
                serverVars, histVars
  <2>2. Mailbox' /\ CopyOfLast' /\ RespOfLast' /\ Answered'
    BY <1>1, MailboxUntouched
    DEF RunFrame, Mailbox, Working, serverVars, mailVars, pollVars
  <2> QED BY <2>1, <2>2
<1>2. CASE DebuggerRun16ms
  <2>0. Flags'
    BY <1>2 DEF DebuggerRun16ms, TypeOK, Flags, mainVars, mailVars, pollVars, histVars
  <2>1. TypeOK' /\ HaltHolds' /\ EnteredOnce'
    BY <1>2, <2>0 DEF DebuggerRun16ms, TypeOK, Flags, HaltHolds, EnteredOnce, mainVars, mailVars, pollVars,
                serverVars, histVars
  <2>2. Mailbox' /\ CopyOfLast' /\ RespOfLast' /\ Answered'
    BY <1>2, MailboxUntouched
    DEF DebuggerRun16ms, Mailbox, Working, serverVars, mailVars, pollVars
  <2> QED BY <2>1, <2>2
<1>3. CASE EnterEngine
  <2>1. TypeOK' /\ HaltHolds' /\ EnteredOnce'
    BY <1>3 DEF EnterEngine, TypeOK, HaltHolds, EnteredOnce, mainVars, mailVars, pollVars,
                serverVars, histVars
  <2>2. Mailbox' /\ CopyOfLast' /\ RespOfLast' /\ Answered'
    BY <1>3, MailboxUntouched
    DEF EnterEngine, Mailbox, Working, serverVars, mailVars, pollVars
  <2> QED BY <2>1, <2>2
<1>4. CASE Instruction
  <2>1. TypeOK' /\ HaltHolds' /\ EnteredOnce'
    BY <1>4, ServerAssumption
    DEF Instruction, TypeOK, HaltHolds, EnteredOnce, mainVars, mailVars, pollVars,
        serverVars, histVars
  <2>2. Mailbox' /\ CopyOfLast' /\ RespOfLast' /\ Answered'
    BY <1>4, MailboxUntouched
    DEF Instruction, Mailbox, Working, serverVars, mailVars, pollVars
  <2> QED BY <2>1, <2>2
<1>5. CASE SetHaltRead
  <2>1. TypeOK' /\ HaltHolds' /\ EnteredOnce'
    BY <1>5 DEF SetHaltRead, NewHalt, TypeOK, HaltHolds, EnteredOnce, mainVars, mailVars,
                pollVars, serverVars, histVars
  <2>2. Mailbox' /\ CopyOfLast' /\ RespOfLast' /\ Answered'
    BY <1>5, MailboxUntouched
    DEF SetHaltRead, Mailbox, Working, serverVars, mailVars, pollVars
  <2> QED BY <2>1, <2>2
<1>6. CASE SetHaltWrite
  <2>0. Flags'
    BY <1>6 DEF SetHaltWrite, TypeOK, Flags, mainVars, mailVars, pollVars, histVars
  <2>1. TypeOK' /\ HaltHolds' /\ EnteredOnce'
    BY <1>6, <2>0 DEF SetHaltWrite, TypeOK, Flags, HaltHolds, EnteredOnce, mainVars, mailVars, pollVars,
                serverVars, histVars
  <2>2. Mailbox' /\ CopyOfLast' /\ RespOfLast' /\ Answered'
    BY <1>6, MailboxUntouched
    DEF SetHaltWrite, TypeOK, Mailbox, Working, serverVars, mailVars, pollVars
  <2> QED BY <2>1, <2>2
<1>7. CASE LeaveEngine
  <2>1. TypeOK' /\ HaltHolds' /\ EnteredOnce'
    BY <1>7 DEF LeaveEngine, Stops, TypeOK, HaltHolds, EnteredOnce, mainVars, mailVars,
                pollVars, serverVars, histVars
  <2>2. Mailbox' /\ CopyOfLast' /\ RespOfLast' /\ Answered'
    BY <1>7, MailboxUntouched
    DEF LeaveEngine, Mailbox, Working, serverVars, mailVars, pollVars
  <2> QED BY <2>1, <2>2
<1>8. CASE FrameOver
  <2>1. TypeOK' /\ HaltHolds' /\ EnteredOnce'
    BY <1>8 DEF FrameOver, TypeOK, HaltHolds, EnteredOnce, mainVars, mailVars, pollVars,
                serverVars, histVars
  <2>2. Mailbox' /\ CopyOfLast' /\ RespOfLast' /\ Answered'
    BY <1>8, MailboxUntouched
    DEF FrameOver, Mailbox, Working, serverVars, mailVars, pollVars
  <2> QED BY <2>1, <2>2
<1>9. CASE Poll
  <2> USE <1>9
  <2>1. UNCHANGED <<pending, done, cmd, resp, reqs, kind, answer, spc>>
    BY DEF Poll, mailVars, serverVars
  <2>2. \A r : Previous(r)' = Previous(r)
    BY <2>1, KindKept
  <2>3. Working' => pending /\ copy' = cmd
    BY DEF Poll, Working, NothingToDo
  <2>4. pending => cmd \in 1..reqs /\ kind[cmd] \in Commands
    BY DEF Mailbox, TypeOK
  <2>5. TypeOK'
    <3>1. Flags'
      BY DEF Poll, Flags, TypeOK, mainVars, mailVars, histVars
    <3>2. mpc' \in {"video", "reset", "exec"}
      BY DEF Poll, NothingToDo
    <3>3. copy' \in 0..MaxReq
      BY ServerAssumption DEF Poll, TypeOK
    <3>4. UNCHANGED <<halt, info, kpc, back, haltRead, entries>>
      BY DEF Poll, mainVars, histVars
    <3> QED BY <3>1, <3>2, <3>3, <3>4, <2>1, <2>3, <2>4 DEF TypeOK, Flags, Working
  <2>6. Mailbox' /\ CopyOfLast' /\ RespOfLast' /\ Answered'
    BY <2>1, <2>2, <2>3, <2>4 DEF Mailbox, CopyOfLast, RespOfLast, Answered
  <2>7. HaltHolds' /\ EnteredOnce'
    BY DEF Poll, HaltHolds, EnteredOnce, histVars
  <2> QED BY <2>5, <2>6, <2>7
<1>10. CASE DoReset
  <2>0. Flags'
    BY <1>10 DEF DoReset, TypeOK, Flags, mainVars, mailVars, pollVars, histVars
  <2>1. TypeOK' /\ HaltHolds' /\ EnteredOnce'
    BY <1>10, <2>0 DEF DoReset, TypeOK, Flags, CopyOfLast, Working, HaltHolds, EnteredOnce, mainVars,
                 mailVars, pollVars, serverVars, histVars
  <2>2. Mailbox' /\ CopyOfLast' /\ RespOfLast' /\ Answered'
    BY <1>10, MailboxUntouched
    DEF DoReset, Mailbox, Working, serverVars, mailVars, pollVars
  <2> QED BY <2>1, <2>2
<1>11. CASE DoDebugCmd
  <2>0. Flags'
    BY <1>11 DEF DoDebugCmd, TypeOK, Flags, mainVars, mailVars, pollVars, histVars
  <2>1. TypeOK' /\ HaltHolds' /\ EnteredOnce'
    BY <1>11, <2>0 DEF DoDebugCmd, TypeOK, Flags, HaltHolds, EnteredOnce, mainVars, mailVars, pollVars,
                 serverVars
  <2>2. Mailbox' /\ CopyOfLast' /\ RespOfLast' /\ Answered'
    BY <1>11, MailboxUntouched
    DEF DoDebugCmd, Mailbox, Working, serverVars, mailVars, pollVars
  <2> QED BY <2>1, <2>2
<1>12. CASE Post
  <2> USE <1>12
  <2>1. UNCHANGED <<pending, cmd, reqs, kind, answer, spc>>
    BY DEF Post, serverVars
  <2>2. \A r : Previous(r)' = Previous(r)
    BY <2>1, KindKept
  <2>3. copy \in {cmd} \cup Previous(cmd) /\ copy \in 1..reqs /\ copy # 0
    BY DEF Post, CopyOfLast, Working, TypeOK
  <2>4. TypeOK'
    BY <2>1, <2>3 DEF Post, TypeOK, mainVars, pollVars, histVars
  <2>5. Mailbox' /\ CopyOfLast' /\ RespOfLast' /\ Answered'
    BY <2>1, <2>2, <2>3 DEF Post, Mailbox, CopyOfLast, Working, RespOfLast, Answered
  <2>6. HaltHolds' /\ EnteredOnce'
    BY DEF Post, HaltHolds, EnteredOnce, histVars
  <2> QED BY <2>4, <2>5, <2>6
<1>13. CASE VideoUpdate
  <2>1. TypeOK' /\ HaltHolds' /\ EnteredOnce'
    BY <1>13 DEF VideoUpdate, TypeOK, HaltHolds, EnteredOnce, mailVars, pollVars,
                 serverVars, histVars
  <2>2. Mailbox' /\ CopyOfLast' /\ RespOfLast' /\ Answered'
    BY <1>13, MailboxUntouched
    DEF VideoUpdate, Mailbox, Working, serverVars, mailVars, pollVars
  <2> QED BY <2>1, <2>2
<1> QED
  BY <1>1, <1>2, <1>3, <1>4, <1>5, <1>6, <1>7, <1>8, <1>9, <1>10, <1>11, <1>12, <1>13 DEF Main

-----------------------------------------------------------------------------
(* The server's steps                                                       *)

LEMMA ServerStep == IInv /\ Server => IInv'
<1> SUFFICES ASSUME IInv, Server PROVE IInv'
  OBVIOUS
<1> USE DEF IInv
<1>1. CASE CmdHaltDeadline
  <2>0. Flags'
    BY <1>1 DEF CmdHaltDeadline, TypeOK, Flags, mainVars, mailVars, pollVars, histVars
  <2>1. TypeOK' /\ HaltHolds' /\ EnteredOnce'
    BY <1>1, <2>0 DEF CmdHaltDeadline, TypeOK, Flags, HaltHolds, EnteredOnce, mailVars, pollVars
  <2>2. Mailbox' /\ CopyOfLast' /\ RespOfLast' /\ Answered'
    BY <1>1, MailboxUntouched DEF CmdHaltDeadline, Mailbox, Working, mailVars, pollVars
  <2> QED BY <2>1, <2>2
<1>2. CASE CmdContinueStepping
  <2>0. Flags'
    BY <1>2 DEF CmdContinueStepping, TypeOK, Flags, mainVars, mailVars, pollVars, histVars
  <2>1. TypeOK' /\ HaltHolds' /\ EnteredOnce'
    BY <1>2, <2>0 DEF CmdContinueStepping, TypeOK, Flags, HaltHolds, EnteredOnce, mainVars, mailVars,
                pollVars, histVars
  <2>2. Mailbox' /\ CopyOfLast' /\ RespOfLast' /\ Answered'
    BY <1>2, MailboxUntouched DEF CmdContinueStepping, Mailbox, Working, mailVars, pollVars
  <2> QED BY <2>1, <2>2
<1>3. CASE CmdStepHalt
  <2>0. Flags'
    BY <1>3 DEF CmdStepHalt, TypeOK, Flags, mainVars, mailVars, pollVars, histVars
  <2>1. TypeOK' /\ HaltHolds' /\ EnteredOnce'
    BY <1>3, <2>0 DEF CmdStepHalt, TypeOK, Flags, HaltHolds, EnteredOnce, mainVars, mailVars, pollVars
  <2>2. Mailbox' /\ CopyOfLast' /\ RespOfLast' /\ Answered'
    BY <1>3, MailboxUntouched DEF CmdStepHalt, Mailbox, Working, mailVars, pollVars
  <2> QED BY <2>1, <2>2
<1>4. CASE TakeResponse
  <2> USE <1>4
  <2>1. /\ UNCHANGED <<mpc, done, cmd, resp, hasCmd, copy, reqs, kind>>
        /\ spc = "wait" /\ spc' = "accept" /\ ~pending'
        /\ answer' = [answer EXCEPT ![reqs] = resp]
    BY DEF TakeResponse, pollVars
  <2>2. \A r : Previous(r)' = Previous(r)
    BY <2>1, KindKept
  <2>3. cmd = reqs
    BY <2>1 DEF Mailbox
  <2>4. TypeOK'
    <3>1. Flags'
      BY DEF TakeResponse, Flags, TypeOK, mainVars, pollVars, histVars
    <3>2. answer' \in [Ids -> 0..MaxReq]
      BY <2>1 DEF TypeOK
    <3> QED BY <3>1, <3>2, <2>1 DEF TakeResponse, TypeOK, Flags, mainVars, histVars
  <2>5. Mailbox' /\ RespOfLast'
    BY <2>1, <2>2 DEF Mailbox, RespOfLast
  <2>6. CopyOfLast'
    BY <2>1, <2>2 DEF TakeResponse, CopyOfLast, Working
  <2>7. Answered'
    BY <2>1, <2>2, <2>3 DEF Answered, RespOfLast, TypeOK, Ids
  <2>8. HaltHolds' /\ EnteredOnce'
    BY DEF TakeResponse, HaltHolds, EnteredOnce, histVars
  <2> QED BY <2>4, <2>5, <2>6, <2>7, <2>8
<1> QED
  BY <1>1, <1>2, <1>3, <1>4 DEF Server

LEMMA RequestStep == IInv /\ Request => IInv'
<1> SUFFICES ASSUME IInv, Request PROVE IInv'
  OBVIOUS
<1> USE DEF IInv
<1>1. CASE "halt" \in Kinds /\ CmdHalt
  <2>0. Flags'
    BY <1>1 DEF CmdHalt, Accept, TypeOK, Flags, mainVars, mailVars, pollVars, histVars
  <2>1. TypeOK'
    BY <1>1, <2>0, RequestTypes DEF CmdHalt, Accept, TypeOK, mailVars
  <2>3. HaltHolds' /\ EnteredOnce'
    BY <1>1, AcceptKeeps DEF CmdHalt, HaltHolds, EnteredOnce
  <2>2. Mailbox' /\ CopyOfLast' /\ RespOfLast' /\ Answered'
    BY <1>1, OtherRequest DEF CmdHalt, Commands, mailVars
  <2> QED BY <2>1, <2>2, <2>3
<1>2. CASE "continue" \in Kinds /\ CmdContinue
  <2>0. Flags'
    BY <1>2 DEF CmdContinue, Accept, TypeOK, Flags, mainVars, mailVars, pollVars, histVars
  <2>1. TypeOK'
    BY <1>2, <2>0, RequestTypes DEF CmdContinue, Accept, TypeOK, mailVars
  <2>3. HaltHolds' /\ EnteredOnce'
    BY <1>2, AcceptKeeps DEF CmdContinue, HaltHolds, EnteredOnce
  <2>2. Mailbox' /\ CopyOfLast' /\ RespOfLast' /\ Answered'
    BY <1>2, OtherRequest DEF CmdContinue, Commands, mailVars
  <2> QED BY <2>1, <2>2, <2>3
<1>3. CASE "step" \in Kinds /\ CmdStep
  <2>0. Flags'
    BY <1>3 DEF CmdStep, Accept, TypeOK, Flags, mainVars, mailVars, pollVars, histVars
  <2>1. TypeOK'
    BY <1>3, <2>0, RequestTypes DEF CmdStep, Accept, TypeOK, mailVars
  <2>3. HaltHolds' /\ EnteredOnce'
    BY <1>3, AcceptKeeps DEF CmdStep, HaltHolds, EnteredOnce
  <2>2. Mailbox' /\ CopyOfLast' /\ RespOfLast' /\ Answered'
    BY <1>3, OtherRequest DEF CmdStep, Commands, mailVars
  <2> QED BY <2>1, <2>2, <2>3
<1>4. CASE "restart" \in Kinds /\ CmdRestart
  <2>0. Flags'
    BY <1>4 DEF CmdRestart, Accept, TypeOK, Flags, mainVars, mailVars, pollVars, histVars
  <2>1. TypeOK'
    BY <1>4, <2>0, RequestTypes DEF CmdRestart, Accept, TypeOK, mailVars
  <2>3. HaltHolds' /\ EnteredOnce'
    BY <1>4, AcceptKeeps DEF CmdRestart, HaltHolds, EnteredOnce
  <2>2. Mailbox' /\ CopyOfLast' /\ RespOfLast' /\ Answered'
    BY <1>4, OtherRequest DEF CmdRestart, Accept, Commands, mailVars
  <2> QED BY <2>1, <2>2, <2>3
<1>5. CASE "get_break_info" \in Kinds /\ CmdGetBreakInfo
  <2>0. Flags'
    BY <1>5 DEF CmdGetBreakInfo, Accept, TypeOK, Flags, mainVars, mailVars, pollVars, histVars
  <2>1. TypeOK'
    BY <1>5, <2>0, RequestTypes DEF CmdGetBreakInfo, Accept, TypeOK, mailVars
  <2>3. HaltHolds' /\ EnteredOnce'
    BY <1>5, AcceptKeeps DEF CmdGetBreakInfo, HaltHolds, EnteredOnce
  <2>2. Mailbox' /\ CopyOfLast' /\ RespOfLast' /\ Answered'
    BY <1>5, OtherRequest DEF CmdGetBreakInfo, Accept, Commands, mailVars
  <2> QED BY <2>1, <2>2, <2>3
<1>6. ASSUME NEW text \in Kinds \cap Commands, CmdDebuggerCommand(text)
      PROVE  IInv'
  <2> USE <1>6
  <2>1. /\ Accept(text) /\ spc = "accept" /\ spc' = "wait"
        /\ pending' = TRUE /\ cmd' = reqs' /\ resp' = 0 /\ done' = FALSE
        /\ UNCHANGED <<mpc, hasCmd, copy, answer>>
    BY DEF CmdDebuggerCommand, Accept, Queue, pollVars
  <2>2. /\ reqs \in Nat /\ reqs' = reqs + 1 /\ reqs' \in Ids
        /\ kind' \in [Ids -> Kinds \cup {"none"}]
        /\ kind'[reqs'] = text /\ \A q \in 1..reqs : kind'[q] = kind[q]
    BY <2>1, AcceptSpec, ServerAssumption DEF TypeOK
  <2>3. TypeOK'
    <3>1. Flags'
      BY <2>1 DEF CmdDebuggerCommand, Accept, Flags, TypeOK, mainVars, pollVars
    <3>2. UNCHANGED <<halt, entries>>
      BY DEF CmdDebuggerCommand
    <3>3. halt \subseteq {1, 2} /\ cmd' \in 0..MaxReq /\ 0 \in 0..MaxReq
      BY <2>1, <2>2, ServerAssumption DEF TypeOK, Ids
    <3> QED BY <3>1, <3>2, <3>3, <2>1, RequestTypes
  <2>4. Mailbox'
    BY <2>1, <2>2 DEF Mailbox
  <2>5. CopyOfLast'
    <3> SUFFICES ASSUME Working
                 PROVE  copy \in 1..reqs /\ kind'[copy] \in Commands /\ copy \in Previous(cmd)'
      BY <2>1, <2>2 DEF CopyOfLast, Working
    <3>1. copy = cmd /\ copy \in 1..reqs /\ kind[copy] \in Commands
      BY <2>1 DEF CopyOfLast
    <3>2. \A q \in (copy + 1)..reqs : kind[q] \notin Commands
      BY <3>1 DEF Mailbox
    <3>3. \A q \in (copy + 1)..(cmd' - 1) : kind'[q] \notin Commands
      BY <3>1, <3>2, <2>1, <2>2
    <3> QED BY <3>1, <3>3, <2>1, <2>2 DEF Previous
  <2>6. RespOfLast'
    BY <2>1 DEF RespOfLast
  <2>7. Answered'
    <3> SUFFICES ASSUME NEW r \in Ids, answer[r] # 0
                 PROVE  r <= reqs' /\ answer[r] \in {r} \cup Previous(r)'
      BY <2>1 DEF Answered, Ids
    <3>1. r <= reqs /\ answer[r] \in {r} \cup Previous(r)
      BY DEF Answered
    <3>2. Previous(r)' = Previous(r)
      BY <3>1, <2>1, PreviousKept DEF Ids
    <3> QED BY <3>1, <3>2, <2>2 DEF Ids
  <2>8. HaltHolds' /\ EnteredOnce'
    BY <2>1 DEF CmdDebuggerCommand, HaltHolds, EnteredOnce
  <2> QED BY <2>3, <2>4, <2>5, <2>6, <2>7, <2>8
<1> QED
  BY <1>1, <1>2, <1>3, <1>4, <1>5, <1>6 DEF Request

LEMMA Stutter == IInv /\ UNCHANGED vars => IInv'
<1> SUFFICES ASSUME IInv, UNCHANGED vars PROVE IInv'
  OBVIOUS
<1>1. UNCHANGED <<mpc, halt, stepping, newHalt, info, restart, open, stepOnly, kpc, back,
                  haltRead, pending, done, cmd, resp, hasCmd, doRestart, copy, spc, reqs,
                  kind, answer, held, entries>>
  BY DEF vars, mainVars, mailVars, pollVars, serverVars, histVars
<1>2. TypeOK'
  BY <1>1 DEF IInv, TypeOK
<1>3. Mailbox' /\ CopyOfLast' /\ RespOfLast' /\ Answered'
  BY <1>1, MailboxUntouched DEF IInv, Mailbox, Working, mailVars, pollVars
<1>4. HaltHolds' /\ EnteredOnce'
  BY <1>1 DEF IInv, HaltHolds, EnteredOnce
<1> QED BY <1>2, <1>3, <1>4 DEF IInv

LEMMA Invariance == Spec => []IInv
<1>1. IInv /\ [Next]_vars => IInv'
  BY MainStep, ServerStep, RequestStep, Stutter DEF Next
<1> QED
  BY InvInit, <1>1, PTL DEF Spec

-----------------------------------------------------------------------------
(* Every state is well typed; done and the response agree, and the main     *)
(* thread only ever executes a command that a client sent.                  *)
THEOREM ServerTypeCorrect == Spec => []TypeOK
<1>1. IInv => TypeOK
  BY DEF IInv
<1> QED BY Invariance, <1>1, PTL

(* Once the server has acknowledged a halt, the machine stays halted and the *)
(* engine is entered once more at most, until a client sets it going again. *)
THEOREM HaltAlwaysHolds == Spec => []HaltHolds
<1>1. IInv => HaltHolds
  BY DEF IInv
<1> QED BY Invariance, <1>1, PTL

(* A debugger_command is answered with its own output or that of the command *)
(* before it, never with anything older.                                    *)
THEOREM AnswersAtMostOneBehind == Spec => []AnswerAtMostOneBehind
<1>1. IInv => AnswerAtMostOneBehind
  BY DEF IInv, Answered, AnswerAtMostOneBehind
<1> QED BY Invariance, <1>1, PTL

-----------------------------------------------------------------------------
(* PART 2: the keyboard and its paste buffer *)

(* The inductive invariant. Two threads may both find room for the last      *)
(* character the bound allows (AtMostOneOver). What PasteOnce says of the   *)
(* buffer is only kept because a thread alone in the paste code still has   *)
(* the cursors it read there (Alone), and a cursor stays inside the array   *)
(* because a thread feeds only what it saw to be there (Feeding).           *)

AtMostOneOver ==
  \A t \in Threads : pc[t] = "store" =>
    /\ pos[t] < PasteBuf /\ pasted <= MaxPastes
    /\ \A u \in Threads \ {t} : pc[u] = "store" => pasted < MaxPastes

KeysNumbered ==
  /\ taken <= pressed
  /\ \A i \in 1..Len(buf) : buf[i].from = "key" => buf[i].id <= pressed

Alone == ~raced =>
  /\ rd <= wr
  /\ \A t \in Threads :
       /\ pc[t] # "idle" => \A u \in Threads \ {t} : pc[u] = "idle"
       /\ pc[t] = "store" => pos[t] = wr
       /\ pc[t] \in {"act", "feed"} => rdPos[t] = rd /\ wrPos[t] = wr

Feeding == \A t \in Threads : pc[t] = "feed" => rdPos[t] < wrPos[t]

KeysOK  == TypedInOrder /\ KeysNumbered /\ RepeatWhileDown
PasteOK == AtMostOneOver /\ Alone /\ Feeding /\ PasteOnce /\ PasteNotStuck

KeysInv == KeyTypeOK /\ KeysOK /\ PasteOK

-----------------------------------------------------------------------------
(* What waits in the paste buffer.                                          *)

KeyIds == 0..(MaxPastes + 1)
Cursors == 0..PasteBuf
Waiting(p, r, w) == [i \in 1..(w - r) |-> p[r + i]]

(* What lies between the cursors is a sequence.                             *)
LEMMA WaitingSeq ==
  ASSUME NEW p \in [1..PasteBuf -> KeyIds], NEW r \in Cursors, NEW w \in Cursors, r <= w
  PROVE  /\ Waiting(p, r, w) \in Seq(KeyIds) /\ Len(Waiting(p, r, w)) = w - r
         /\ \A i \in 1..(w - r) : Waiting(p, r, w)[i] = p[r + i]
<1>1. w - r \in Nat /\ \A i \in 1..(w - r) : r + i \in 1..PasteBuf
  BY KeyboardAssumption DEF Cursors
<1>2. \A i \in 1..(w - r) : p[r + i] \in KeyIds
  BY <1>1
<1> QED BY <1>1, <1>2 DEF Waiting

(* A character is added behind the others.                                  *)
LEMMA WaitingAdd ==
  ASSUME NEW p \in [1..PasteBuf -> KeyIds], NEW r \in Cursors, NEW w \in Cursors, r <= w,
         w < PasteBuf, NEW x \in KeyIds
  PROVE  Waiting([p EXCEPT ![w + 1] = x], r, w + 1) = Append(Waiting(p, r, w), x)
<1> DEFINE q == [p EXCEPT ![w + 1] = x]
           l == Waiting(q, r, w + 1)
           m == Append(Waiting(p, r, w), x)
<1>1. /\ q \in [1..PasteBuf -> KeyIds] /\ w + 1 \in Cursors /\ r <= w + 1
      /\ q[w + 1] = x /\ \A i \in 1..w : q[i] = p[i]
  BY KeyboardAssumption DEF Cursors
<1> HIDE DEF q
<1>2. /\ l \in Seq(KeyIds) /\ Len(l) = (w + 1) - r
      /\ \A i \in 1..((w + 1) - r) : l[i] = q[r + i]
  <2>1. ASSUME NEW v \in Cursors, r <= v
        PROVE  /\ Waiting(q, r, v) \in Seq(KeyIds) /\ Len(Waiting(q, r, v)) = v - r
               /\ \A i \in 1..(v - r) : Waiting(q, r, v)[i] = q[r + i]
    BY <1>1, <2>1, WaitingSeq
  <2>2. w + 1 \in Cursors /\ r <= w + 1
    BY <1>1
  <2> HIDE DEF m
  <2> QED BY <2>1, <2>2, Zenon
<1>3. /\ Waiting(p, r, w) \in Seq(KeyIds) /\ Len(Waiting(p, r, w)) = w - r
      /\ \A i \in 1..(w - r) : Waiting(p, r, w)[i] = p[r + i]
  BY WaitingSeq
<1>4. /\ m \in Seq(KeyIds) /\ Len(m) = w - r + 1
      /\ \A i \in 1..(w - r) : m[i] = Waiting(p, r, w)[i]
      /\ m[w - r + 1] = x
  BY <1>3, AppendProperties
<1> HIDE DEF l, m
<1>5. ASSUME NEW i \in 1..(w - r + 1) PROVE l[i] = m[i]
  <2>1. CASE i = w - r + 1
    BY <1>1, <1>2, <1>4, <2>1 DEF Cursors
  <2>2. CASE i # w - r + 1
    <3>1. i \in 1..(w - r) /\ r + i \in 1..w
      BY <2>2 DEF Cursors
    <3>2. l[i] = q[r + i] /\ m[i] = Waiting(p, r, w)[i]
      BY <1>2, <1>4, <3>1 DEF Cursors
    <3> QED BY <1>1, <1>3, <3>1, <3>2
  <2> QED BY <2>1, <2>2
<1>6. Len(l) = w - r + 1 /\ Len(m) = w - r + 1
  BY <1>2, <1>4 DEF Cursors
<1>7. l = m
  BY <1>2, <1>4, <1>5, <1>6, SeqEqual
<1> QED BY <1>7 DEF l, m, q

(* The first one moves from what waits to what has been fed.                *)
LEMMA WaitingFed ==
  ASSUME NEW p \in [1..PasteBuf -> KeyIds], NEW r \in Cursors, NEW w \in Cursors, r < w,
         NEW s \in Seq(KeyIds)
  PROVE  Append(s, p[r + 1]) \o Waiting(p, r + 1, w) = s \o Waiting(p, r, w)
<1> DEFINE h == Waiting(p, r, w)
           t == Waiting(p, r + 1, w)
           l == Append(s, p[r + 1]) \o t
           m == s \o h
<1>1. /\ h \in Seq(KeyIds) /\ Len(h) = w - r
      /\ \A i \in 1..(w - r) : h[i] = p[r + i]
  <2>1. r <= w
    BY DEF Cursors
  <2> QED BY <2>1, WaitingSeq
<1>2. /\ t \in Seq(KeyIds) /\ Len(t) = w - (r + 1)
      /\ \A i \in 1..(w - (r + 1)) : t[i] = p[r + 1 + i]
  <2>1. r + 1 \in Cursors /\ r + 1 <= w
    BY KeyboardAssumption DEF Cursors
  <2>2. ASSUME NEW v \in Cursors, v <= w
        PROVE  /\ Waiting(p, v, w) \in Seq(KeyIds) /\ Len(Waiting(p, v, w)) = w - v
               /\ \A i \in 1..(w - v) : Waiting(p, v, w)[i] = p[v + i]
    BY <2>2, WaitingSeq
  <2> HIDE DEF t
  <2> QED BY <2>1, <2>2, Zenon DEF t
<1>3. p[r + 1] \in KeyIds /\ Len(s) \in Nat
  BY KeyboardAssumption, LenProperties DEF Cursors
<1>4. /\ Append(s, p[r + 1]) \in Seq(KeyIds) /\ Len(Append(s, p[r + 1])) = Len(s) + 1
      /\ \A i \in 1..Len(s) : Append(s, p[r + 1])[i] = s[i]
      /\ Append(s, p[r + 1])[Len(s) + 1] = p[r + 1]
  BY <1>3, AppendProperties
<1> HIDE DEF h, t
<1>5. /\ l \in Seq(KeyIds) /\ Len(l) = Len(s) + 1 + Len(t)
      /\ \A i \in 1..(Len(s) + 1 + Len(t)) : l[i] =
           IF i <= Len(s) + 1 THEN Append(s, p[r + 1])[i] ELSE t[i - (Len(s) + 1)]
  <2> DEFINE a == Append(s, p[r + 1])
  <2>1. a \in Seq(KeyIds) /\ Len(a) = Len(s) + 1
    BY <1>4
  <2> HIDE DEF a
  <2>2. /\ a \o t \in Seq(KeyIds) /\ Len(a \o t) = Len(a) + Len(t)
        /\ \A i \in 1..(Len(a) + Len(t)) :
             (a \o t)[i] = IF i <= Len(a) THEN a[i] ELSE t[i - Len(a)]
    BY <1>2, <2>1, ConcatProperties
  <2> QED BY <2>1, <2>2 DEF a
<1>6. /\ m \in Seq(KeyIds) /\ Len(m) = Len(s) + Len(h)
      /\ \A i \in 1..(Len(s) + Len(h)) : m[i] = IF i <= Len(s) THEN s[i] ELSE h[i - Len(s)]
  BY <1>1, <1>3, ConcatProperties
<1> HIDE DEF l, m
<1>7. Len(l) = Len(m)
  BY <1>1, <1>2, <1>3, <1>5, <1>6 DEF Cursors
<1>8. ASSUME NEW i \in 1..Len(l) PROVE l[i] = m[i]
  <2>1. CASE i <= Len(s)
    BY <1>3, <1>4, <1>5, <1>6, <1>7, <2>1
  <2>2. CASE i = Len(s) + 1
    <3>1. l[i] = p[r + 1] /\ m[i] = h[1]
      BY <1>3, <1>4, <1>5, <1>6, <1>7, <2>2
    <3>2. h[1] = p[r + 1]
      BY <1>1 DEF Cursors
    <3> QED BY <3>1, <3>2
  <2>3. CASE i > Len(s) + 1
    <3>1. l[i] = t[i - (Len(s) + 1)] /\ m[i] = h[i - Len(s)]
      BY <1>3, <1>5, <1>6, <1>7, <2>3
    <3>2. i - (Len(s) + 1) \in 1..(w - (r + 1)) /\ i - Len(s) \in 1..(w - r)
      BY <1>2, <1>3, <1>5, <2>3 DEF Cursors
    <3>3. r + 1 + (i - (Len(s) + 1)) = r + (i - Len(s))
      BY <1>3 DEF Cursors
    <3> QED BY <1>1, <1>2, <3>1, <3>2, <3>3
  <2> QED BY <1>3, <2>1, <2>2, <2>3
<1>9. l = m
  BY <1>5, <1>6, <1>7, <1>8, SeqEqual
<1> QED BY <1>9 DEF l, m, h, t

LEMMA ConcatAppend ==
  ASSUME NEW s \in Seq(KeyIds), NEW q \in Seq(KeyIds), NEW x \in KeyIds
  PROVE  s \o Append(q, x) = Append(s \o q, x)
<1>1. s \o q \in Seq(KeyIds) /\ <<x>> \in Seq(KeyIds)
  BY ConcatProperties
<1>2. Append(q, x) = q \o <<x>> /\ Append(s \o q, x) = (s \o q) \o <<x>>
  BY <1>1, AppendIsConcat
<1> QED BY <1>1, <1>2, ConcatAssociative

-----------------------------------------------------------------------------
(* The buffer of keys.                                                      *)

(* A character more in g_kbd_buf, if there is room: it has the highest       *)
(* number.                                                                  *)
LEMMA WithKeySpec ==
  ASSUME KeyTypeOK, NEW e \in Entry
  PROVE  /\ WithKey(buf, e) \in Seq(Entry) /\ Len(WithKey(buf, e)) < KbdBuf
         /\ WithKey(buf, e) # <<>>
         /\ \A i \in 1..Len(WithKey(buf, e)) :
              \/ i \in 1..Len(buf) /\ WithKey(buf, e)[i] = buf[i]
              \/ i = Len(buf) + 1 /\ WithKey(buf, e)[i] = e
<1>1. buf \in Seq(Entry) /\ Len(buf) \in Nat /\ Len(buf) < KbdBuf /\ KbdBuf \in Nat /\ KbdBuf >= 2
  BY KeyboardAssumption, LenProperties DEF KeyTypeOK
<1>2. CASE Len(buf) + 1 >= KbdBuf
  BY <1>1, <1>2, EmptySeq DEF WithKey
<1>3. CASE ~(Len(buf) + 1 >= KbdBuf)
  <2>1. /\ Append(buf, e) \in Seq(Entry) /\ Append(buf, e) # <<>>
        /\ Len(Append(buf, e)) = Len(buf) + 1
        /\ \A i \in 1..Len(buf) : Append(buf, e)[i] = buf[i]
        /\ Append(buf, e)[Len(buf) + 1] = e
    BY <1>1, AppendProperties
  <2> QED BY <1>1, <1>3, <2>1 DEF WithKey
<1> QED BY <1>2, <1>3

LEMMA TypedEntry == \A i \in 0..MaxKeys : Typed(i) \in Entry /\ Typed(i).from = "key" /\ Typed(i).id = i
  BY DEF Typed, Entry

(* A key that goes down or repeats (k is then down).                        *)
LEMMA KeyDownKeeps ==
  ASSUME KeysInv, NEW k \in Keys, KeyEventDown(k), up' \subseteq up, k \notin up',
         UNCHANGED <<pasteVars, locals, pc, taken, pasted, raced>>, reads' = reads \/ reads' = 0
  PROVE  KeysInv'
<1>1. /\ pressed' = pressed + 1 /\ pressed' \in 0..MaxKeys /\ pressed \in 0..MaxKeys
      /\ taken \in 0..MaxKeys /\ buf' = WithKey(buf, Typed(pressed'))
      /\ strobe' = (strobe \/ buf = <<>>)
      /\ keyDown' = Repeat /\ hardDown' = TRUE /\ codeDown' = k
  BY KeyboardAssumption DEF KeyEventDown, KeysInv, KeyTypeOK
<1> DEFINE e == Typed(pressed')
<1>2. e \in Entry /\ e.from = "key" /\ e.id = pressed'
  BY <1>1, TypedEntry
<1> HIDE DEF e
<1>3. /\ buf' \in Seq(Entry) /\ Len(buf') < KbdBuf /\ buf' # <<>>
      /\ \A i \in 1..Len(buf') : \/ i \in 1..Len(buf) /\ buf'[i] = buf[i]
                                 \/ i = Len(buf) + 1 /\ buf'[i] = e
  BY <1>1, <1>2, WithKeySpec DEF KeysInv, e
<1>4. KeyTypeOK'
  BY <1>1, <1>3, KeyboardAssumption, SMTT(30) DEF KeysInv, KeyTypeOK, pasteVars, locals
<1>5. TypedInOrder' /\ KeysNumbered'
  <2>1. Len(buf) \in Nat /\ Len(buf') \in Nat
    BY <1>3, LenProperties DEF KeysInv, KeyTypeOK
  <2>2. taken' = taken /\ taken <= pressed
    BY DEF KeysInv, KeysOK, KeysNumbered
  <2>3. strobe'
    BY <1>1 DEF KeysInv, KeysOK, TypedInOrder
  <2>4. ASSUME NEW i \in 1..Len(buf'), buf'[i].from = "key"
        PROVE  buf'[i].id <= pressed' /\ buf'[i].id > taken'
    <3>1. CASE i \in 1..Len(buf) /\ buf'[i] = buf[i]
      <4>1. buf[i] \in Entry
        BY <3>1, ElementOfSeq DEF KeysInv, KeyTypeOK
      <4>2. buf[i].id \in 0..MaxKeys
        BY <2>4, <3>1, <4>1 DEF Entry, Typed, Pasted
      <4> QED BY <1>1, <2>2, <2>4, <3>1, <4>2 DEF KeysInv, KeysOK, KeysNumbered, TypedInOrder
    <3>2. CASE buf'[i] = e
      BY <1>1, <1>2, <2>2, <3>2
    <3> QED BY <1>3, <3>1, <3>2
  <2>5. ASSUME NEW i \in 1..Len(buf'), buf'[i].from = "key",
               NEW j \in 1..(i - 1), buf'[j].from = "key"
        PROVE  buf'[j].id < buf'[i].id
    <3>1. j \in 1..Len(buf) /\ buf'[j] = buf[j]
      BY <1>3, <2>1
    <3>2. CASE i \in 1..Len(buf) /\ buf'[i] = buf[i]
      BY <2>5, <3>1, <3>2 DEF KeysInv, KeysOK, TypedInOrder
    <3>3. CASE buf'[i] = e
      <4>1. buf[j] \in Entry
        BY <3>1, ElementOfSeq DEF KeysInv, KeyTypeOK
      <4>2. buf[j].id \in 0..MaxKeys /\ buf[j].id <= pressed
        BY <2>5, <3>1, <4>1 DEF Entry, Typed, Pasted, KeysInv, KeysOK, KeysNumbered
      <4> QED BY <1>1, <1>2, <3>1, <3>3, <4>2
    <3> QED BY <1>3, <3>2, <3>3
  <2> QED BY <1>1, <2>2, <2>3, <2>4, <2>5 DEF TypedInOrder, KeysNumbered
<1>6. RepeatWhileDown'
  BY <1>1 DEF RepeatWhileDown
<1>7. PasteOK'
  BY <1>3 DEF KeysInv, PasteOK, AtMostOneOver, Alone, Feeding, PasteOnce, PasteNotStuck,
              pasteVars, locals
<1> QED BY <1>4, <1>5, <1>6, <1>7 DEF KeysInv, KeysOK

(* A character is taken out of g_kbd_buf.                                   *)
LEMMA MovedUpSpec ==
  ASSUME KeyTypeOK, buf # <<>>
  PROVE  /\ MovedUp(buf) \in Seq(Entry) /\ Len(MovedUp(buf)) = Len(buf) - 1
         /\ Len(buf) \in Nat \ {0} /\ buf[1] \in Entry
         /\ \A i \in 1..Len(MovedUp(buf)) : MovedUp(buf)[i] = buf[i + 1]
<1>1. buf \in Seq(Entry) /\ Len(buf) \in Nat \ {0}
  BY EmptySeq DEF KeyTypeOK
<1>2. buf[1] \in Entry
  BY <1>1, ElementOfSeq
<1> QED BY <1>1, <1>2, HeadTailProperties DEF MovedUp

-----------------------------------------------------------------------------
(* Threads in the paste code.                                               *)

LEMMA EnterSpec ==
  ASSUME KeysInv, NEW t \in Threads, Enter(t)
  PROVE  /\ raced' \in BOOLEAN /\ accepted' \in Seq(1..(MaxPastes + 1)) /\ fed' \in Seq(KeyIds)
         /\ raced => raced'
         /\ ~raced' => /\ \A u \in Threads \ {t} : pc[u] = "idle"
                       /\ accepted' = accepted /\ fed' = fed
  BY EmptySeq DEF Enter, KeysInv, KeyTypeOK, KeyIds

-----------------------------------------------------------------------------
(* The steps.                                                               *)

(* The keys' part of the state and what is said of it.                      *)
LEMMA KeysStay ==
  ASSUME KeysInv, UNCHANGED <<keyVars, bufVars, taken>>
  PROVE  KeysOK'
BY DEF KeysInv, KeysOK, TypedInOrder, KeysNumbered, RepeatWhileDown, keyVars, bufVars

(* The threads' part and what is said of it.                                *)
LEMMA PasteStays ==
  ASSUME KeysInv, UNCHANGED <<buf, pasteVars, locals, pc, pasted, raced>>
  PROVE  PasteOK'
BY DEF KeysInv, PasteOK, AtMostOneOver, Alone, Feeding, PasteOnce, PasteNotStuck,
       pasteVars, locals

LEMMA KeyStep == ASSUME KeysInv, Key PROVE KeysInv'
<1> USE DEF Key
<1>1. PICK k \in Keys : KeyDown(k) \/ KeyUp(k)
  OBVIOUS
<1>2. CASE KeyDown(k)
  BY <1>2, KeyDownKeeps DEF KeyDown, KeysInv, KeyTypeOK
<1>3. CASE KeyUp(k)
  <2>1. KeyTypeOK'
    BY <1>3 DEF KeyUp, KeyEventUp, RepeatAfter, KeysInv, KeyTypeOK, bufVars, pasteVars, locals
  <2>2. TypedInOrder' /\ KeysNumbered'
    BY <1>3 DEF KeyUp, KeyEventUp, KeysInv, KeysOK, TypedInOrder, KeysNumbered, bufVars
  <2>3. RepeatWhileDown'
    BY <1>3 DEF KeyUp, KeyEventUp, RepeatAfter, KeysInv, KeysOK, RepeatWhileDown
  <2>4. PasteOK'
    BY <1>3, PasteStays DEF KeyUp, KeyEventUp, bufVars
  <2> QED BY <2>1, <2>2, <2>3, <2>4 DEF KeysInv, KeysOK
<1> QED BY <1>1, <1>2, <1>3

LEMMA RepeatOffStep == ASSUME KeysInv, RepeatOff PROVE KeysInv'
<1>1. KeyTypeOK'
  BY DEF RepeatOff, KeysInv, KeyTypeOK, bufVars, pasteVars, locals
<1>2. KeysOK'
  BY DEF RepeatOff, KeysInv, KeysOK, TypedInOrder, KeysNumbered, RepeatWhileDown, bufVars
<1>3. PasteOK'
  BY PasteStays DEF RepeatOff, bufVars
<1> QED BY <1>1, <1>2, <1>3 DEF KeysInv

LEMMA ReadAgainStep == ASSUME KeysInv, ReadAgain PROVE KeysInv'
<1>1. KeyTypeOK'
  BY KeyboardAssumption DEF ReadAgain, KeysInv, KeyTypeOK, keyVars, bufVars, pasteVars, locals
<1>2. KeysOK' /\ PasteOK'
  BY KeysStay, PasteStays DEF ReadAgain, bufVars
<1> QED BY <1>1, <1>2 DEF KeysInv

LEMMA ReadRepeatStep == ASSUME KeysInv, ReadRepeat PROVE KeysInv'
<1>1. codeDown \in Keys /\ codeDown \notin up
  BY DEF ReadRepeat, KeysInv, KeysOK, RepeatWhileDown, KeyTypeOK
<1> QED BY <1>1, KeyDownKeeps DEF ReadRepeat

LEMMA AccessC010Step == ASSUME KeysInv, AccessC010 PROVE KeysInv'
<1>1. CASE buf = <<>>
  <2>1. /\ UNCHANGED <<buf, pc, taken, raced, accepted, fed, keyVars, paste, rd, wr, locals, pasted>>
        /\ strobe' = FALSE /\ reads' = 0
    BY <1>1 DEF AccessC010
  <2>2. KeyTypeOK'
    <3>1. reads' \in 0..(TossAfter + 1)
      BY <2>1, KeyboardAssumption
    <3>4. strobe' \in BOOLEAN
      BY <2>1
    <3>2. Len(buf') < KbdBuf /\ buf' \in Seq(Entry)
      BY <2>1 DEF KeysInv, KeyTypeOK
    <3>3. UNCHANGED <<pc, taken, raced, accepted, fed, paste, rd, wr, pasted,
                      up, keyDown, hardDown, codeDown, pressed, pos, rdPos, wrPos>>
      BY <2>1 DEF keyVars, locals
    <3> QED BY <3>1, <3>2, <3>3, <3>4, Zenon DEF KeysInv, KeyTypeOK
  <2>3. KeysOK'
    BY <1>1, <2>1 DEF KeysInv, KeysOK, TypedInOrder, KeysNumbered, RepeatWhileDown, keyVars
  <2>4. PasteOK'
    BY <2>1, PasteStays DEF pasteVars
  <2> QED BY <2>2, <2>3, <2>4 DEF KeysInv
<1>2. CASE buf # <<>>
  <2>1. /\ reads' = 0 /\ buf' = MovedUp(buf) /\ strobe' = (buf' # <<>>)
        /\ taken' = IF buf[1].from = "key" THEN buf[1].id ELSE taken
        /\ UNCHANGED <<keyVars, paste, rd, wr, locals, pasted>>
        /\ IF buf' = <<>> THEN pc' = [pc EXCEPT !["main"] = "update"] /\ Enter("main")
                          ELSE UNCHANGED <<pc, raced, accepted, fed>>
    BY <1>2, Zenon DEF AccessC010, ThenUpdate
  <2>2. /\ buf' \in Seq(Entry) /\ Len(buf') = Len(buf) - 1 /\ Len(buf) \in Nat \ {0}
        /\ buf[1] \in Entry /\ \A i \in 1..Len(buf') : buf'[i] = buf[i + 1]
    BY <1>2, <2>1, MovedUpSpec DEF KeysInv
  <2>3. "main" \in Threads /\ pc["main"] = "idle" /\ DOMAIN pc = Threads
    BY DEF AccessC010, MainIdle, Threads, KeysInv, KeyTypeOK
  <2>4. /\ raced' \in BOOLEAN /\ accepted' \in Seq(1..(MaxPastes + 1)) /\ fed' \in Seq(KeyIds)
        /\ raced => raced'
        /\ ~raced' => /\ pc' # pc => \A u \in Threads \ {"main"} : pc[u] = "idle"
                      /\ accepted' = accepted /\ fed' = fed
    <3>1. CASE buf' = <<>>
      BY <2>1, <2>3, <3>1, EnterSpec
    <3>2. CASE buf' # <<>>
      BY <2>1, <3>2 DEF KeysInv, KeyTypeOK, KeyIds
    <3> QED BY <3>1, <3>2
  <2>5. /\ pc' \in [Threads -> {"idle", "store", "update", "act", "feed"}]
        /\ pc' = pc \/ pc'["main"] = "update"
        /\ \A u \in Threads \ {"main"} : pc'[u] = pc[u]
        /\ buf' = <<>> => pc'["main"] = "update"
    BY <2>1, <2>3 DEF KeysInv, KeyTypeOK
  <2>6. taken' \in 0..MaxKeys
    BY <2>1, <2>2 DEF Entry, Typed, Pasted, KeysInv, KeyTypeOK
  <2>7. KeyTypeOK'
    BY <2>1, <2>2, <2>4, <2>5, <2>6, KeyboardAssumption
       DEF KeysInv, KeyTypeOK, keyVars, locals, KeyIds
  <2>8. KeysOK'
    <3>1. ASSUME NEW i \in 1..Len(buf'), buf'[i].from = "key"
          PROVE  i + 1 \in 1..Len(buf) /\ buf'[i] = buf[i + 1] /\ 1 \in 1..((i + 1) - 1)
      BY <2>2
    <3>2. pressed' = pressed /\ pressed \in 0..MaxKeys /\ taken \in 0..MaxKeys
      BY <2>1 DEF keyVars, KeysInv, KeyTypeOK
    <3>3. KeysNumbered'
      BY <2>1, <2>2, <3>1, <3>2 DEF KeysInv, KeysOK, KeysNumbered
    <3>4. ASSUME NEW i \in 1..Len(buf'), buf'[i].from = "key" PROVE buf'[i].id > taken'
      BY <2>1, <3>1, <3>4 DEF KeysInv, KeysOK, TypedInOrder
    <3>5. ASSUME NEW i \in 1..Len(buf'), buf'[i].from = "key",
                 NEW j \in 1..(i - 1), buf'[j].from = "key"
          PROVE  buf'[j].id < buf'[i].id
      <4>1. j \in 1..Len(buf') /\ j + 1 \in 1..((i + 1) - 1)
        BY <2>2
      <4>2. buf'[j] = buf[j + 1]
        BY <2>2, <4>1
      <4> QED BY <3>1, <3>5, <4>1, <4>2 DEF KeysInv, KeysOK, TypedInOrder
    <3>6. TypedInOrder'
      BY <2>1, <3>4, <3>5 DEF TypedInOrder
    <3>7. RepeatWhileDown'
      BY <2>1 DEF KeysInv, KeysOK, RepeatWhileDown, keyVars
    <3> QED BY <3>3, <3>6, <3>7 DEF KeysOK
  <2>9. PasteOK'
    <3>1. AtMostOneOver'
      BY <2>1, <2>3, <2>5 DEF KeysInv, PasteOK, AtMostOneOver, locals
    <3>2. Alone'
      BY <2>1, <2>3, <2>4, <2>5 DEF KeysInv, PasteOK, Alone, locals
    <3>3. Feeding'
      BY <2>1, <2>3, <2>5 DEF KeysInv, PasteOK, Feeding, locals
    <3>4. PasteOnce'
      BY <2>1, <2>4 DEF KeysInv, PasteOK, PasteOnce
    <3>5. PasteNotStuck'
      BY <2>3, <2>5 DEF PasteNotStuck
    <3> QED BY <3>1, <3>2, <3>3, <3>4, <3>5 DEF PasteOK
  <2> QED BY <2>7, <2>8, <2>9 DEF KeysInv
<1> QED BY <1>1, <1>2

LEMMA ResetStep == ASSUME KeysInv, Reset PROVE KeysInv'
<1>1. KeyTypeOK'
  <2>1. buf' \in Seq(Entry) /\ Len(buf') < KbdBuf
    BY EmptySeq, KeyboardAssumption DEF Reset
  <2>2. accepted' \in Seq(1..(MaxPastes + 1)) /\ fed' \in Seq(0..(MaxPastes + 1))
    BY EmptySeq, Zenon DEF Reset
  <2>3. rd' \in 0..PasteBuf /\ wr' \in 0..PasteBuf
    BY KeyboardAssumption DEF Reset
  <2>5. keyDown' \in BOOLEAN /\ raced' \in BOOLEAN
    BY DEF Reset
  <2>4. UNCHANGED <<strobe, paste, up, hardDown, codeDown, pressed, pos, rdPos, wrPos, pc,
                    reads, taken, pasted>>
    BY DEF Reset, locals
  <2> QED BY <2>1, <2>2, <2>3, <2>4, <2>5, Zenon DEF KeysInv, KeyTypeOK
<1>2. KeysOK'
  BY EmptySeq DEF Reset, KeysInv, KeysOK, TypedInOrder, KeysNumbered, RepeatWhileDown
<1>3. AtMostOneOver' /\ Feeding'
  BY DEF Reset, KeysInv, PasteOK, AtMostOneOver, Feeding, locals
<1>4. Alone'
  <2>1. ~raced' => \A t \in Threads : pc'[t] = "idle"
    BY DEF Reset, MainIdle, Threads
  <2>2. rd' <= wr'
    BY DEF Reset
  <2> QED BY <2>1, <2>2 DEF Alone
<1>5. PasteOnce'
  <2>1. /\ wr' - rd' = 0 /\ fed' = <<>> /\ accepted' = <<>>
    BY DEF Reset
  <2>2. [i \in 1..(wr' - rd') |-> paste'[rd' + i]] = <<>>
    BY <2>1
  <2> QED BY <2>1, <2>2, EmptySeq, ConcatEmptySeq DEF PasteOnce
<1>6. PasteNotStuck'
  BY DEF Reset, PasteNotStuck
<1> QED BY <1>1, <1>2, <1>3, <1>4, <1>5, <1>6 DEF KeysInv, PasteOK

(* The paste buffer's indices and the threads' places in the code.          *)
LEMMA PasteFacts ==
  ASSUME KeysInv
  PROVE  /\ rd \in Cursors /\ wr \in Cursors /\ PasteBuf \in Nat \ {0} /\ MaxPastes \in Nat
         /\ \A t \in Threads : {pos[t], rdPos[t], wrPos[t]} \subseteq Cursors
         /\ paste \in [1..PasteBuf -> KeyIds] /\ pasted \in KeyIds
         /\ fed \in Seq(KeyIds) /\ accepted \in Seq(KeyIds) /\ raced \in BOOLEAN
         /\ DOMAIN pc = Threads /\ DOMAIN pos = Threads
         /\ DOMAIN rdPos = Threads /\ DOMAIN wrPos = Threads
<1>1. accepted \in Seq(KeyIds)
  BY SeqMonotonic, KeyboardAssumption DEF KeysInv, KeyTypeOK, KeyIds
<1> QED BY <1>1, KeyboardAssumption DEF KeysInv, KeyTypeOK, Cursors, KeyIds

(* How pc and the locals change when a thread moves on.                     *)
LEMMA AtSpec ==
  ASSUME KeysInv, NEW t \in Threads, NEW here, NEW next \in {"idle", "store", "update", "act", "feed"},
         At(t, here, next)
  PROVE  /\ pc[t] = here /\ pc'[t] = next /\ \A u \in Threads \ {t} : pc'[u] = pc[u]
         /\ pc' \in [Threads -> {"idle", "store", "update", "act", "feed"}]
BY DEF At, KeysInv, KeyTypeOK

LEMMA PasteAddStep == ASSUME KeysInv, NEW t \in Threads, PasteAdd(t) PROVE KeysInv'
<1>1. /\ pasted < MaxPastes /\ wr < PasteBuf /\ At(t, "idle", "store") /\ Enter(t)
      /\ pos' = [pos EXCEPT ![t] = wr]
      /\ UNCHANGED <<keyVars, bufVars, paste, rd, wr, rdPos, wrPos, reads, taken, pasted>>
  BY DEF PasteAdd
<1>2. /\ pc[t] = "idle" /\ pc'[t] = "store" /\ \A u \in Threads \ {t} : pc'[u] = pc[u]
      /\ pc' \in [Threads -> {"idle", "store", "update", "act", "feed"}]
  BY <1>1, AtSpec
<1>3. /\ raced' \in BOOLEAN /\ accepted' \in Seq(1..(MaxPastes + 1)) /\ fed' \in Seq(KeyIds)
      /\ raced => raced'
      /\ ~raced' => /\ \A u \in Threads \ {t} : pc[u] = "idle"
                    /\ accepted' = accepted /\ fed' = fed
  BY <1>1, EnterSpec
<1>4. /\ pos'[t] = wr /\ \A u \in Threads \ {t} : pos'[u] = pos[u]
      /\ pos' \in [Threads -> 0..PasteBuf]
  BY <1>1 DEF KeysInv, KeyTypeOK
<1>5. KeyTypeOK'
  BY <1>1, <1>2, <1>3, <1>4 DEF KeysInv, KeyTypeOK, keyVars, bufVars, KeyIds
<1>6. KeysOK'
  BY <1>1, KeysStay
<1>7. AtMostOneOver'
  BY <1>1, <1>2, <1>4, PasteFacts DEF KeysInv, PasteOK, AtMostOneOver, KeyIds
<1>8. Alone' /\ Feeding'
  BY <1>1, <1>2, <1>3, <1>4 DEF KeysInv, PasteOK, Alone, Feeding
<1>9. PasteOnce'
  BY <1>1, <1>3 DEF KeysInv, PasteOK, PasteOnce
<1>10. PasteNotStuck'
  BY <1>2 DEF PasteNotStuck
<1> QED BY <1>5, <1>6, <1>7, <1>8, <1>9, <1>10 DEF KeysInv, PasteOK

LEMMA PasteStoreStep == ASSUME KeysInv, NEW t \in Threads, PasteStore(t) PROVE KeysInv'
<1>1. /\ At(t, "store", "update") /\ pasted' = pasted + 1
      /\ paste' = [paste EXCEPT ![pos[t] + 1] = pasted'] /\ wr' = pos[t] + 1
      /\ accepted' = Log(accepted, pasted') /\ pos' = [pos EXCEPT ![t] = 0]
      /\ UNCHANGED <<keyVars, bufVars, rd, fed, rdPos, wrPos, reads, taken, raced>>
  BY DEF PasteStore
<1>2. /\ pc[t] = "store" /\ pc'[t] = "update" /\ \A u \in Threads \ {t} : pc'[u] = pc[u]
      /\ pc' \in [Threads -> {"idle", "store", "update", "act", "feed"}]
  BY <1>1, AtSpec
<1>3. /\ pos[t] \in 0..PasteBuf /\ pos[t] < PasteBuf /\ pasted \in 0..(MaxPastes + 1)
      /\ pasted <= MaxPastes /\ pasted' \in 1..(MaxPastes + 1) /\ wr' \in 0..PasteBuf
  BY <1>1, <1>2, KeyboardAssumption DEF KeysInv, PasteOK, AtMostOneOver, KeyTypeOK
<1>4. /\ pos' \in [Threads -> 0..PasteBuf] /\ \A u \in Threads \ {t} : pos'[u] = pos[u]
      /\ paste' \in [1..PasteBuf -> 0..(MaxPastes + 1)]
  BY <1>1, <1>3, KeyboardAssumption DEF KeysInv, KeyTypeOK
<1>5. accepted' \in Seq(1..(MaxPastes + 1))
  BY <1>1, <1>3, AppendProperties DEF Log, KeysInv, KeyTypeOK
<1>6. KeyTypeOK'
  <2>1. UNCHANGED <<buf, strobe, reads, up, keyDown, hardDown, codeDown, rd, rdPos, wrPos,
                    pressed, taken, fed, raced>>
    BY <1>1 DEF keyVars, bufVars
  <2>2. pasted' \in 0..(MaxPastes + 1)
    BY <1>3
  <2> QED BY <1>2, <1>3, <1>4, <1>5, <2>1, <2>2, Zenon DEF KeysInv, KeyTypeOK
<1>7. KeysOK'
  BY <1>1, KeysStay
<1>8. AtMostOneOver'
  <2>1. ASSUME NEW u \in Threads, pc'[u] = "store"
        PROVE  /\ pos'[u] < PasteBuf /\ pasted' <= MaxPastes
               /\ \A v \in Threads \ {u} : pc'[v] # "store"
    <3>1. u # t /\ pc[u] = "store" /\ pos'[u] = pos[u]
      BY <1>2, <1>4, <2>1
    <3>2. pos[u] < PasteBuf /\ pasted < MaxPastes
      BY <1>2, <3>1 DEF KeysInv, PasteOK, AtMostOneOver
    <3>3. Threads = {t, u}
      BY <3>1 DEF Threads
    <3> QED BY <1>1, <1>2, <1>3, <3>1, <3>2, <3>3, KeyboardAssumption
  <2> QED BY <2>1 DEF AtMostOneOver
<1>9. Alone'
  <2> SUFFICES ASSUME ~raced'
               PROVE  rd' <= wr' /\ \A u \in Threads \ {t} : pc'[u] = "idle"
    BY <1>2 DEF Alone
  <2>1. pos[t] = wr /\ rd <= wr /\ \A u \in Threads \ {t} : pc[u] = "idle"
    BY <1>1, <1>2 DEF KeysInv, PasteOK, Alone
  <2>2. rd' = rd /\ wr' = wr + 1 /\ rd \in Cursors /\ wr \in Cursors
    BY <1>1, <2>1, PasteFacts
  <2> QED BY <1>2, <2>1, <2>2 DEF Cursors
<1>10. Feeding'
  BY <1>1, <1>2 DEF KeysInv, PasteOK, Feeding
<1>11. PasteOnce'
  <2> SUFFICES ASSUME ~raced'
               PROVE  fed' \o [i \in 1..(wr' - rd') |-> paste'[rd' + i]] = accepted'
    BY DEF PasteOnce
  <2>1. /\ ~raced /\ pos[t] = wr /\ rd <= wr
        /\ fed \o Waiting(paste, rd, wr) = accepted
    BY <1>1, <1>2 DEF KeysInv, PasteOK, Alone, PasteOnce, Waiting
  <2>2. Waiting(paste', rd, wr') = Append(Waiting(paste, rd, wr), pasted')
    <3>1. /\ paste \in [1..PasteBuf -> KeyIds] /\ rd \in Cursors /\ wr \in Cursors
          /\ wr < PasteBuf /\ pasted' \in KeyIds
      BY <1>3, <2>1, PasteFacts DEF KeyIds
    <3>2. Waiting([paste EXCEPT ![wr + 1] = pasted'], rd, wr + 1)
            = Append(Waiting(paste, rd, wr), pasted')
      BY <2>1, <3>1, WaitingAdd
    <3> QED BY <1>1, <2>1, <3>2
  <2>3. Waiting(paste, rd, wr) \in Seq(KeyIds) /\ fed \in Seq(KeyIds) /\ pasted' \in KeyIds
    <3>1. /\ paste \in [1..PasteBuf -> KeyIds] /\ rd \in Cursors /\ wr \in Cursors
          /\ fed \in Seq(KeyIds)
      BY PasteFacts
    <3>2. Waiting(paste, rd, wr) \in Seq(KeyIds)
      BY <2>1, <3>1, WaitingSeq
    <3> QED BY <1>3, <3>1, <3>2 DEF KeyIds
  <2>4. fed \o Append(Waiting(paste, rd, wr), pasted') = Append(accepted, pasted')
    BY <2>1, <2>3, ConcatAppend
  <2>5. accepted' = Append(accepted, pasted') /\ fed' = fed /\ rd' = rd
    BY <1>1, <2>1 DEF Log
  <2> QED BY <2>2, <2>4, <2>5 DEF Waiting
<1>12. PasteNotStuck'
  BY <1>2 DEF PasteNotStuck
<1> QED BY <1>6, <1>7, <1>8, <1>9, <1>10, <1>11, <1>12 DEF KeysInv, PasteOK

LEMMA UpdateStep == ASSUME KeysInv, NEW t \in Threads, Update(t) PROVE KeysInv'
<1>1. /\ At(t, "update", "act")
      /\ rdPos' = [rdPos EXCEPT ![t] = rd] /\ wrPos' = [wrPos EXCEPT ![t] = wr]
      /\ UNCHANGED <<keyVars, bufVars, pasteVars, pos, reads, taken, pasted, raced>>
  BY DEF Update
<1>2. /\ pc[t] = "update" /\ pc'[t] = "act" /\ \A u \in Threads \ {t} : pc'[u] = pc[u]
      /\ pc' \in [Threads -> {"idle", "store", "update", "act", "feed"}]
  BY <1>1, AtSpec
<1>3. /\ rdPos' \in [Threads -> 0..PasteBuf] /\ wrPos' \in [Threads -> 0..PasteBuf]
      /\ rdPos'[t] = rd /\ wrPos'[t] = wr
      /\ \A u \in Threads \ {t} : rdPos'[u] = rdPos[u] /\ wrPos'[u] = wrPos[u]
  BY <1>1 DEF KeysInv, KeyTypeOK
<1>4. KeyTypeOK'
  BY <1>1, <1>2, <1>3 DEF KeysInv, KeyTypeOK, keyVars, bufVars, pasteVars
<1>5. KeysOK'
  BY <1>1, KeysStay
<1>6. AtMostOneOver'
  BY <1>1, <1>2 DEF KeysInv, PasteOK, AtMostOneOver
<1>7. Alone' /\ Feeding'
  BY <1>1, <1>2, <1>3 DEF KeysInv, PasteOK, Alone, Feeding, pasteVars
<1>8. PasteOnce'
  BY <1>1 DEF KeysInv, PasteOK, PasteOnce, pasteVars
<1>9. PasteNotStuck'
  BY <1>2 DEF PasteNotStuck
<1> QED BY <1>4, <1>5, <1>6, <1>7, <1>8, <1>9 DEF KeysInv, PasteOK

(* A thread leaves the paste code.                                          *)
LEMMA ReturnSpec ==
  ASSUME KeysInv, NEW t \in Threads, NEW here \in {"act", "feed"}, Return(t, here)
  PROVE  /\ pc[t] = here /\ pc'[t] = "idle" /\ \A u \in Threads \ {t} : pc'[u] = pc[u]
         /\ pc' \in [Threads -> {"idle", "store", "update", "act", "feed"}]
         /\ rdPos' \in [Threads -> 0..PasteBuf] /\ wrPos' \in [Threads -> 0..PasteBuf]
         /\ \A u \in Threads \ {t} : rdPos'[u] = rdPos[u] /\ wrPos'[u] = wrPos[u]
<1>1. At(t, here, "idle")
  BY DEF Return
<1>2. /\ pc[t] = here /\ pc'[t] = "idle" /\ \A u \in Threads \ {t} : pc'[u] = pc[u]
      /\ pc' \in [Threads -> {"idle", "store", "update", "act", "feed"}]
  BY <1>1, AtSpec
<1>3. rdPos' = [rdPos EXCEPT ![t] = 0] /\ wrPos' = [wrPos EXCEPT ![t] = 0]
  BY DEF Return
<1>4. 0 \in 0..PasteBuf
  BY KeyboardAssumption
<1> QED BY <1>2, <1>3, <1>4 DEF KeysInv, KeyTypeOK

LEMMA UpdateEmptyStep == ASSUME KeysInv, NEW t \in Threads, UpdateEmpty(t) PROVE KeysInv'
<1>1. /\ AllFed(t) /\ Return(t, "act") /\ rd' = 0 /\ wr' = 0
      /\ UNCHANGED <<keyVars, bufVars, paste, accepted, fed, pos, reads, taken, pasted, raced>>
  BY DEF UpdateEmpty
<1>2. /\ pc[t] = "act" /\ pc'[t] = "idle" /\ \A u \in Threads \ {t} : pc'[u] = pc[u]
      /\ pc' \in [Threads -> {"idle", "store", "update", "act", "feed"}]
      /\ rdPos' \in [Threads -> 0..PasteBuf] /\ wrPos' \in [Threads -> 0..PasteBuf]
      /\ \A u \in Threads \ {t} : rdPos'[u] = rdPos[u] /\ wrPos'[u] = wrPos[u]
  BY <1>1, ReturnSpec
<1>3. KeyTypeOK'
  BY <1>1, <1>2, KeyboardAssumption DEF KeysInv, KeyTypeOK, keyVars, bufVars
<1>4. KeysOK'
  BY <1>1, KeysStay
<1>5. AtMostOneOver' /\ Feeding'
  BY <1>1, <1>2 DEF KeysInv, PasteOK, AtMostOneOver, Feeding
<1>6. ~raced' => \A u \in Threads : pc'[u] = "idle"
  BY <1>1, <1>2 DEF KeysInv, PasteOK, Alone
<1>7. Alone'
  BY <1>1, <1>6 DEF Alone
<1>8. PasteOnce'
  <2> SUFFICES ASSUME ~raced'
               PROVE  fed' \o [i \in 1..(wr' - rd') |-> paste'[rd' + i]] = accepted'
    BY DEF PasteOnce
  <2>1. /\ rdPos[t] = rd /\ wrPos[t] = wr /\ rd <= wr
        /\ fed \o Waiting(paste, rd, wr) = accepted
    BY <1>1, <1>2 DEF KeysInv, PasteOK, Alone, PasteOnce, Waiting
  <2>2. wr - rd = 0 /\ wr' - rd' = 0
    BY <1>1, <2>1, PasteFacts DEF AllFed, Cursors
  <2>3. Waiting(paste, rd, wr) = <<>> /\ [i \in 1..(wr' - rd') |-> paste'[rd' + i]] = <<>>
    BY <2>2 DEF Waiting
  <2> QED BY <1>1, <2>1, <2>3
<1>9. PasteNotStuck'
  BY <1>1 DEF PasteNotStuck
<1> QED BY <1>3, <1>4, <1>5, <1>7, <1>8, <1>9 DEF KeysInv, PasteOK

LEMMA UpdateBusyStep == ASSUME KeysInv, NEW t \in Threads, UpdateBusy(t) PROVE KeysInv'
<1>1. /\ buf # <<>> /\ Return(t, "act")
      /\ UNCHANGED <<keyVars, bufVars, pasteVars, pos, reads, taken, pasted, raced>>
  BY DEF UpdateBusy
<1>2. /\ pc[t] = "act" /\ pc'[t] = "idle" /\ \A u \in Threads \ {t} : pc'[u] = pc[u]
      /\ pc' \in [Threads -> {"idle", "store", "update", "act", "feed"}]
      /\ rdPos' \in [Threads -> 0..PasteBuf] /\ wrPos' \in [Threads -> 0..PasteBuf]
      /\ \A u \in Threads \ {t} : rdPos'[u] = rdPos[u] /\ wrPos'[u] = wrPos[u]
  BY <1>1, ReturnSpec
<1>3. KeyTypeOK'
  BY <1>1, <1>2 DEF KeysInv, KeyTypeOK, keyVars, bufVars, pasteVars
<1>4. KeysOK'
  BY <1>1, KeysStay
<1>5. AtMostOneOver' /\ Feeding'
  BY <1>1, <1>2 DEF KeysInv, PasteOK, AtMostOneOver, Feeding
<1>6. Alone'
  BY <1>1, <1>2 DEF KeysInv, PasteOK, Alone, pasteVars
<1>7. PasteOnce'
  BY <1>1 DEF KeysInv, PasteOK, PasteOnce, pasteVars
<1>8. PasteNotStuck'
  BY <1>1 DEF PasteNotStuck, bufVars
<1> QED BY <1>3, <1>4, <1>5, <1>6, <1>7, <1>8 DEF KeysInv, PasteOK

LEMMA UpdateReadyStep == ASSUME KeysInv, NEW t \in Threads, UpdateReady(t) PROVE KeysInv'
<1>1. /\ ~AllFed(t) /\ buf = <<>> /\ At(t, "act", "feed")
      /\ UNCHANGED <<keyVars, bufVars, pasteVars, locals, reads, taken, pasted, raced>>
  BY DEF UpdateReady
<1>2. /\ pc[t] = "act" /\ pc'[t] = "feed" /\ \A u \in Threads \ {t} : pc'[u] = pc[u]
      /\ pc' \in [Threads -> {"idle", "store", "update", "act", "feed"}]
  BY <1>1, AtSpec
<1>3. KeyTypeOK'
  BY <1>1, <1>2 DEF KeysInv, KeyTypeOK, keyVars, bufVars, pasteVars, locals
<1>4. KeysOK'
  BY <1>1, KeysStay
<1>5. AtMostOneOver'
  BY <1>1, <1>2 DEF KeysInv, PasteOK, AtMostOneOver, locals
<1>6. Feeding'
  <2>1. rdPos[t] \in Cursors /\ wrPos[t] \in Cursors /\ rdPos' = rdPos /\ wrPos' = wrPos
    BY <1>1, PasteFacts DEF locals
  <2>2. rdPos'[t] < wrPos'[t]
    BY <1>1, <2>1 DEF AllFed, Cursors
  <2> QED BY <1>2, <2>1, <2>2 DEF KeysInv, PasteOK, Feeding
<1>7. Alone'
  BY <1>1, <1>2 DEF KeysInv, PasteOK, Alone, pasteVars, locals
<1>8. PasteOnce'
  BY <1>1 DEF KeysInv, PasteOK, PasteOnce, pasteVars
<1>9. PasteNotStuck'
  BY <1>2 DEF PasteNotStuck
<1> QED BY <1>3, <1>4, <1>5, <1>6, <1>7, <1>8, <1>9 DEF KeysInv, PasteOK

LEMMA FeedStep == ASSUME KeysInv, NEW t \in Threads, Feed(t) PROVE KeysInv'
<1>1. /\ Return(t, "feed")
      /\ buf' = <<Pasted(paste[rdPos[t] + 1])>> /\ strobe' = TRUE /\ rd' = rdPos[t] + 1
      /\ fed' = Log(fed, paste[rdPos[t] + 1])
      /\ UNCHANGED <<keyVars, paste, wr, accepted, pos, reads, taken, pasted, raced>>
  BY DEF Feed, FedTo
<1>2. /\ pc[t] = "feed" /\ pc'[t] = "idle" /\ \A u \in Threads \ {t} : pc'[u] = pc[u]
      /\ pc' \in [Threads -> {"idle", "store", "update", "act", "feed"}]
      /\ rdPos' \in [Threads -> 0..PasteBuf] /\ wrPos' \in [Threads -> 0..PasteBuf]
      /\ \A u \in Threads \ {t} : rdPos'[u] = rdPos[u] /\ wrPos'[u] = wrPos[u]
  BY <1>1, ReturnSpec
<1>3. /\ rdPos[t] \in Cursors /\ wrPos[t] \in Cursors /\ rdPos[t] < wrPos[t]
      /\ rdPos[t] + 1 \in 1..PasteBuf /\ rdPos[t] + 1 \in Cursors
  <2>1. rdPos[t] \in Cursors /\ wrPos[t] \in Cursors /\ PasteBuf \in Nat
    BY PasteFacts
  <2>2. rdPos[t] < wrPos[t]
    BY <1>2 DEF KeysInv, PasteOK, Feeding
  <2> QED BY <2>1, <2>2 DEF Cursors
<1> DEFINE id == paste[rdPos[t] + 1]
<1>4. id \in KeyIds
  BY <1>3, PasteFacts
<1> HIDE DEF id
<1>5. Pasted(id) \in Entry /\ Pasted(id).from # "key"
  BY <1>4 DEF KeyIds, Entry, Pasted
<1>6. /\ buf' \in Seq(Entry) /\ Len(buf') = 1 /\ buf'[1].from # "key" /\ buf' # <<>>
  BY <1>1, <1>5 DEF id
<1>7. fed' \in Seq(KeyIds)
  BY <1>1, <1>4, AppendProperties, PasteFacts DEF Log, id
<1>8. KeyTypeOK'
  <2>1. UNCHANGED <<reads, up, keyDown, hardDown, codeDown, paste, wr, pos, pressed, taken,
                    pasted, accepted, raced>>
    BY <1>1 DEF keyVars
  <2>2. strobe' \in BOOLEAN
    BY <1>1
  <2>3. Len(buf') < KbdBuf /\ rd' \in 0..PasteBuf /\ fed' \in Seq(0..(MaxPastes + 1))
    BY <1>1, <1>3, <1>6, <1>7, KeyboardAssumption DEF Cursors, KeyIds
  <2> QED BY <1>2, <1>6, <2>1, <2>2, <2>3, Zenon DEF KeysInv, KeyTypeOK
<1>9. KeysOK'
  <2>1. \A i \in 1..Len(buf') : buf'[i].from # "key"
    BY <1>6
  <2>2. TypedInOrder' /\ KeysNumbered'
    BY <1>1, <2>1 DEF TypedInOrder, KeysNumbered, keyVars, KeysInv, KeysOK
  <2>3. RepeatWhileDown'
    BY <1>1 DEF RepeatWhileDown, keyVars, KeysInv, KeysOK
  <2> QED BY <2>2, <2>3 DEF KeysOK
<1>10. AtMostOneOver' /\ Feeding'
  BY <1>1, <1>2 DEF KeysInv, PasteOK, AtMostOneOver, Feeding
<1>11. ~raced' => /\ ~raced /\ rdPos[t] = rd /\ wrPos[t] = wr
                  /\ \A u \in Threads : pc'[u] = "idle"
  BY <1>1, <1>2 DEF KeysInv, PasteOK, Alone
<1>12. Alone'
  BY <1>1, <1>3, <1>11, PasteFacts DEF Alone, Cursors
<1>13. PasteOnce'
  <2> SUFFICES ASSUME ~raced'
               PROVE  fed' \o [i \in 1..(wr' - rd') |-> paste'[rd' + i]] = accepted'
    BY DEF PasteOnce
  <2>1. rdPos[t] = rd /\ wrPos[t] = wr /\ ~raced
    BY <1>11
  <2>2. fed \o Waiting(paste, rd, wr) = accepted
    BY <2>1 DEF KeysInv, PasteOK, PasteOnce, Waiting
  <2>3. Append(fed, paste[rd + 1]) \o Waiting(paste, rd + 1, wr) = fed \o Waiting(paste, rd, wr)
    BY <1>3, <2>1, WaitingFed, PasteFacts, ZenonT(40)
  <2>4. fed' = Append(fed, paste[rd + 1]) /\ rd' = rd + 1
    BY <1>1, <2>1 DEF Log
  <2> QED BY <1>1, <2>2, <2>3, <2>4 DEF Waiting
<1>14. PasteNotStuck'
  BY <1>6 DEF PasteNotStuck
<1> QED BY <1>8, <1>9, <1>10, <1>12, <1>13, <1>14 DEF KeysInv, PasteOK

-----------------------------------------------------------------------------
(* The results.                                                             *)

LEMMA KeysInit == KeyInit => KeysInv
<1> SUFFICES ASSUME KeyInit PROVE KeysInv
  OBVIOUS
<1>1. KeyTypeOK
  <2>1. buf \in Seq(Entry) /\ Len(buf) < KbdBuf
    BY EmptySeq, KeyboardAssumption DEF KeyInit
  <2>2. accepted \in Seq(1..(MaxPastes + 1)) /\ fed \in Seq(0..(MaxPastes + 1))
    BY EmptySeq, Zenon DEF KeyInit
  <2>3. /\ reads \in 0..(TossAfter + 1) /\ rd \in 0..PasteBuf /\ wr \in 0..PasteBuf
        /\ paste \in [1..PasteBuf -> 0..(MaxPastes + 1)]
        /\ pressed \in 0..MaxKeys /\ taken \in 0..MaxKeys /\ pasted \in 0..(MaxPastes + 1)
        /\ pos \in [Threads -> 0..PasteBuf]
        /\ rdPos \in [Threads -> 0..PasteBuf] /\ wrPos \in [Threads -> 0..PasteBuf]
    BY KeyboardAssumption DEF KeyInit
  <2>4. /\ strobe \in BOOLEAN /\ keyDown \in BOOLEAN /\ hardDown \in BOOLEAN /\ raced \in BOOLEAN
        /\ up \subseteq Keys /\ codeDown \in Keys
        /\ pc \in [Threads -> {"idle", "store", "update", "act", "feed"}]
    BY DEF KeyInit
  <2> QED BY <2>1, <2>2, <2>3, <2>4 DEF KeyTypeOK
<1>2. KeysOK
  BY EmptySeq DEF KeyInit, KeysOK, TypedInOrder, KeysNumbered, RepeatWhileDown
<1>3. AtMostOneOver /\ Alone /\ Feeding /\ PasteNotStuck
  BY DEF KeyInit, AtMostOneOver, Alone, Feeding, PasteNotStuck
<1>4. PasteOnce
  <2>1. [i \in 1..(wr - rd) |-> paste[rd + i]] = <<>> /\ fed = <<>> /\ accepted = <<>>
    BY DEF KeyInit
  <2> QED BY <2>1, EmptySeq, ConcatEmptySeq DEF PasteOnce
<1> QED BY <1>1, <1>2, <1>3, <1>4 DEF KeysInv, PasteOK

LEMMA InvStep == KeysInv /\ [KeyNext]_keyboardVars => KeysInv'
<1> SUFFICES ASSUME KeysInv, [KeyNext]_keyboardVars PROVE KeysInv'
  OBVIOUS
<1>1. CASE Key \/ RepeatOff
  BY <1>1, KeyStep, RepeatOffStep
<1>2. CASE AccessC010 \/ ReadToss
  BY <1>2, AccessC010Step DEF ReadToss
<1>3. CASE ReadAgain \/ ReadRepeat
  BY <1>3, ReadAgainStep, ReadRepeatStep
<1>4. CASE Reset
  BY <1>4, ResetStep
<1>5. ASSUME NEW t \in Threads, PasteAdd(t) \/ PasteStep(t) PROVE KeysInv'
  BY <1>5, PasteAddStep, PasteStoreStep, UpdateStep, UpdateEmptyStep, UpdateBusyStep,
     UpdateReadyStep, FeedStep DEF PasteStep
<1>6. CASE UNCHANGED keyboardVars
  <2>1. KeyTypeOK'
    BY <1>6 DEF keyboardVars, KeysInv, KeyTypeOK, keyVars, bufVars, pasteVars, locals
  <2>2. KeysOK' /\ PasteOK'
    BY <1>6, KeysStay, PasteStays DEF keyboardVars, bufVars
  <2> QED BY <2>1, <2>2 DEF KeysInv
<1> QED BY <1>1, <1>2, <1>3, <1>4, <1>5, <1>6 DEF KeyNext

LEMMA KeysInvariance == KeySpec => []KeysInv
BY KeysInit, InvStep, PTL DEF KeySpec

(* Keys are taken in the order they were pressed and none twice, pasted      *)
(* characters each once and in order while the threads do not overlap, and  *)
(* none is left waiting when nobody is at work on it, overlap or not: for   *)
(* every size of g_kbd_buf and g_kbd_paste_buf.                             *)
THEOREM CharactersAlwaysInOrder == KeySpec => []CharactersInOrder
<1>1. KeysInv => CharactersInOrder
  BY DEF KeysInv, KeysOK, PasteOK, CharactersInOrder
<1> QED BY <1>1, KeysInvariance, PTL

(* No order of releases, focus losses, resets and repeats leaves a key       *)
(* repeating that is up.                                                    *)
THEOREM RepeatsOnlyWhileDown == KeySpec => []RepeatWhileDown
<1>1. KeysInv => RepeatWhileDown
  BY DEF KeysInv, KeysOK
<1> QED BY <1>1, KeysInvariance, PTL
=============================================================================
