----------------------------- MODULE DebugServer -----------------------------
(***************************************************************************)
(* The debug server (debugmcp/debug_server.c): a thread that serves one      *)
(* client at a time, next to the emulator's main thread, which runs the CPU *)
(* frame by frame in run_16ms and calls debug_server_poll in between.       *)
(* halt, continue and step are stores of the server's thread into globals   *)
(* that the main thread reads; restart and debugger_command go through the  *)
(* mailbox g_main_cmd, under g_main_mutex, to the main thread.              *)
(*                                                                          *)
(* A critical section is one step; plain stores are one step each.          *)
(***************************************************************************)
EXTENDS Naturals, FiniteSets

CONSTANTS
  Kinds,     \* the requests that clients make
  MaxReq,    \* bound: requests that are made
  MaxKpc     \* bound: instructions that the CPU executes

Controls == {"halt", "continue", "step"}
Commands == {"show", "g"}               \* texts of debugger_command requests

ASSUME ServerAssumption ==
  /\ Kinds \subseteq Controls \cup Commands \cup {"restart", "get_break_info"}
  /\ MaxReq \in Nat /\ MaxKpc \in Nat

VARIABLES
  mpc,          \* where the main thread is
  halt,         \* g_halt_sim, the set of its bits
  stepping,     \* g_stepping
  newHalt,      \* g_dbg_new_halt
  open,         \* g_dcycles_end lets the engine run on
  stepOnly,     \* ... for one instruction, as g_stepping said on entry
  kpc,          \* engine.kpc: instructions executed
  back,         \* where set_halt_act returns to
  haltRead,     \* the main thread's copy of g_halt_sim in set_halt_act
  info,         \* g_break_state
  pending,      \* g_main_cmd_pending
  done,         \* g_main_cmd.done
  cmd,          \* g_main_cmd.cmd, the request that it is of
  resp,         \* g_main_cmd.resp, the request whose output it is; 0 is NULL
  restart,      \* g_restart_pending
  hasCmd, doRestart, copy,   \* locals of debug_server_poll
  spc,          \* where the server's thread is
  reqs,         \* requests accepted so far
  kind,         \* what each asked for
  answer,       \* the request whose output answered each command
  held,         \* a halt has been acknowledged, and nothing undid it since
  entries       \* times the engine was entered since then

mainVars   == <<open, stepOnly, kpc, back, haltRead>>
mailVars   == <<pending, done, cmd, resp>>
pollVars   == <<hasCmd, doRestart, copy>>
serverVars == <<spc, reqs, kind, answer>>
histVars   == <<held, entries>>
vars == <<mpc, halt, stepping, newHalt, info, restart, mainVars, mailVars, pollVars,
          serverVars, histVars>>

Ids == 1..MaxReq

Init ==
  /\ mpc = "frame" /\ spc = "accept"
  /\ halt = {} /\ stepping = FALSE /\ newHalt = FALSE
  /\ open = FALSE /\ stepOnly = FALSE /\ kpc = 0 /\ back = "engine" /\ haltRead = {}
  /\ info = [valid |-> FALSE, pc |-> 0]
  /\ pending = FALSE /\ done = FALSE /\ cmd = 0 /\ resp = 0
  /\ restart = FALSE
  /\ hasCmd = FALSE /\ doRestart = FALSE /\ copy = 0
  /\ reqs = 0 /\ kind = [r \in Ids |-> "none"] /\ answer = [r \in Ids |-> 0]
  /\ held = FALSE /\ entries = 0

-----------------------------------------------------------------------------
(* The main thread: run_16ms *)

(* run_16ms chooses by g_halt_sim.                                          *)
RunFrame ==
  /\ mpc = "frame"
  /\ mpc' = IF halt # {} THEN "debugger" ELSE "enter"
  /\ UNCHANGED <<halt, stepping, newHalt, info, restart, mainVars, mailVars, pollVars,
                 serverVars, histVars>>

(* debugger_run_16ms records the first frame of a halt.                     *)
DebuggerRun16ms ==
  /\ mpc = "debugger"
  /\ info' = IF newHalt THEN [valid |-> TRUE, pc |-> kpc] ELSE info
  /\ newHalt' = FALSE
  /\ mpc' = "poll"
  /\ UNCHANGED <<halt, stepping, restart, mainVars, mailVars, pollVars, serverVars,
                 histVars>>

(* run_a2_one_vbl: set the deadline and enter the engine.                   *)
EnterEngine ==
  /\ mpc = "enter"
  /\ open' = TRUE /\ stepOnly' = stepping
  /\ entries' = IF held /\ entries < 2 THEN entries + 1 ELSE entries
  /\ mpc' = "engine"
  /\ UNCHANGED <<halt, stepping, newHalt, info, restart, kpc, back, haltRead, mailVars,
                 pollVars, serverVars, held>>

(* An instruction; it may hit a breakpoint or a bad access.                 *)
Instruction ==
  /\ mpc = "engine" /\ open /\ kpc < MaxKpc
  /\ kpc' = kpc + 1
  /\ open' = ~stepOnly
  /\ mpc' \in {"engine", "set_halt"} /\ back' = "engine"
  /\ UNCHANGED <<halt, stepping, newHalt, info, restart, stepOnly, haltRead, mailVars,
                 pollVars, serverVars, held, entries>>

(* set_halt_act: a test, then g_halt_sim |= val, which reads and writes.    *)
NewHalt == halt = {}

SetHaltRead ==
  /\ mpc = "set_halt"
  /\ newHalt' = (newHalt \/ NewHalt)
  /\ haltRead' = halt
  /\ mpc' = "set_halt_write"
  /\ UNCHANGED <<halt, stepping, info, restart, open, stepOnly, kpc, back, mailVars,
                 pollVars, serverVars, histVars>>

SetHaltWrite ==
  /\ mpc = "set_halt_write"
  /\ \E val \in {1, 2} : halt' = haltRead \cup {val}
  /\ open' = FALSE
  /\ mpc' = back
  /\ UNCHANGED <<stepping, newHalt, info, restart, stepOnly, kpc, back, haltRead, mailVars,
                 pollVars, serverVars, histVars>>

(* The engine is left, at the latest when it may not run on.  After the     *)
(* 60 Hz event run_a2_one_vbl returns; after others it looks at g_halt_sim  *)
(* and g_stepping.                                                          *)
StopsAtBreaks == newHalt \/ stepping     \* mutant: only a halt of the emulator's own

Stops == halt # {} \/ stepping

LeaveEngine ==
  /\ mpc = "engine"
  /\ mpc' = IF Stops THEN "poll" ELSE "enter"
  /\ UNCHANGED <<halt, stepping, newHalt, info, restart, mainVars, mailVars, pollVars,
                 serverVars, histVars>>

FrameOver ==
  /\ mpc = "engine"
  /\ mpc' = "poll"
  /\ UNCHANGED <<halt, stepping, newHalt, info, restart, mainVars, mailVars, pollVars,
                 serverVars, histVars>>

(* debug_server_poll: look at the mailbox, under the mutex.                 *)
NothingToDoUnlessBoth(command, reset) == ~command \/ ~reset        \* mutant

NothingToDo(command, reset) == ~command /\ ~reset

Poll ==
  /\ mpc = "poll"
  /\ hasCmd' = pending /\ doRestart' = restart
  /\ restart' = FALSE
  /\ copy' = IF pending THEN cmd ELSE 0
  /\ mpc' = CASE NothingToDo(pending, restart) -> "video"
              [] ~NothingToDo(pending, restart) /\ restart -> "reset"
              [] OTHER -> "exec"
  /\ UNCHANGED <<halt, stepping, newHalt, info, mainVars, mailVars, serverVars, histVars>>

(* do_reset leaves the halt alone and ends stepping.                        *)
DoReset ==
  /\ mpc = "reset"
  /\ stepping' = FALSE
  /\ mpc' = IF hasCmd THEN "exec" ELSE "video"
  /\ UNCHANGED <<halt, newHalt, info, restart, mainVars, mailVars, pollVars, serverVars,
                 histVars>>

(* do_debug_cmd, its output captured: "g" sets the machine going, others    *)
(* only print.                                                              *)
DoDebugCmd ==
  /\ mpc = "exec"
  /\ IF kind[copy] = "g"
     THEN stepping' = FALSE /\ halt' = {} /\ held' = FALSE
     ELSE UNCHANGED <<stepping, halt, held>>
  /\ mpc' = "post"
  /\ UNCHANGED <<newHalt, info, restart, mainVars, mailVars, pollVars, serverVars, entries>>

(* ... and the result is handed over, under the mutex.                      *)
Post ==
  /\ mpc = "post"
  /\ resp' = copy /\ done' = TRUE
  /\ mpc' = "video"
  /\ UNCHANGED <<halt, stepping, newHalt, info, restart, mainVars, pending, cmd, pollVars,
                 serverVars, histVars>>

(* video_update, of a machine that is not halted: its event may be one too  *)
(* many (Scheduler!VideoUpdate), which halts it.                            *)
VideoUpdate ==
  /\ mpc = "video"
  /\ mpc' \in {"frame"} \cup (IF halt = {} THEN {"set_halt"} ELSE {})
  /\ back' = "frame"
  /\ UNCHANGED <<halt, stepping, newHalt, info, restart, open, stepOnly, kpc, haltRead,
                 mailVars, pollVars, serverVars, histVars>>

-----------------------------------------------------------------------------
(* The server's thread *)

(* server_thread_fn and dispatch: the next request, and the first thing     *)
(* that is done for it.                                                     *)
Accept(k) ==
  /\ spc = "accept" /\ reqs < MaxReq
  /\ reqs' = reqs + 1
  /\ kind' = [kind EXCEPT ![reqs'] = k]
  /\ UNCHANGED <<mpc, newHalt, info, mainVars, pollVars, answer>>

(* cmd_halt: two stores.                                                    *)
CmdHalt ==
  /\ Accept("halt")
  /\ halt' = {1}
  /\ spc' = "halt"
  /\ UNCHANGED <<stepping, restart, mailVars, held, entries>>

CmdHaltDeadline ==
  /\ spc = "halt"
  /\ open' = FALSE
  /\ spc' = "accept"
  /\ held' = (halt # {}) /\ entries' = 0
  /\ UNCHANGED <<mpc, halt, stepping, newHalt, info, restart, stepOnly, kpc, back, haltRead,
                 mailVars, pollVars, reqs, kind, answer>>

(* cmd_continue: g_halt_sim, then g_stepping.                               *)
CmdContinue ==
  /\ Accept("continue")
  /\ halt' = {}
  /\ held' = FALSE
  /\ spc' = "continue"
  /\ UNCHANGED <<stepping, restart, mailVars, entries>>

CmdContinueStepping ==
  /\ spc = "continue"
  /\ stepping' = FALSE
  /\ spc' = "accept"
  /\ UNCHANGED <<mpc, halt, newHalt, info, restart, mainVars, mailVars, pollVars, reqs,
                 kind, answer, histVars>>

(* cmd_step: g_stepping, then g_halt_sim.                                   *)
CmdStep ==
  /\ Accept("step")
  /\ stepping' = TRUE
  /\ spc' = "step"
  /\ UNCHANGED <<halt, restart, mailVars, held, entries>>

CmdStepHalt ==
  /\ spc = "step"
  /\ halt' = {}
  /\ held' = FALSE
  /\ spc' = "accept"
  /\ UNCHANGED <<mpc, stepping, newHalt, info, restart, mainVars, mailVars, pollVars, reqs,
                 kind, answer, entries>>

(* cmd_restart: under the mutex.                                            *)
CmdRestart ==
  /\ Accept("restart")
  /\ restart' = TRUE
  /\ UNCHANGED <<spc, halt, stepping, mailVars, held, entries>>

(* cmd_get_break_info copies g_break_state.                                 *)
CmdGetBreakInfo ==
  /\ Accept("get_break_info")
  /\ UNCHANGED <<spc, halt, stepping, restart, mailVars, held, entries>>

(* cmd_debugger_command: queue the command and wait; on waking with done,   *)
(* take the response.  Between the two the mutex is released.               *)
QueueKeepsDone ==                        \* mutant: done is not cleared
  /\ pending' = TRUE /\ cmd' = reqs' /\ resp' = 0 /\ done' = done

Queue ==
  /\ pending' = TRUE /\ cmd' = reqs' /\ resp' = 0 /\ done' = FALSE

CmdDebuggerCommand(text) ==
  /\ Accept(text)
  /\ Queue
  /\ spc' = "wait"
  /\ UNCHANGED <<halt, stepping, restart, held, entries>>

TakeResponse ==
  /\ spc = "wait" /\ done
  /\ answer' = [answer EXCEPT ![reqs] = resp]
  /\ pending' = FALSE
  /\ spc' = "accept"
  /\ UNCHANGED <<mpc, halt, stepping, newHalt, info, restart, mainVars, done, cmd, resp,
                 pollVars, reqs, kind, histVars>>

-----------------------------------------------------------------------------
Main ==
  \/ RunFrame \/ DebuggerRun16ms \/ EnterEngine \/ Instruction
  \/ SetHaltRead \/ SetHaltWrite \/ LeaveEngine \/ FrameOver
  \/ Poll \/ DoReset \/ DoDebugCmd \/ Post \/ VideoUpdate

Request ==
  \/ "halt" \in Kinds /\ CmdHalt
  \/ "continue" \in Kinds /\ CmdContinue
  \/ "step" \in Kinds /\ CmdStep
  \/ "restart" \in Kinds /\ CmdRestart
  \/ "get_break_info" \in Kinds /\ CmdGetBreakInfo
  \/ \E text \in Kinds \cap Commands : CmdDebuggerCommand(text)

Server == CmdHaltDeadline \/ CmdContinueStepping \/ CmdStepHalt \/ TakeResponse

Next == Main \/ Request \/ Server

(* Both threads run; no client has to make a request.  A frame ends (that   *)
(* run_16ms returns is Scheduler!RunReturns).                               *)
Spec ==
  /\ Init /\ [][Next]_vars
  /\ WF_vars(Main) /\ SF_vars(FrameOver) /\ WF_vars(Server)

-----------------------------------------------------------------------------
(* Types; done says that the response is there, and what the main thread    *)
(* works on is a debugger_command of a client.                              *)
TypeOK ==
  /\ mpc \in {"frame", "debugger", "enter", "engine", "set_halt", "set_halt_write",
              "poll", "reset", "exec", "post", "video"}
  /\ back \in {"engine", "frame"}
  /\ spc \in {"accept", "halt", "continue", "step", "wait"}
  /\ halt \subseteq {1, 2} /\ haltRead \subseteq {1, 2}
  /\ stepping \in BOOLEAN /\ newHalt \in BOOLEAN /\ open \in BOOLEAN
  /\ stepOnly \in BOOLEAN /\ pending \in BOOLEAN /\ done \in BOOLEAN
  /\ restart \in BOOLEAN /\ hasCmd \in BOOLEAN /\ doRestart \in BOOLEAN
  /\ kpc \in 0..MaxKpc /\ info \in [valid : BOOLEAN, pc : 0..MaxKpc]
  /\ reqs \in 0..MaxReq /\ {cmd, resp, copy} \subseteq 0..MaxReq
  /\ kind \in [Ids -> Kinds \cup {"none"}] /\ answer \in [Ids -> 0..MaxReq]
  /\ held \in BOOLEAN /\ entries \in 0..2
  /\ done <=> resp # 0
  /\ mpc \in {"exec", "post"} => copy \in 1..reqs /\ kind[copy] \in Commands

(* The answer to a command is the output of it or of the command before.    *)
Previous(r) == {p \in 1..(r - 1) : kind[p] \in Commands
                   /\ \A q \in (p + 1)..(r - 1) : kind[q] \notin Commands}

AnswerAtMostOneBehind ==
  /\ TypeOK
  /\ \A r \in Ids : answer[r] # 0 => answer[r] \in {r} \cup Previous(r)

(* A halt that was acknowledged holds until a continue, a step or a "g":    *)
(* the engine, if it was about to be, is entered once more at most.         *)
HaltHolds == held => halt # {} /\ entries <= 1

(* Every command is answered: neither thread waits for ever, however the    *)
(* signals, the polls and the frames interleave.                            *)
CommandAnswered == spc = "wait" ~> spc = "accept"

(* A restart that was acknowledged is carried out.                          *)
RestartDone == restart ~> mpc = "reset"

(* A breakpoint that stops a running machine is recorded for                *)
(* get_break_info, unless the machine is set going again before.            *)
HitRecorded ==
  mpc = "set_halt_write" /\ haltRead = {}
    ~> \/ info.valid /\ info.pc = kpc
       \/ mpc = "frame" /\ halt = {}

(* What was promised is done, commands, restarts and the record of a hit,   *)
(* also when several wait for the same poll.                                *)
RequestsDone == CommandAnswered /\ RestartDone /\ HitRecorded
=============================================================================
