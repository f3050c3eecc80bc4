------------------------------ MODULE Keyboard ------------------------------
(***************************************************************************)
(* The keyboard's registers $C000 and $C010 and the paste buffer (adb.c):    *)
(* keys that the controller fetches itself, autorepeat, and characters that *)
(* the host or a client of the debug server (cmd_send_keys) pastes. The     *)
(* server adds them on its own thread, without a lock, so that paste code   *)
(* is split where the other thread's steps make a difference. Modifiers     *)
(* ($C025), the translation of codes and the line-end rules are left out.   *)
(***************************************************************************)
EXTENDS Integers, SequencesExt

CONSTANTS
  Keys,       \* codes of keys that make characters
  KbdBuf,     \* MAX_KBD_BUF
  PasteBuf,   \* MAX_KBD_PASTE_BUF
  TossAfter,  \* reads of one character after which the next one is due, 5
  Repeat,     \* is g_adb_repeat_delay not 0?
  MaxKeys,    \* bound: key events that make a character
  MaxPastes   \* bound: once so many characters have been pasted no more follow

ASSUME KeyboardAssumption ==
  /\ KbdBuf \in Nat /\ KbdBuf >= 2 /\ PasteBuf \in Nat \ {0} /\ TossAfter \in Nat
  /\ Repeat \in BOOLEAN /\ MaxKeys \in Nat /\ MaxPastes \in Nat /\ Keys # {}

Threads == {"main", "server"}

VARIABLES
  buf,       \* the first g_kbd_chars_buffered entries of g_kbd_buf
  strobe,    \* bit 7 of g_kbd_buf[0], which stays there when none is buffered
  reads,     \* g_kbd_read_no_update, up to the bound that is looked at
  up,        \* g_virtual_key_up
  keyDown,   \* g_key_down: a key is to repeat
  hardDown,  \* g_hard_key_down
  codeDown,  \* g_a2code_down
  paste,     \* g_kbd_paste_buf, shifted by one
  rd, wr,    \* g_kbd_paste_rd_pos, g_kbd_paste_wr_pos
  pc,        \* where each thread is in the paste code
  pos,       \* and, while they are of use, its locals: pos of adb_paste_add_buf,
  rdPos, wrPos, \* rd_pos and wr_pos of adb_paste_update_state
  pressed,   \* history: key events that made a character, which number them
  taken,     \* history: the last of them taken out of the buffer
  pasted,    \* history: characters pasted, which number them
  accepted, fed, \* history: those accepted and those fed to g_kbd_buf since a reset
  raced      \* history: have both threads been in the paste code at once?

keyVars   == <<up, keyDown, hardDown, codeDown, pressed>>
bufVars   == <<buf, strobe>>
pasteVars == <<paste, rd, wr, accepted, fed>>
locals    == <<pos, rdPos, wrPos>>
keyboardVars == <<keyVars, bufVars, pasteVars, locals, pc, reads, taken, pasted, raced>>

Typed(i)  == [from |-> "key", id |-> i]
Pasted(i) == [from |-> "paste", id |-> i]
Entry == {Typed(i) : i \in 0..MaxKeys} \cup {Pasted(i) : i \in 0..(MaxPastes + 1)}

KeyTypeOK ==
  /\ buf \in Seq(Entry) /\ Len(buf) < KbdBuf /\ strobe \in BOOLEAN
  /\ reads \in 0..(TossAfter + 1)
  /\ up \subseteq Keys /\ keyDown \in BOOLEAN /\ hardDown \in BOOLEAN
  /\ codeDown \in Keys
  /\ paste \in [1..PasteBuf -> 0..(MaxPastes + 1)] /\ rd \in 0..PasteBuf /\ wr \in 0..PasteBuf
  /\ pc \in [Threads -> {"idle", "store", "update", "act", "feed"}]
  /\ pos \in [Threads -> 0..PasteBuf]
  /\ rdPos \in [Threads -> 0..PasteBuf] /\ wrPos \in [Threads -> 0..PasteBuf]
  /\ pressed \in 0..MaxKeys /\ taken \in 0..MaxKeys /\ pasted \in 0..(MaxPastes + 1)
  /\ accepted \in Seq(1..(MaxPastes + 1)) /\ fed \in Seq(0..(MaxPastes + 1)) /\ raced \in BOOLEAN

KeyInit ==
  /\ buf = <<>> /\ strobe = FALSE /\ reads = 0
  /\ up = Keys /\ keyDown = FALSE /\ hardDown = FALSE /\ codeDown \in Keys
  /\ paste = [i \in 1..PasteBuf |-> 0] /\ rd = 0 /\ wr = 0
  /\ pc = [t \in Threads |-> "idle"] /\ pos = [t \in Threads |-> 0]
  /\ rdPos = pos /\ wrPos = pos
  /\ pressed = 0 /\ taken = 0 /\ pasted = 0 /\ accepted = <<>> /\ fed = <<>> /\ raced = FALSE

MainIdle == pc["main"] = "idle"

(* A thread enters the paste code; the history of a race is of no use.       *)
Enter(t) ==
  LET race == raced \/ \E u \in Threads \ {t} : pc[u] # "idle"
  IN /\ raced' = race
     /\ accepted' = IF race THEN <<>> ELSE accepted
     /\ fed' = IF race THEN <<>> ELSE fed

Log(q, id) == IF raced THEN q ELSE Append(q, id)

-----------------------------------------------------------------------------
(* Keys.                                                                    *)

(* One more character; g_kbd_chars_buffered stays below MAX_KBD_BUF, so that *)
(* one put into the last entry is not counted.                              *)
WithKey(q, e) == IF Len(q) + 1 >= KbdBuf THEN q ELSE Append(q, e)

(* adb_key_event: a key goes down, or repeats.                              *)
KeyEventDown(k) ==
  /\ pressed < MaxKeys /\ pressed' = pressed + 1
  /\ buf' = WithKey(buf, Typed(pressed')) /\ strobe' = (strobe \/ buf = <<>>)
  /\ keyDown' = Repeat /\ hardDown' = TRUE /\ codeDown' = k

(* mutant: the release does not stop the repeat *)
RepeatAfterAny(k) == keyDown
(* Does the key repeat after another has been released?                     *)
RepeatAfter(k) == keyDown /\ k # codeDown

KeyEventUp(k) ==
  /\ hardDown' = (hardDown /\ k # codeDown) /\ keyDown' = RepeatAfter(k)
  /\ UNCHANGED <<bufVars, pressed, codeDown>>

(* adb_virtual_key_update: only what changes the state of the key counts.   *)
KeyDown(k) == k \in up /\ up' = up \ {k} /\ KeyEventDown(k)
KeyUp(k)   == k \notin up /\ up' = up \cup {k} /\ KeyEventUp(k)

(* The host's keys while the controller fetches them, and the controller's  *)
(* command to send a key, at any time.                                      *)
Key ==
  /\ MainIdle
  /\ \E k \in Keys : KeyDown(k) \/ KeyUp(k)
  /\ UNCHANGED <<pasteVars, locals, pc, reads, taken, pasted, raced>>

(* The window loses the focus (adb_kbd_repeat_off).                         *)
RepeatOff ==
  /\ MainIdle /\ keyDown /\ keyDown' = FALSE
  /\ UNCHANGED <<bufVars, pasteVars, locals, pc, reads, up, hardDown, codeDown,
                 pressed, taken, pasted, raced>>

-----------------------------------------------------------------------------
(* The registers.                                                           *)

(* mutant: the entries do not move up *)
MovedUpNot(q) == Front(q)
MovedUp(q) == Tail(q)

(* Is the paste buffer looked at?                                           *)
ThenUpdate(left) == left = <<>>

AccessC010 ==
  /\ MainIdle /\ reads' = 0
  /\ IF buf = <<>>
     THEN strobe' = FALSE /\ UNCHANGED <<buf, pc, taken, raced, accepted, fed>>
     ELSE /\ buf' = MovedUp(buf) /\ strobe' = (buf' # <<>>)
          /\ taken' = IF buf[1].from = "key" THEN buf[1].id ELSE taken
          /\ IF ThenUpdate(buf')
             THEN pc' = [pc EXCEPT !["main"] = "update"] /\ Enter("main")
             ELSE UNCHANGED <<pc, raced, accepted, fed>>
  /\ UNCHANGED <<keyVars, paste, rd, wr, locals, pasted>>

(* adb_read_c000 of a character that is still there: counted, and when it    *)
(* has been read often with others behind it, taken away.                   *)
ReadAgain ==
  /\ MainIdle /\ strobe /\ ~(reads > TossAfter /\ Len(buf) > 1)
  /\ reads <= TossAfter /\ reads' = reads + 1
  /\ UNCHANGED <<keyVars, bufVars, pasteVars, locals, pc, taken, pasted, raced>>

ReadToss == strobe /\ reads > TossAfter /\ Len(buf) > 1 /\ AccessC010

(* adb_read_c000 when the character is gone: time for the key to repeat.    *)
ReadRepeat ==
  /\ MainIdle /\ ~strobe /\ keyDown
  /\ KeyEventDown(codeDown)
  /\ UNCHANGED <<pasteVars, locals, pc, reads, up, taken, pasted, raced>>

-----------------------------------------------------------------------------
(* Pasting: adb_paste_add_buf and adb_paste_update_state, on either thread.  *)

At(t, here, next) == pc[t] = here /\ pc' = [pc EXCEPT ![t] = next]

(* A full buffer refuses the character.                                     *)
PasteAdd(t) ==
  /\ pasted < MaxPastes /\ wr < PasteBuf
  /\ At(t, "idle", "store")
  /\ pos' = [pos EXCEPT ![t] = wr] /\ Enter(t)
  /\ UNCHANGED <<keyVars, bufVars, paste, rd, wr, rdPos, wrPos, reads, taken, pasted>>

PasteStore(t) ==
  /\ At(t, "store", "update")
  /\ pasted' = pasted + 1
  /\ paste' = [paste EXCEPT ![pos[t] + 1] = pasted'] /\ wr' = pos[t] + 1
  /\ accepted' = Log(accepted, pasted') /\ pos' = [pos EXCEPT ![t] = 0]
  /\ UNCHANGED <<keyVars, bufVars, rd, fed, rdPos, wrPos, reads, taken, raced>>

Update(t) ==
  /\ At(t, "update", "act")
  /\ rdPos' = [rdPos EXCEPT ![t] = rd] /\ wrPos' = [wrPos EXCEPT ![t] = wr]
  /\ UNCHANGED <<keyVars, bufVars, pasteVars, pos, reads, taken, pasted, raced>>

Return(t, here) ==
  /\ At(t, here, "idle")
  /\ rdPos' = [rdPos EXCEPT ![t] = 0] /\ wrPos' = [wrPos EXCEPT ![t] = 0]

AllFed(t) == rdPos[t] >= wrPos[t]

UpdateEmpty(t) ==
  /\ AllFed(t) /\ Return(t, "act")
  /\ rd' = 0 /\ wr' = 0
  /\ UNCHANGED <<keyVars, bufVars, paste, accepted, fed, pos, reads, taken, pasted, raced>>

UpdateBusy(t) ==
  /\ ~AllFed(t) /\ buf # <<>> /\ Return(t, "act")
  /\ UNCHANGED <<keyVars, bufVars, pasteVars, pos, reads, taken, pasted, raced>>

UpdateReady(t) ==
  /\ ~AllFed(t) /\ buf = <<>> /\ At(t, "act", "feed")
  /\ UNCHANGED <<keyVars, bufVars, pasteVars, locals, reads, taken, pasted, raced>>

(* mutant: the character stays *)
FedToSame(t) == rdPos[t]
FedTo(t) == rdPos[t] + 1

Feed(t) ==
  /\ Return(t, "feed")
  /\ buf' = <<Pasted(paste[rdPos[t] + 1])>> /\ strobe' = TRUE
  /\ rd' = FedTo(t)
  /\ fed' = Log(fed, paste[rdPos[t] + 1])
  /\ UNCHANGED <<keyVars, paste, wr, accepted, pos, reads, taken, pasted, raced>>

PasteStep(t) ==
  PasteStore(t) \/ Update(t) \/ UpdateEmpty(t) \/ UpdateBusy(t) \/ UpdateReady(t) \/ Feed(t)

-----------------------------------------------------------------------------
(* adb_reset: the buffers are emptied, but the character in $C000 stays, and *)
(* so does what is known of the keys that are down.                         *)
Reset ==
  /\ MainIdle
  /\ keyDown' = FALSE /\ rd' = 0 /\ wr' = 0 /\ buf' = <<>>
  /\ accepted' = <<>> /\ fed' = <<>>
  /\ raced' = (raced \/ pc["server"] # "idle")
  /\ UNCHANGED <<strobe, paste, up, hardDown, codeDown, pressed, locals, pc,
                 reads, taken, pasted>>

-----------------------------------------------------------------------------
KeyNext ==
  \/ Key \/ RepeatOff \/ AccessC010 \/ ReadAgain \/ ReadToss \/ ReadRepeat \/ Reset
  \/ \E t \in Threads : PasteAdd(t) \/ PasteStep(t)

(* Both threads run, and the program goes on taking characters.             *)
KeyFairness == WF_keyboardVars(AccessC010) /\ \A t \in Threads : WF_keyboardVars(PasteStep(t))

KeySpec == KeyInit /\ [][KeyNext]_keyboardVars /\ KeyFairness

-----------------------------------------------------------------------------
(* Keys are taken in the order they were pressed and none twice, whatever is *)
(* pasted, repeated, overwritten in a full buffer or reset in between, on   *)
(* both threads (adb_key_event, adb_access_c010).                           *)
TypedInOrder ==
  /\ buf # <<>> => strobe
  /\ \A i \in 1..Len(buf) : buf[i].from = "key" =>
       /\ buf[i].id > taken
       /\ \A j \in 1..(i - 1) : buf[j].from = "key" => buf[j].id < buf[i].id

(* "Characters are fed one at a time" (debugmcp/README.md): each one once    *)
(* and in order, as long as the two threads are never both in the paste     *)
(* code. Nothing but luck keeps them apart.                                 *)
PasteOnce ==
  raced \/ fed \o [i \in 1..(wr - rd) |-> paste[rd + i]] = accepted

(* No character is stuck in the paste buffer: when nobody is at work on it   *)
(* and g_kbd_buf is empty, nothing waits, whichever thread came first.      *)
PasteNotStuck == buf = <<>> /\ (\A t \in Threads : pc[t] = "idle") => rd >= wr

(* Both kinds of character reach $C000 in order and none twice, pasted ones  *)
(* without a gap as long as the threads do not overlap, and none is left     *)
(* behind (adb_key_event, adb_access_c010, adb_paste_update_state); and the  *)
(* buffers keep to their arrays.                                             *)
CharactersInOrder == KeyTypeOK /\ TypedInOrder /\ PasteOnce /\ PasteNotStuck

(* A key repeats only while the controller knows it to be down.             *)
RepeatWhileDown == keyDown => codeDown \notin up /\ hardDown

(* A program that goes on taking characters gets to the end of a paste.     *)
PasteDrains == rd < wr ~> rd >= wr
=============================================================================
