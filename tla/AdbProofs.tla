------------------------------ MODULE AdbProofs ------------------------------
(***************************************************************************)
(* Proofs about Adb for any sets of commands, keys and positions and any    *)
(* number of events: the types, that interrupts agree with what there is to *)
(* read, that a polite program meets no alarm, and that no motion is lost.  *)
(***************************************************************************)
EXTENDS Adb, SequenceTheorems, TLAPS

(* A part of a sequence.                                                    *)
LEMMA PartType ==
  ASSUME NEW S, NEW q \in Seq(S), NEW m \in 1..(Len(q) + 1), NEW n \in 0..Len(q)
  PROVE  /\ SubSeq(q, m, n) \in Seq(S)
         /\ Len(SubSeq(q, m, n)) = IF m <= n THEN n - m + 1 ELSE 0
         /\ \A i \in 1..(n - m + 1) : SubSeq(q, m, n)[i] = q[m + i - 1]
<1>1. \A i \in m..n : q[i] \in S
  BY LenProperties
<1> QED BY <1>1, SubSeqProperties, LenProperties

(* What adb_kbd_talk_reg0 leaves is a shorter sequence of the same keys.    *)
LEMMA ShiftedType ==
  ASSUME NEW S, NEW q \in Seq(S), NEW n \in 0..2, n <= Len(q)
  PROVE  /\ Shifted(q, n) \in Seq(S)
         /\ Len(Shifted(q, n)) = Len(q) - n
<1>1. CASE n = 0
  BY <1>1 DEF Shifted
<1>2. CASE n # 0
  <2> DEFINE a == SubSeq(q, 1, n - 1)
             b == SubSeq(q, n + 1, Len(q))
             r == a \o b
  <2>1. a \in Seq(S) /\ Len(a) = n - 1
    BY <1>2, PartType
  <2>2. b \in Seq(S) /\ Len(b) = Len(q) - n
    BY <1>2, PartType
  <2> HIDE DEF a, b
  <2>3. r \in Seq(S) /\ Len(r) = Len(q) - 1
    BY <2>1, <2>2, ConcatProperties
  <2> HIDE DEF r
  <2>4. SubSeq(r, 1, Len(q) - n) \in Seq(S) /\ Len(SubSeq(r, 1, Len(q) - n)) = Len(q) - n
    BY <2>3, <1>2, PartType
  <2>5. Shifted(q, n) = SubSeq(r, 1, Len(q) - n)
    BY <1>2 DEF Shifted, RemoveAt, r, a, b
  <2> QED BY <2>4, <2>5
<1> QED BY <1>1, <1>2

(* How many keys a Talk answers.                                            *)
LEMMA TalkCountType ==
  ASSUME reg0 \in Seq(Codes)
  PROVE  /\ TalkCount \in 0..2 /\ TalkCount <= Len(reg0)
         /\ TalkCount = 0 <=> reg0 = <<>>
<1>1. CASE reg0 = <<>>
  BY <1>1, LenProperties DEF TalkCount
<1>2. CASE reg0 # <<>>
  <2>1. Len(reg0) \in Nat /\ Len(reg0) >= 1
    BY <1>2, EmptySeq, LenProperties
  <2> QED BY <1>2, <2>1 DEF TalkCount
<1> QED BY <1>1, <1>2

LEMMA RepliesType ==
  ASSUME NEW n \in 1..4
  PROVE  /\ [i \in 1..n |-> "reply"] \in Seq(Codes \cup {"reply"})
         /\ Len([i \in 1..n |-> "reply"]) = n
         /\ [i \in 1..n |-> "reply"] # <<>>
<1> DEFINE r == [i \in 1..n |-> "reply"]
<1>1. r \in Seq(Codes \cup {"reply"})
  OBVIOUS
<1>2. DOMAIN r = 1..n
  OBVIOUS
<1>3. Len(r) = n
  BY <1>1, <1>2, LenProperties
<1> QED BY <1>1, <1>3

(* The answer to a Talk.                                                    *)
LEMMA TalkType ==
  ASSUME TypeOK, TalkReg0
  PROVE  /\ data' \in Seq(Codes \cup {"reply"}) /\ Len(data') <= 4
         /\ intByte' \subseteq {"response", "desk", "srq", "len"}
         /\ irqs' \subseteq {"data", "mouse", "srq"}
         /\ reg0' \in Seq(Codes) /\ Len(reg0') <= KbdReg0Size
         /\ owed' \in Seq(Codes)
<1> USE DEF TypeOK, KeyTypeOK
<1>1. reg0' \in Seq(Codes) /\ Len(reg0') <= KbdReg0Size
  <2>1. TalkCount \in 0..2 /\ TalkCount <= Len(reg0)
    BY TalkCountType
  <2>2. Shifted(reg0, TalkCount) \in Seq(Codes)
        /\ Len(Shifted(reg0, TalkCount)) = Len(reg0) - TalkCount
    BY <2>1, ShiftedType
  <2>3. Len(reg0) \in Nat /\ reg0' = Shifted(reg0, TalkCount)
    BY LenProperties DEF TalkReg0
  <2> QED BY <2>1, <2>2, <2>3, AdbAssumption
<1>2. data' \in Seq(Codes \cup {"reply"}) /\ Len(data') <= 4
  <2>1. CASE reg0 = <<>>
    BY <2>1 DEF TalkReg0
  <2>2. CASE reg0 # <<>>
    <3>0. Len(reg0) >= 1 /\ (TalkCount = 2 => Len(reg0) >= 2)
      BY <2>2, TalkCountType
    <3>1. reg0[1] \in Codes /\ TalkSecond \in Codes
      BY <3>0, AdbAssumption DEF TalkSecond
    <3>2. data' = <<TalkSecond, reg0[1]>>
      BY <2>2 DEF TalkReg0
    <3> QED BY <3>1, <3>2
  <2> QED BY <2>1, <2>2
<1>3. intByte' \subseteq {"response", "desk", "srq", "len"}
  BY DEF TalkReg0, Announced, IntTypeOK
<1>4. irqs' \subseteq {"data", "mouse", "srq"}
  BY DEF TalkReg0, DataInt, IntTypeOK
<1>5. owed' \in Seq(Codes)
  <2>1. \A i \in (TalkCount + 1)..Len(owed) : owed[i] \in Codes
    BY TalkCountType, LenProperties
  <2> QED BY <2>1, TalkCountType, SubSeqProperties, LenProperties DEF TalkReg0
<1> QED BY <1>1, <1>2, <1>3, <1>4, <1>5

(* A reset leaves everything of its type.                                   *)
LEMMA ResetType ==
  ASSUME TypeOK, AdbReset
  PROVE  /\ data' = <<>> /\ IntTypeOK' /\ ConfTypeOK' /\ KeyTypeOK' /\ MouseTypeOK'
<1> USE DEF TypeOK, AdbReset
<1>1. data' = <<>> /\ IntTypeOK' /\ ConfTypeOK'
  BY AdbAssumption DEF IntTypeOK, ConfTypeOK
<1>2. KeyTypeOK'
  BY AdbAssumption, EmptySeq DEF KeyTypeOK
<1>3. MouseTypeOK'
  <2>1. hushed' \in BOOLEAN
    BY DEF MouseTypeOK
  <2> QED BY <2>1, EmptySeq DEF MouseTypeOK
<1> QED BY <1>1, <1>2, <1>3

(* The commands written to $C026.                                           *)
LEMMA CommandType ==
  ASSUME TypeOK, NEW o \in Ops, NEW d \in Addrs, WriteCommand(o, d)
  PROVE  TypeOK'
<1> USE DEF TypeOK, Command, cmdVars, confVars, keyVars, mouseVars
<1>0. KbdAddr \in Addrs /\ AllRead \in BOOLEAN
  BY AdbAssumption DEF Addrs, AllRead
<1>1. CASE WriteNoReply(o, d)
  BY <1>0, <1>1 DEF WriteNoReply, CmdTypeOK, IntTypeOK, ConfTypeOK, KeyTypeOK, MouseTypeOK
<1>2. CASE WriteArgOp(o, d)
  <2>1. CmdTypeOK'
    BY <1>0, <1>2 DEF WriteArgOp, CmdTypeOK
  <2>2. IntTypeOK' /\ ConfTypeOK' /\ KeyTypeOK' /\ MouseTypeOK'
    BY <1>2 DEF WriteArgOp, IntTypeOK, ConfTypeOK, KeyTypeOK, MouseTypeOK
  <2>3. complaint' \in {"none", "error"} /\ polite' \in BOOLEAN
    BY <1>0, <1>2 DEF WriteArgOp
  <2> QED BY <2>1, <2>2, <2>3
<1>3. CASE WriteReplyOp(o, d)
  <2>1. ReplyLen(o) \in 1..4
    BY DEF ReplyLen
  <2>2. data' \in Seq(Codes \cup {"reply"}) /\ Len(data') <= 4 /\ data' # <<>>
    BY <1>3, <2>1, RepliesType DEF WriteReplyOp, SendBytes
  <2>3. IntTypeOK'
    BY <1>3 DEF WriteReplyOp, SendBytes, DataInt, IntTypeOK
  <2> QED BY <1>0, <1>3, <2>2, <2>3
          DEF WriteReplyOp, CmdTypeOK, ConfTypeOK, KeyTypeOK, MouseTypeOK
<1>4. CASE WriteReset(o, d)
  <2>0. data' \in Seq(Codes \cup {"reply"}) /\ Len(data') = 0
    BY <1>4, ResetType, EmptySeq DEF WriteReset
  <2>1. CmdTypeOK'
    BY <1>0, <1>4, <2>0 DEF WriteReset, CmdTypeOK
  <2> QED BY <1>4, <2>1, ResetType DEF WriteReset
<1>5. CASE WriteTalk0(o, d)
  <2>1. CASE d = kbdDev
    <3>1. TalkReg0
      BY <1>5, <2>1 DEF WriteTalk0
    <3>2. CmdTypeOK'
      BY <1>0, <1>5, <3>1, TalkType DEF WriteTalk0, CmdTypeOK
    <3>3. IntTypeOK' /\ KeyTypeOK'
      BY <1>5, <3>1, TalkType DEF WriteTalk0, IntTypeOK, KeyTypeOK
    <3> QED BY <1>0, <1>5, <2>1, <3>2, <3>3 DEF WriteTalk0, ConfTypeOK, MouseTypeOK
  <2>2. CASE d # kbdDev
    <3>1. CmdTypeOK'
      BY <1>0, <1>5, <2>2 DEF WriteTalk0, CmdTypeOK
    <3>2. IntTypeOK' /\ ConfTypeOK' /\ KeyTypeOK' /\ MouseTypeOK'
      BY <1>5, <2>2 DEF WriteTalk0, IntTypeOK, ConfTypeOK, KeyTypeOK, MouseTypeOK
    <3>3. complaint' = "error" /\ polite' \in BOOLEAN
      BY <1>0, <1>5, <2>2 DEF WriteTalk0
    <3> QED BY <3>1, <3>2, <3>3
  <2> QED BY <2>1, <2>2
<1>6. CASE WriteTalk3(o, d)
  <2>1. IntTypeOK'
    BY <1>6 DEF WriteTalk3, DataInt, Announced, IntTypeOK
  <2>2. CmdTypeOK'
    <3>1. CASE d = kbdDev
      <4>1. <<"reply", "reply">> \in Seq(Codes \cup {"reply"})
        OBVIOUS
      <4>2. data' = <<"reply", "reply">>
        BY <1>6, <3>1 DEF WriteTalk3
      <4> QED BY <1>0, <1>6, <4>1, <4>2 DEF WriteTalk3, CmdTypeOK
    <3>2. CASE d # kbdDev
      BY <1>0, <1>6, <3>2 DEF WriteTalk3, CmdTypeOK
    <3> QED BY <3>1, <3>2
  <2> QED BY <1>0, <1>6, <2>1, <2>2 DEF WriteTalk3, ConfTypeOK, KeyTypeOK, MouseTypeOK
<1>7. CASE WriteUnknown(o, d)
  <2>1. CmdTypeOK'
    BY <1>0, <1>7 DEF WriteUnknown, CmdTypeOK
  <2>2. IntTypeOK' /\ ConfTypeOK' /\ KeyTypeOK' /\ MouseTypeOK'
    BY <1>7 DEF WriteUnknown, IntTypeOK, ConfTypeOK, KeyTypeOK, MouseTypeOK
  <2>3. complaint' = "error" /\ polite' = FALSE
    BY <1>7 DEF WriteUnknown
  <2> QED BY <2>1, <2>2, <2>3
<1> QED BY <1>1, <1>2, <1>3, <1>4, <1>5, <1>6, <1>7 DEF WriteCommand

(* The arguments written to $C026 and the answers read there.               *)
LEMMA ArgumentType ==
  ASSUME TypeOK, WriteWhileSending \/ WriteArg \/ LastArg \/ ReadStatus \/ ReadData
  PROVE  TypeOK'
<1> USE DEF TypeOK, cmdVars, confVars, keyVars, mouseVars
<1>0. KbdAddr \in Addrs
  BY AdbAssumption DEF Addrs
<1>1. CASE WriteWhileSending
  BY <1>1 DEF WriteWhileSending, CmdTypeOK, IntTypeOK, ConfTypeOK, KeyTypeOK, MouseTypeOK
<1>2. CASE WriteArg
  <2>1. soFar' \in 0..7
    BY <1>2 DEF WriteArg, CmdLen, CmdTypeOK
  <2> QED BY <1>2, <2>1 DEF WriteArg, CmdTypeOK, IntTypeOK, ConfTypeOK, KeyTypeOK, MouseTypeOK
<1>3. ASSUME NEW m \in SUBSET Modes, DoSetModes(m) PROVE TypeOK'
  <2>1. ProperMode(mode') \in BOOLEAN
    BY DEF ProperMode
  <2> QED BY <1>0, <1>3, <2>1
          DEF DoSetModes, Done, Judge, CmdTypeOK, IntTypeOK, ConfTypeOK, KeyTypeOK, MouseTypeOK
<1>4. ASSUME NEW m \in MouseAddrs, NEW k \in KbdAddrs, DoSetConfig(m, k) PROVE TypeOK'
  BY <1>0, <1>4 DEF DoSetConfig, Done, Judge, ProperConfig,
                    CmdTypeOK, IntTypeOK, ConfTypeOK, KeyTypeOK, MouseTypeOK
<1>5. ASSUME NEW s \in SUBSET Modes, NEW m \in MouseAddrs, NEW k \in KbdAddrs, DoSync(s, m, k)
      PROVE  TypeOK'
  BY <1>0, <1>5 DEF DoSync, Done, Judge, ProperMode, ProperConfig,
                    CmdTypeOK, IntTypeOK, ConfTypeOK, KeyTypeOK, MouseTypeOK
<1>6. CASE DoNothing
  BY <1>0, <1>6 DEF DoNothing, Done, CmdTypeOK, IntTypeOK, ConfTypeOK, KeyTypeOK, MouseTypeOK
<1>7. CASE DoReadMem
  <2>1. data' \in Seq(Codes \cup {"reply"}) /\ Len(data') <= 4 /\ data' # <<>>
    BY <1>7, RepliesType DEF DoReadMem, SendBytes
  <2>2. IntTypeOK'
    BY <1>7 DEF DoReadMem, SendBytes, DataInt, IntTypeOK
  <2> QED BY <1>0, <1>7, <2>1, <2>2
          DEF DoReadMem, Done, CmdTypeOK, ConfTypeOK, KeyTypeOK, MouseTypeOK
<1>8. CASE DoSendKey
  <2>1. IntTypeOK'
    BY <1>8 DEF DoSendKey, DeskManager, DataInt, IntTypeOK
  <2> QED BY <1>0, <1>8, <2>1
          DEF DoSendKey, Done, CmdTypeOK, ConfTypeOK, KeyTypeOK, MouseTypeOK
<1>9. ASSUME NEW addr \in KbdAddrs, NEW h \in {"move", "known", "other"}, DoListen3(addr, h)
      PROVE  TypeOK'
  BY <1>0, <1>9 DEF DoListen3, Done, Judge,
                    CmdTypeOK, IntTypeOK, ConfTypeOK, KeyTypeOK, MouseTypeOK
<1>10. CASE ReadStatus
  BY <1>10 DEF ReadStatus, StatusAfter,
               CmdTypeOK, IntTypeOK, ConfTypeOK, KeyTypeOK, MouseTypeOK
<1>11. CASE ReadData
  <2>1. data # <<>> /\ data \in Seq(Codes \cup {"reply"})
    BY <1>11 DEF ReadData, CmdTypeOK
  <2>2. Tail(data) \in Seq(Codes \cup {"reply"}) /\ Len(Tail(data)) = Len(data) - 1
        /\ Len(data) \in Nat
    BY <2>1, HeadTailProperties, LenProperties
  <2>3. state' = "sending" => Len(Tail(data)) > 0
    BY <1>11, <2>1, <2>2, EmptySeq DEF ReadData
  <2>4. state' = "sending" => data' # <<>>
    <3>1. Len(<<>>) = 0 /\ data' = Tail(data)
      BY <1>11 DEF ReadData
    <3> QED BY <2>3, <3>1
  <2>5. data' \in Seq(Codes \cup {"reply"}) /\ Len(data') <= 4
    BY <1>11, <2>2 DEF ReadData, CmdTypeOK
  <2>6. state' \in {"idle", "sending"} /\ UNCHANGED <<op, dev, soFar>>
    BY <1>11 DEF ReadData
  <2>7. IntTypeOK' /\ complaint' = "none" /\ UNCHANGED polite
    BY <1>11 DEF ReadData, IntTypeOK
  <2>8. CmdTypeOK'
    BY <2>4, <2>5, <2>6 DEF CmdTypeOK
  <2> QED BY <1>11, <2>7, <2>8 DEF ReadData, ConfTypeOK, KeyTypeOK, MouseTypeOK
<1> QED BY <1>1, <1>2, <1>3, <1>4, <1>5, <1>6, <1>7, <1>8, <1>9, <1>10, <1>11 DEF LastArg

(* The fifo without its last entry, and without what got too old.           *)
LEMMA FrontType ==
  ASSUME NEW S, NEW f \in Seq(S), Len(f) > 1
  PROVE  Front(f) \in Seq(S) /\ Len(Front(f)) = Len(f) - 1
<1>1. Front(f) = SubSeq(f, 1, Len(f) - 1) /\ Len(f) \in Nat
  BY LenProperties DEF Front
<1> QED BY <1>1, PartType

LEMMA CompressedType ==
  ASSUME MouseTypeOK, NEW f \in Compressed
  PROVE  /\ f \in Seq(Entry) /\ Len(f) \in 1..Len(fifo) /\ f[1] = fifo[1]
         /\ Len(f) = Len(fifo) => f = fifo
<1> USE DEF MouseTypeOK
<1>0. fifo \in Seq(Entry) /\ Len(fifo) \in Nat /\ Len(fifo) >= 1
  BY LenProperties, AdbAssumption
<1>1. CASE f = fifo
  BY <1>0, <1>1
<1>2. CASE f # fifo
  <2>1. PICK n \in 1..Len(fifo) : f = SubSeq(fifo, 1, n)
    BY <1>2 DEF Compressed
  <2>2. f \in Seq(Entry) /\ Len(f) = n /\ \A i \in 1..n : f[i] = fifo[i]
    BY <1>0, <2>1, PartType
  <2>3. n = Len(fifo) => f = fifo
    BY <1>0, <2>2, SeqEqual
  <2> QED BY <1>0, <2>2, <2>3
<1> QED BY <1>1, <1>2

(* An entry at a position.                                                  *)
LEMMA EntryType ==
  ASSUME NEW e \in Entry
  PROVE  e.at \in Position /\ e.at[1] \in Int /\ e.at[2] \in Int /\ e.btn \in BOOLEAN
BY AdbAssumption DEF Entry, Position

(* The fifo keeps to its size (adb_update_mouse).                           *)
LEMMA MovedType ==
  ASSUME MouseTypeOK, NEW f \in Compressed, NEW at \in Position, NEW btn \in BOOLEAN
  PROVE  /\ Moved(f, at, btn) \in Seq(Entry)
         /\ Len(Moved(f, at, btn)) \in 1..(FifoSize - 1)
         /\ at = f[1].at /\ btn = f[1].btn => Moved(f, at, btn) = f
<1> DEFINE e == [at |-> at, btn |-> btn]
           here == [at |-> at, btn |-> f[1].btn]
           mid == IF btn # f[1].btn /\ Len(f) - 1 < FifoSize - 2 THEN <<here>> ELSE <<>>
<1>1. f \in Seq(Entry) /\ Len(f) \in 1..(FifoSize - 1) /\ f # <<>> /\ FifoSize \in Nat
  BY CompressedType, EmptySeq, AdbAssumption DEF MouseTypeOK
<1>2. f[1] \in Entry
  BY <1>1, LenProperties
<1>3. e \in Entry /\ here \in Entry
  BY <1>2, EntryType DEF Entry
<1>4. Tail(f) \in Seq(Entry) /\ Len(Tail(f)) = Len(f) - 1
  BY <1>1, HeadTailProperties
<1>5. mid \in Seq(Entry) /\ Len(mid) \in 0..1 /\ (Len(mid) = 1 => Len(f) - 1 < FifoSize - 2)
  BY <1>3
<1>6. <<e>> \in Seq(Entry) /\ Len(<<e>>) = 1
  BY <1>3
<1> HIDE DEF e, mid
<1>7. <<e>> \o mid \in Seq(Entry) /\ Len(<<e>> \o mid) = 1 + Len(mid)
  BY <1>5, <1>6, ConcatProperties
<1>8. (<<e>> \o mid) \o Tail(f) \in Seq(Entry)
      /\ Len((<<e>> \o mid) \o Tail(f)) = 1 + Len(mid) + Len(f) - 1
  BY <1>4, <1>7, ConcatProperties
<1>9. Moved(f, at, btn) = (<<e>> \o mid) \o Tail(f)
  BY DEF Moved, e, mid
<1>10. ASSUME at = f[1].at, btn = f[1].btn PROVE Moved(f, at, btn) = f
  <2>1. mid = <<>> /\ e = f[1]
    BY <1>2, <1>10 DEF e, mid, Entry
  <2>2. <<e>> \o mid = <<e>>
    BY <1>6, <2>1, ConcatEmptySeq
  <2>3. <<f[1]>> \o Tail(f) = f
    BY <1>1, <1>2, <1>4, SMTT(30)
  <2> QED BY <1>9, <2>1, <2>2, <2>3
<1> QED BY <1>1, <1>5, <1>8, <1>9, <1>10

(* Coordinates stay numbers.                                                *)
LEMMA ClampType ==
  ASSUME NEW d \in Int
  PROVE  Clamp(d) \in Int
BY AdbAssumption DEF Clamp

(* A read of the mouse leaves everything of its type.                       *)
LEMMA ReadMouseType ==
  ASSUME MouseTypeOK, ReadMouse
  PROVE  /\ MouseTypeOK'
<1> USE DEF MouseTypeOK
<1>1. PICK f \in Compressed :
        LET target == f[Len(f)].at
            d      == <<target[1] - a2[1], target[2] - a2[2]>>
            btn    == Button(f, d)
        IN /\ a2' = IF coordY THEN <<a2[1], a2[2] + Clamp(d[2])>>
                              ELSE <<a2[1] + Clamp(d[1]), a2[2]>>
           /\ a2btn' = IF coordY THEN btn ELSE a2btn
           /\ fifo' = Popped(f, a2', btn, a2btn')
           /\ valid' = (valid /\ ~CaughtUp(fifo', a2', a2btn'))
  BY DEF ReadMouse
<1> DEFINE target == f[Len(f)].at
           d == <<target[1] - a2[1], target[2] - a2[2]>>
           btn == Button(f, d)
<1>2. f \in Seq(Entry) /\ Len(f) \in 1..(FifoSize - 1) /\ FifoSize \in Nat
  BY CompressedType, AdbAssumption
<1>3. \A i \in 1..Len(f) : f[i] \in Entry
  BY <1>2, LenProperties
<1>4. target[1] \in Int /\ target[2] \in Int
  BY <1>2, <1>3, EntryType
<1>5. btn \in BOOLEAN
  <2>1. f[Len(f)].btn \in BOOLEAN /\ (Len(f) > 1 => f[Len(f) - 1].btn \in BOOLEAN)
    BY <1>2, <1>3, EntryType
  <2> QED BY <2>1 DEF Button
<1>6. a2[1] \in Int /\ a2[2] \in Int
  OBVIOUS
<1> HIDE DEF btn
<1>7. d[1] \in Int /\ d[2] \in Int
  BY <1>4, <1>6
<1>8. Clamp(d[1]) \in Int /\ Clamp(d[2]) \in Int
  BY <1>7, ClampType
<1>9. a2' \in Int \X Int
  BY <1>1, <1>6, <1>8
<1>10. a2btn' \in BOOLEAN
  BY <1>1, <1>5 DEF btn
<1>11. fifo' \in Seq(Entry) /\ Len(fifo') \in 1..(FifoSize - 1)
  <2>1. Len(f) > 1 => Front(f) \in Seq(Entry) /\ Len(Front(f)) = Len(f) - 1
    BY <1>2, FrontType
  <2>2. fifo' = f \/ (Len(f) > 1 /\ fifo' = Front(f))
    BY <1>1 DEF Popped
  <2> QED BY <1>2, <2>1, <2>2
<1>12. valid' \in BOOLEAN
  BY <1>1 DEF CaughtUp
<1> QED BY <1>9, <1>10, <1>11, <1>12 DEF ReadMouse

(* The mouse reads, $C027 written, keys, resets and the host's mouse.       *)
LEMMA OtherType ==
  ASSUME TypeOK,
         \/ ReadMouse \/ ReadMouseOff \/ (\E s \in SUBSET Enables : WriteC027(s)) \/ Host
  PROVE  TypeOK'
<1> USE DEF TypeOK, cmdVars, confVars, keyVars, mouseVars
<1>1. CASE ReadMouse
  <2>1. MouseTypeOK'
    BY <1>1, ReadMouseType
  <2>2. irqs' \subseteq irqs
    BY <1>1 DEF ReadMouse
  <2>3. UNCHANGED <<cmdVars, intByte, c027, confVars, keyVars, polite>> /\ complaint' = "none"
    BY <1>1 DEF ReadMouse
  <2> QED BY <2>1, <2>2, <2>3 DEF CmdTypeOK, IntTypeOK, ConfTypeOK, KeyTypeOK
<1>2. CASE ReadMouseOff
  BY <1>2 DEF ReadMouseOff, CmdTypeOK, IntTypeOK, ConfTypeOK, KeyTypeOK, MouseTypeOK
<1>3. ASSUME NEW s \in SUBSET Enables, WriteC027(s) PROVE TypeOK'
  BY <1>3 DEF WriteC027, CmdTypeOK, IntTypeOK, ConfTypeOK, KeyTypeOK, MouseTypeOK
<1>4. ASSUME NEW b \in Codes, HostKey(b) PROVE TypeOK'
  <2>1. CmdTypeOK' /\ ConfTypeOK' /\ MouseTypeOK'
    BY <1>4 DEF HostKey, CmdTypeOK, ConfTypeOK, MouseTypeOK
  <2>2. Append(reg0, b) \in Seq(Codes) /\ Len(Append(reg0, b)) = Len(reg0) + 1
        /\ Append(owed, b) \in Seq(Codes) /\ Len(reg0) \in Nat
    BY AppendProperties, LenProperties DEF KeyTypeOK
  <2>3. keys' \in 0..MaxKeys
    BY <1>4, AdbAssumption DEF HostKey, KeyTypeOK
  <2>4. KeyTypeOK'
    <3>1. CASE Full(reg0)
      BY <1>4, <2>3, <3>1 DEF HostKey, KeyTypeOK
    <3>2. CASE ~Full(reg0)
      <4>1. reg0' = Append(reg0, b) /\ owed' = Append(owed, b)
        BY <1>4, <3>2 DEF HostKey
      <4>2. Len(reg0') <= KbdReg0Size
        BY <2>2, <3>2, <4>1, AdbAssumption DEF Full
      <4> QED BY <2>2, <2>3, <4>1, <4>2 DEF KeyTypeOK
    <3> QED BY <3>1, <3>2
  <2>5. IntTypeOK'
    BY <1>4 DEF HostKey, IntTypeOK
  <2> QED BY <1>4, <2>1, <2>4, <2>5 DEF HostKey
<1>5. CASE HostDeskManager
  <2>1. IntTypeOK'
    BY <1>5 DEF HostDeskManager, DeskManager, DataInt, IntTypeOK
  <2>2. KeyTypeOK'
    BY <1>5, AdbAssumption DEF HostDeskManager, KeyTypeOK
  <2> QED BY <1>5, <2>1, <2>2 DEF HostDeskManager, CmdTypeOK, ConfTypeOK, MouseTypeOK
<1>6. CASE Reset
  <2>1. data' = <<>> /\ IntTypeOK' /\ ConfTypeOK' /\ KeyTypeOK' /\ MouseTypeOK'
    BY <1>6, ResetType DEF Reset
  <2>2. data' \in Seq(Codes \cup {"reply"}) /\ Len(data') = 0
    BY <2>1, EmptySeq
  <2>3. CmdTypeOK'
    BY <1>6, <2>2, AdbAssumption DEF Reset, CmdTypeOK, Addrs
  <2> QED BY <1>6, <2>1, <2>3 DEF Reset
<1>7. ASSUME NEW at \in Position, NEW btn \in BOOLEAN, HostMouse(at, btn) PROVE TypeOK'
  <2>1. PICK f \in Compressed :
          /\ fifo' = Moved(f, at, btn)
          /\ valid' = (valid \/ ((at # f[1].at \/ btn # f[1].btn) /\ ~MouseOff))
          /\ irqs' \subseteq irqs \cup {"mouse"}
          /\ hushed' = IF at # f[1].at \/ btn # f[1].btn THEN MouseOff ELSE hushed
    BY <1>7 DEF HostMouse
  <2>2. fifo' \in Seq(Entry) /\ Len(fifo') \in 1..(FifoSize - 1)
    BY <2>1, MovedType
  <2>3. valid' \in BOOLEAN /\ hushed' \in BOOLEAN
    BY <2>1 DEF MouseTypeOK, MouseOff
  <2>4. moves' \in 0..MaxMoves /\ UNCHANGED <<a2, a2btn, coordY, warp>>
    BY <1>7, AdbAssumption DEF HostMouse, MouseTypeOK
  <2>5. MouseTypeOK'
    BY <2>2, <2>3, <2>4 DEF MouseTypeOK
  <2>6. IntTypeOK'
    BY <1>7, <2>1 DEF HostMouse, IntTypeOK
  <2> QED BY <1>7, <2>5, <2>6 DEF HostMouse, CmdTypeOK, ConfTypeOK, KeyTypeOK
<1>8. ASSUME NEW at \in Position, HostWarp(at) PROVE TypeOK'
  <2>1. PICK f \in Compressed :
          /\ fifo' = [f EXCEPT ![1].at = at]
          /\ a2' = <<a2[1] + at[1] - f[1].at[1], a2[2] + at[2] - f[1].at[2]>>
    BY <1>8 DEF HostWarp
  <2>2. f \in Seq(Entry) /\ Len(f) \in 1..(FifoSize - 1) /\ FifoSize \in Nat
    BY CompressedType, AdbAssumption DEF MouseTypeOK
  <2>3. f[1] \in Entry
    BY <2>2, LenProperties
  <2>4. [f[1] EXCEPT !.at = at] \in Entry
    BY <2>3 DEF Entry
  <2>5. fifo' \in Seq(Entry) /\ Len(fifo') = Len(f)
    <3>1. fifo' = [f EXCEPT ![1] = [f[1] EXCEPT !.at = at]]
      BY <2>1
    <3> QED BY <2>2, <2>4, <3>1, ExceptSeq
  <2>6. at[1] \in Int /\ at[2] \in Int
    BY AdbAssumption DEF Position
  <2>7. a2' \in Int \X Int
    <3>1. a2[1] \in Int /\ a2[2] \in Int /\ f[1].at[1] \in Int /\ f[1].at[2] \in Int
      BY <2>3, EntryType DEF MouseTypeOK
    <3> QED BY <2>1, <2>6, <3>1
  <2>8. moves' \in 0..MaxMoves /\ UNCHANGED <<a2btn, valid, coordY, warp, hushed>>
    <3>1. moves < MaxMoves /\ moves' = moves + 1 /\ UNCHANGED <<a2btn, valid, coordY, warp, hushed>>
      BY <1>8 DEF HostWarp
    <3>2. moves \in 0..MaxMoves
      BY DEF MouseTypeOK
    <3> QED BY <3>1, <3>2, AdbAssumption
  <2>9. MouseTypeOK'
    BY <2>2, <2>5, <2>7, <2>8 DEF MouseTypeOK
  <2> QED BY <1>8, <2>9 DEF HostWarp, CmdTypeOK, IntTypeOK, ConfTypeOK, KeyTypeOK
<1>9. CASE HostToggleWarp
  <2>1. MouseTypeOK'
    BY <1>9, AdbAssumption DEF HostToggleWarp, MouseTypeOK
  <2> QED BY <1>9, <2>1 DEF HostToggleWarp, CmdTypeOK, IntTypeOK, ConfTypeOK, KeyTypeOK
<1> QED BY <1>1, <1>2, <1>3, <1>4, <1>5, <1>6, <1>7, <1>8, <1>9 DEF Host

LEMMA InitType == Init => TypeOK
<1> SUFFICES ASSUME Init PROVE TypeOK
  OBVIOUS
<1> USE DEF Init
<1>1. <<>> \in Seq(Codes \cup {"reply"}) /\ <<>> \in Seq(Codes)
      /\ Len(<<>>) = 0
  OBVIOUS
<1>2. CmdTypeOK
  BY <1>1, AdbAssumption DEF CmdTypeOK, Addrs
<1>3. IntTypeOK /\ ConfTypeOK /\ KeyTypeOK
  BY <1>1, AdbAssumption DEF IntTypeOK, ConfTypeOK, KeyTypeOK
<1>4. [at |-> <<0, 0>>, btn |-> FALSE] \in Entry
  BY AdbAssumption DEF Entry, Position
<1>5. fifo \in Seq(Entry) /\ Len(fifo) \in 1..(FifoSize - 1)
  BY <1>4, AdbAssumption
<1>6. moves \in 0..MaxMoves /\ a2 \in Int \X Int
  BY AdbAssumption
<1>7. MouseTypeOK
  BY <1>5, <1>6 DEF MouseTypeOK
<1> QED BY <1>2, <1>3, <1>7 DEF TypeOK

LEMMA StutterType == TypeOK /\ UNCHANGED vars => TypeOK'
BY DEF vars, TypeOK, cmdVars, confVars, keyVars, mouseVars,
       CmdTypeOK, IntTypeOK, ConfTypeOK, KeyTypeOK, MouseTypeOK

(* Every variable keeps its type: no command, key or mouse event makes one   *)
(* of adb.c's buffers overflow (g_adb_data, g_kbd_reg0_data, g_mouse_fifo). *)
THEOREM AdbTypeCorrect == Spec => []TypeOK
<1>1. TypeOK /\ [Next]_vars => TypeOK'
  BY CommandType, ArgumentType, OtherType, StutterType DEF Next, Program
<1> QED BY <1>1, InitType, PTL DEF Spec

-----------------------------------------------------------------------------
(* The steps after which the keyboard's request, its bit and its keys are    *)
(* as they were.                                                            *)
KeysAsBefore ==
  /\ UNCHANGED reg0
  /\ "srq" \in irqs' <=> "srq" \in irqs
  /\ "srq" \in intByte' <=> "srq" \in intByte

(* Every step that is not a Talk, a reset, a read of the status or a key.   *)
LEMMA KeysAsBeforeStep ==
  ASSUME Next
  PROVE  \/ KeysAsBefore \/ AdbReset \/ TalkReg0 \/ ReadStatus
         \/ \E b \in Codes : HostKey(b)
<1> USE DEF KeysAsBefore, keyVars
<1>1. ASSUME NEW o \in Ops, NEW d \in Addrs, WriteCommand(o, d)
      PROVE  KeysAsBefore \/ AdbReset \/ TalkReg0
  <2>1. CASE WriteNoReply(o, d) \/ WriteArgOp(o, d) \/ WriteUnknown(o, d)
    BY <2>1 DEF WriteNoReply, WriteArgOp, WriteUnknown
  <2>2. CASE WriteReplyOp(o, d)
    BY <2>2 DEF WriteReplyOp, SendBytes, DataInt
  <2>3. CASE WriteReset(o, d)
    BY <2>3 DEF WriteReset
  <2>4. CASE WriteTalk0(o, d)
    BY <2>4 DEF WriteTalk0
  <2>5. CASE WriteTalk3(o, d)
    BY <2>5 DEF WriteTalk3, DataInt, Announced
  <2> QED BY <1>1, <2>1, <2>2, <2>3, <2>4, <2>5 DEF WriteCommand
<1>2. CASE WriteWhileSending \/ WriteArg
  BY <1>2 DEF WriteWhileSending, WriteArg
<1>3. CASE LastArg
  <2>1. CASE DoReadMem
    BY <2>1 DEF DoReadMem, SendBytes, DataInt
  <2>2. CASE DoSendKey
    BY <2>2 DEF DoSendKey, DeskManager, DataInt
  <2> QED BY <1>3, <2>1, <2>2
          DEF LastArg, DoSetModes, DoSetConfig, DoSync, DoNothing, DoListen3
<1>4. CASE ReadData
  BY <1>4 DEF ReadData
<1>5. ASSUME NEW s \in SUBSET Enables, WriteC027(s) PROVE KeysAsBefore
  BY <1>5 DEF WriteC027, Disabled
<1>6. CASE ReadMouse \/ ReadMouseOff
  <2>1. CASE ReadMouse
    <3>1. UNCHANGED <<intByte, reg0>> /\ (irqs' = irqs \/ irqs' = irqs \ {"mouse"})
      BY <2>1 DEF ReadMouse
    <3> QED BY <3>1
  <2>2. CASE ReadMouseOff
    BY <2>2 DEF ReadMouseOff
  <2> QED BY <1>6, <2>1, <2>2
<1>7. CASE HostDeskManager
  BY <1>7 DEF HostDeskManager, DeskManager, DataInt
<1>8. ASSUME NEW at \in Position, NEW btn \in BOOLEAN, HostMouse(at, btn) PROVE KeysAsBefore
  <2>1. UNCHANGED <<intByte, reg0>> /\ (irqs' = irqs \/ irqs' = irqs \cup (c027 \cap {"mouse"}))
    BY <1>8 DEF HostMouse
  <2> QED BY <2>1
<1>9. ASSUME NEW at \in Position, HostWarp(at) PROVE KeysAsBefore
  BY <1>9 DEF HostWarp
<1>10. CASE HostToggleWarp
  BY <1>10 DEF HostToggleWarp
<1>11. CASE Reset
  BY <1>11 DEF Reset
<1> QED BY <1>1, <1>2, <1>3, <1>4, <1>5, <1>6, <1>7, <1>8, <1>9, <1>10, <1>11
        DEF Next, Program, Host

(* The keyboard's request is there exactly while keys wait for a Talk, and   *)
(* $C027 shows it then (SrqSaysKeys is inductive).                          *)
THEOREM AdbSrqSaysKeys == Spec => []SrqSaysKeys
<1>1. Init => SrqSaysKeys
  BY DEF Init, SrqSaysKeys
<1>2. TypeOK /\ SrqSaysKeys /\ [Next]_vars => SrqSaysKeys'
  <2> SUFFICES ASSUME TypeOK, SrqSaysKeys, [Next]_vars PROVE SrqSaysKeys'
    OBVIOUS
  <2>1. CASE UNCHANGED vars
    BY <2>1 DEF vars, keyVars, SrqSaysKeys
  <2>2. CASE KeysAsBefore
    BY <2>2 DEF KeysAsBefore, SrqSaysKeys
  <2>3. CASE AdbReset
    BY <2>3 DEF AdbReset, SrqSaysKeys
  <2>4. CASE TalkReg0
    <3>1. reg0 = <<>> => Shifted(reg0, TalkCount) = <<>>
      BY DEF TalkCount, Shifted
    <3>2. "srq" \in irqs' <=> "srq" \in irqs /\ reg0' # <<>>
      BY <2>4 DEF TalkReg0, DataInt
    <3>3. "srq" \in intByte' <=> "srq" \in intByte /\ reg0' # <<>>
      BY <2>4 DEF TalkReg0, Announced
    <3>4. reg0' = Shifted(reg0, TalkCount)
      BY <2>4 DEF TalkReg0
    <3> QED BY <3>1, <3>2, <3>3, <3>4 DEF SrqSaysKeys
  <2>5. CASE ReadStatus
    BY <2>5 DEF ReadStatus, StatusAfter, keyVars, SrqSaysKeys
  <2>6. ASSUME NEW b \in Codes, HostKey(b) PROVE SrqSaysKeys'
    <3>1. CASE Full(reg0)
      BY <2>6, <3>1 DEF HostKey, SrqSaysKeys
    <3>2. CASE ~Full(reg0)
      <4>1. Append(reg0, b) # <<>>
        BY AppendProperties DEF TypeOK, KeyTypeOK
      <4> QED BY <2>6, <3>2, <4>1 DEF HostKey, SrqSaysKeys
    <3> QED BY <3>1, <3>2
  <2> QED BY <2>1, <2>2, <2>3, <2>4, <2>5, <2>6, KeysAsBeforeStep
<1> QED BY <1>1, <1>2, AdbTypeCorrect, PTL DEF Spec

-----------------------------------------------------------------------------
(* A mouse interrupt is requested only while it is enabled and there is data. *)
LEMMA MouseIrqStep ==
  ASSUME MouseIrqHasData, [Next]_vars
  PROVE  MouseIrqHasData'
<1> USE DEF MouseIrqHasData, mouseVars
<1>1. CASE AdbReset
  BY <1>1 DEF AdbReset
<1>2. ASSUME UNCHANGED <<c027, valid>>, "mouse" \in irqs' => "mouse" \in irqs
      PROVE  MouseIrqHasData'
  BY <1>2
<1>3. ASSUME NEW o \in Ops, NEW d \in Addrs, WriteCommand(o, d) PROVE MouseIrqHasData'
  <2>1. CASE WriteNoReply(o, d) \/ WriteArgOp(o, d) \/ WriteUnknown(o, d)
    BY <2>1 DEF WriteNoReply, WriteArgOp, WriteUnknown
  <2>2. CASE WriteReplyOp(o, d)
    BY <2>2 DEF WriteReplyOp, SendBytes, DataInt
  <2>3. CASE WriteReset(o, d)
    BY <1>1, <2>3 DEF WriteReset
  <2>4. CASE WriteTalk0(o, d)
    BY <2>4 DEF WriteTalk0, TalkReg0, DataInt
  <2>5. CASE WriteTalk3(o, d)
    BY <2>5 DEF WriteTalk3, DataInt
  <2> QED BY <1>3, <2>1, <2>2, <2>3, <2>4, <2>5 DEF WriteCommand
<1>4. CASE WriteWhileSending \/ WriteArg \/ ReadStatus \/ ReadData
  BY <1>4 DEF WriteWhileSending, WriteArg, ReadStatus, ReadData
<1>5. CASE LastArg
  <2>1. CASE DoReadMem
    BY <2>1 DEF DoReadMem, SendBytes, DataInt
  <2>2. CASE DoSendKey
    BY <2>2 DEF DoSendKey, DeskManager, DataInt
  <2> QED BY <1>5, <2>1, <2>2
          DEF LastArg, DoSetModes, DoSetConfig, DoSync, DoNothing, DoListen3
<1>6. ASSUME NEW s \in SUBSET Enables, WriteC027(s) PROVE MouseIrqHasData'
  BY <1>6 DEF WriteC027, Disabled
<1>7. CASE ReadMouse
  <2>1. PICK done \in BOOLEAN :
          /\ valid' = (valid /\ ~done)
          /\ irqs' = IF done THEN irqs \ {"mouse"} ELSE irqs
    BY <1>7 DEF ReadMouse, CaughtUp
  <2> QED BY <1>7, <2>1 DEF ReadMouse
<1>8. CASE ReadMouseOff
  BY <1>8 DEF ReadMouseOff
<1>9. CASE HostDeskManager \/ HostToggleWarp
  BY <1>9 DEF HostDeskManager, DeskManager, DataInt, HostToggleWarp
<1>10. ASSUME NEW b \in Codes, HostKey(b) PROVE MouseIrqHasData'
  <2>1. irqs' = irqs \/ irqs' = irqs \cup {"srq"}
    BY <1>10 DEF HostKey
  <2> QED BY <1>10, <2>1 DEF HostKey
<1>11. ASSUME NEW at \in Position, NEW btn \in BOOLEAN, HostMouse(at, btn)
       PROVE  MouseIrqHasData'
  <2>1. PICK news \in BOOLEAN :
          /\ valid' = (valid \/ (news /\ ~MouseOff))
          /\ irqs' = irqs \cup (IF news /\ ~MouseOff THEN c027 \cap {"mouse"} ELSE {})
    BY <1>11 DEF HostMouse
  <2> QED BY <1>11, <2>1 DEF HostMouse
<1>12. ASSUME NEW at \in Position, HostWarp(at) PROVE MouseIrqHasData'
  BY <1>12 DEF HostWarp
<1>13. CASE Reset
  BY <1>1, <1>13 DEF Reset
<1>14. CASE UNCHANGED vars
  BY <1>14 DEF vars
<1> QED BY <1>3, <1>4, <1>5, <1>6, <1>7, <1>8, <1>9, <1>10, <1>11, <1>12, <1>13, <1>14
        DEF Next, Program, Host

(* The mouse's interrupt agrees with its enable and with the announcement of *)
(* mouse data in every state.                                               *)
THEOREM AdbMouseIrqHasData == Spec => []MouseIrqHasData
<1>1. Init => MouseIrqHasData
  BY DEF Init, MouseIrqHasData
<1> QED BY <1>1, MouseIrqStep, PTL DEF Spec

-----------------------------------------------------------------------------
(* A fifo of one entry that is where the program's mouse is.                *)
LEMMA OneEntry ==
  ASSUME NEW f \in Seq(Entry), NEW at, NEW btn
  PROVE  (Len(f) = 1 /\ f[1].at = at /\ f[1].btn = btn) <=> f = <<[at |-> at, btn |-> btn]>>
<1>1. ASSUME Len(f) = 1, f[1].at = at, f[1].btn = btn PROVE f = <<[at |-> at, btn |-> btn]>>
  <2>0. f \in [1..1 -> Entry]
    BY <1>1, LenProperties
  <2>1. f[1] \in Entry
    BY <2>0
  <2>2. f[1] = [at |-> at, btn |-> btn]
    BY <1>1, <2>1 DEF Entry
  <2> QED BY <1>1, <2>2
<1>2. ASSUME f = <<[at |-> at, btn |-> btn]>> PROVE Len(f) = 1 /\ f[1].at = at /\ f[1].btn = btn
  BY <1>2
<1> QED BY <1>1, <1>2

(* No motion is lost: when no data is announced, and nothing hushed it, the   *)
(* program's mouse is where the host's is (MouseSeen is inductive).         *)
LEMMA MouseSeenStep ==
  ASSUME TypeOK, MouseSeen, [Next]_vars
  PROVE  MouseSeen'
<1> DEFINE seen == fifo = <<[at |-> a2, btn |-> a2btn]>>
<1>0. MouseTypeOK
  BY DEF TypeOK
<1>1. CASE UNCHANGED mouseVars
  BY <1>1 DEF mouseVars, MouseSeen
<1>2. CASE AdbReset
  BY <1>2 DEF AdbReset, MouseSeen
<1>3. CASE ReadMouse
  <2> SUFFICES ASSUME ~valid', ~hushed' PROVE seen'
    BY DEF MouseSeen
  <2>1. PICK f \in Compressed :
          LET target == f[Len(f)].at
              d      == <<target[1] - a2[1], target[2] - a2[2]>>
              btn    == Button(f, d)
          IN /\ a2' = IF coordY THEN <<a2[1], a2[2] + Clamp(d[2])>>
                                ELSE <<a2[1] + Clamp(d[1]), a2[2]>>
             /\ a2btn' = IF coordY THEN btn ELSE a2btn
             /\ fifo' = Popped(f, a2', btn, a2btn')
             /\ valid' = (valid /\ ~CaughtUp(fifo', a2', a2btn'))
    BY <1>3 DEF ReadMouse
  <2>2. fifo' \in Seq(Entry) /\ UNCHANGED hushed
    BY <1>0, <1>3, ReadMouseType DEF ReadMouse, MouseTypeOK
  <2>3. CASE CaughtUp(fifo', a2', a2btn')
    BY <2>2, <2>3, OneEntry DEF CaughtUp
  <2>4. CASE ~CaughtUp(fifo', a2', a2btn')
    <3>1. ~valid /\ ~hushed
      BY <2>1, <2>2, <2>4
    <3>2. seen
      BY <3>1 DEF MouseSeen
    <3>3. Len(fifo) = 1
      BY <3>2
    <3>4. f = fifo
      BY <1>0, <3>3, CompressedType
    <3>5. f[Len(f)] = [at |-> a2, btn |-> a2btn] /\ Len(f) = 1
      BY <3>2, <3>4
    <3>6. a2[1] \in Int /\ a2[2] \in Int /\ a2 = <<a2[1], a2[2]>>
      BY <1>0 DEF MouseTypeOK
    <3>7. Clamp(a2[1] - a2[1]) = 0 /\ Clamp(a2[2] - a2[2]) = 0
      BY <3>6, AdbAssumption DEF Clamp
    <3>8. a2' = a2
      BY <2>1, <3>5, <3>6, <3>7
    <3>9. a2btn' = a2btn
      BY <2>1, <3>5 DEF Button
    <3>10. fifo' = fifo
      BY <2>1, <3>4, <3>5 DEF Popped
    <3> QED BY <3>2, <3>8, <3>9, <3>10
  <2> QED BY <2>3, <2>4
<1>4. CASE ReadMouseOff
  BY <1>4 DEF ReadMouseOff, MouseSeen
<1>5. CASE HostToggleWarp
  BY <1>5 DEF HostToggleWarp, MouseSeen
<1>6. ASSUME NEW at \in Position, NEW btn \in BOOLEAN, HostMouse(at, btn) PROVE MouseSeen'
  <2> SUFFICES ASSUME ~valid', ~hushed' PROVE seen'
    BY DEF MouseSeen
  <2>1. PICK f \in Compressed :
          /\ fifo' = Moved(f, at, btn)
          /\ valid' = (valid \/ ((at # f[1].at \/ btn # f[1].btn) /\ ~MouseOff))
          /\ hushed' = IF at # f[1].at \/ btn # f[1].btn THEN MouseOff ELSE hushed
    BY <1>6 DEF HostMouse
  <2>2. ~valid /\ at = f[1].at /\ btn = f[1].btn /\ ~hushed
    BY <2>1
  <2>3. seen /\ Len(fifo) = 1
    BY <2>2 DEF MouseSeen
  <2>4. f = fifo
    BY <1>0, <2>3, CompressedType
  <2>5. fifo' = fifo
    BY <1>0, <2>1, <2>2, <2>4, MovedType
  <2> QED BY <1>6, <2>3, <2>5 DEF HostMouse
<1>7. ASSUME NEW at \in Position, HostWarp(at) PROVE MouseSeen'
  <2> SUFFICES ASSUME ~valid', ~hushed' PROVE seen'
    BY DEF MouseSeen
  <2>1. PICK f \in Compressed :
          /\ fifo' = [f EXCEPT ![1].at = at]
          /\ a2' = <<a2[1] + at[1] - f[1].at[1], a2[2] + at[2] - f[1].at[2]>>
    BY <1>7 DEF HostWarp
  <2>2. ~valid /\ ~hushed /\ UNCHANGED a2btn
    BY <1>7 DEF HostWarp
  <2>3. seen /\ Len(fifo) = 1
    BY <2>2 DEF MouseSeen
  <2>4. f = <<[at |-> a2, btn |-> a2btn]>>
    BY <1>0, <2>3, CompressedType
  <2>5. fifo' = <<[at |-> at, btn |-> a2btn]>>
    BY <2>1, <2>4
  <2>6. a2' = at
    <3>1. f[1].at = a2
      BY <2>4
    <3>2. a2[1] \in Int /\ a2[2] \in Int
      BY <1>0 DEF MouseTypeOK
    <3>3. at[1] \in Int /\ at[2] \in Int /\ at = <<at[1], at[2]>>
      BY AdbAssumption DEF Position
    <3>4. a2[1] + at[1] - a2[1] = at[1] /\ a2[2] + at[2] - a2[2] = at[2]
      BY <3>2, <3>3
    <3> QED BY <2>1, <3>1, <3>3, <3>4
  <2> QED BY <2>2, <2>5, <2>6
<1>8. Next => \/ UNCHANGED mouseVars \/ AdbReset \/ ReadMouse \/ ReadMouseOff \/ HostToggleWarp
              \/ (\E at \in Position, btn \in BOOLEAN : HostMouse(at, btn))
              \/ (\E at \in Position : HostWarp(at))
  <2>1. ASSUME NEW o \in Ops, NEW d \in Addrs, WriteCommand(o, d)
        PROVE  UNCHANGED mouseVars \/ AdbReset
    BY <2>1 DEF WriteCommand, WriteNoReply, WriteArgOp, WriteReplyOp, WriteReset, WriteTalk0,
                WriteTalk3, WriteUnknown
  <2>2. LastArg => UNCHANGED mouseVars
    BY DEF LastArg, DoSetModes, DoSetConfig, DoSync, DoNothing, DoReadMem, DoSendKey, DoListen3
  <2>3. WriteWhileSending \/ WriteArg \/ ReadStatus \/ ReadData => UNCHANGED mouseVars
    BY DEF WriteWhileSending, WriteArg, ReadStatus, ReadData
  <2>4. (\E s \in SUBSET Enables : WriteC027(s)) => UNCHANGED mouseVars
    BY DEF WriteC027
  <2>5. (\E b \in Codes : HostKey(b)) \/ HostDeskManager => UNCHANGED mouseVars
    BY DEF HostKey, HostDeskManager
  <2>6. Reset => AdbReset
    BY DEF Reset
  <2> QED BY <2>1, <2>2, <2>3, <2>4, <2>5, <2>6 DEF Next, Program, Host
<1> QED BY <1>1, <1>2, <1>3, <1>4, <1>5, <1>6, <1>7, <1>8 DEF vars

(* No motion of the mouse is lost by the fifo, its compression or warping.   *)
THEOREM AdbMouseSeen == Spec => []MouseSeen
<1>1. Init => MouseSeen
  BY DEF Init, MouseSeen
<1> QED BY <1>1, MouseSeenStep, AdbTypeCorrect, PTL DEF Spec

-----------------------------------------------------------------------------
(* A data interrupt that is requested is enabled, and the interrupt byte or  *)
(* an answer is there.                                                      *)
DataIrqInv == "data" \in irqs => "data" \in c027 /\ (intByte # {} \/ data # <<>>)

LEMMA DataIrqStep ==
  ASSUME TypeOK, DataIrqInv, [Next]_vars
  PROVE  DataIrqInv'
<1> USE DEF DataIrqInv, cmdVars
<1>1. CASE AdbReset
  BY <1>1 DEF AdbReset
<1>2. ASSUME NEW o \in Ops, NEW d \in Addrs, WriteCommand(o, d) PROVE DataIrqInv'
  <2>1. CASE WriteNoReply(o, d) \/ WriteArgOp(o, d) \/ WriteUnknown(o, d)
    BY <2>1 DEF WriteNoReply, WriteArgOp, WriteUnknown
  <2>2. CASE WriteReplyOp(o, d)
    <3>1. ReplyLen(o) \in 1..4
      BY DEF ReplyLen
    <3>2. data' # <<>>
      BY <2>2, <3>1, RepliesType DEF WriteReplyOp, SendBytes
    <3> QED BY <2>2, <3>2 DEF WriteReplyOp, SendBytes, DataInt
  <2>3. CASE WriteReset(o, d)
    BY <1>1, <2>3 DEF WriteReset
  <2>4. CASE WriteTalk0(o, d)
    <3>1. CASE d = kbdDev
      <4>1. "response" \in intByte' /\ irqs' \subseteq irqs \cup DataInt
        BY <2>4, <3>1 DEF WriteTalk0, TalkReg0, Announced
      <4> QED BY <2>4, <4>1 DEF WriteTalk0, DataInt
    <3>2. CASE d # kbdDev
      BY <2>4, <3>2 DEF WriteTalk0
    <3> QED BY <3>1, <3>2
  <2>5. CASE WriteTalk3(o, d)
    BY <2>5 DEF WriteTalk3, DataInt, Announced
  <2> QED BY <1>2, <2>1, <2>2, <2>3, <2>4, <2>5 DEF WriteCommand
<1>3. CASE WriteWhileSending \/ WriteArg
  BY <1>3 DEF WriteWhileSending, WriteArg
<1>4. CASE LastArg
  <2>1. CASE DoReadMem
    <3>1. data' # <<>>
      BY <2>1, RepliesType DEF DoReadMem, SendBytes
    <3> QED BY <2>1, <3>1 DEF DoReadMem, SendBytes, DataInt
  <2>2. CASE DoSendKey
    BY <2>2 DEF DoSendKey, DeskManager, DataInt
  <2> QED BY <1>4, <2>1, <2>2
          DEF LastArg, DoSetModes, DoSetConfig, DoSync, DoNothing, DoListen3
<1>5. CASE ReadStatus
  BY <1>5 DEF ReadStatus
<1>6. CASE ReadData
  <2>1. data \in Seq(Codes \cup {"reply"}) /\ data # <<>>
    BY <1>6 DEF TypeOK, CmdTypeOK, ReadData
  <2>2. Len(Tail(data)) = Len(data) - 1 /\ Len(data) \in Nat \ {0}
    BY <2>1, HeadTailProperties, EmptySeq
  <2>3. CASE Len(data) = 1
    BY <1>6, <2>3 DEF ReadData
  <2>4. CASE Len(data) # 1
    <3>1. data' # <<>>
      <4>1. Len(<<>>) = 0 /\ data' = Tail(data)
        BY <1>6 DEF ReadData
      <4> QED BY <2>2, <2>4, <4>1
    <3> QED BY <1>6, <2>4, <3>1 DEF ReadData
  <2> QED BY <2>3, <2>4
<1>7. ASSUME NEW s \in SUBSET Enables, WriteC027(s) PROVE DataIrqInv'
  BY <1>7 DEF WriteC027, Disabled
<1>8. CASE ReadMouse \/ ReadMouseOff
  <2>1. UNCHANGED <<data, intByte, c027>> /\ irqs' \subseteq irqs
    BY <1>8 DEF ReadMouse, ReadMouseOff
  <2> QED BY <2>1
<1>9. CASE HostDeskManager
  BY <1>9 DEF HostDeskManager, DeskManager, DataInt
<1>10. ASSUME NEW b \in Codes, HostKey(b) PROVE DataIrqInv'
  <2>1. \/ UNCHANGED <<irqs, intByte>>
        \/ irqs' = irqs \cup {"srq"} /\ intByte' = intByte \cup {"srq"}
    BY <1>10 DEF HostKey
  <2> QED BY <1>10, <2>1 DEF HostKey
<1>11. ASSUME NEW at \in Position, NEW btn \in BOOLEAN, HostMouse(at, btn) PROVE DataIrqInv'
  <2>1. irqs' \subseteq irqs \cup {"mouse"}
    BY <1>11 DEF HostMouse
  <2> QED BY <1>11, <2>1 DEF HostMouse
<1>12. ASSUME NEW at \in Position, HostWarp(at) PROVE DataIrqInv'
  BY <1>12 DEF HostWarp
<1>13. CASE HostToggleWarp
  BY <1>13 DEF HostToggleWarp
<1>14. CASE Reset
  BY <1>1, <1>14 DEF Reset
<1>15. CASE UNCHANGED vars
  BY <1>15 DEF vars
<1> QED BY <1>2, <1>3, <1>4, <1>5, <1>6, <1>7, <1>8, <1>9, <1>10, <1>11, <1>12, <1>13, <1>14, <1>15
        DEF Next, Program, Host

(* The program's interrupt handler is never entered for data that is not     *)
(* there: from DataIrqInv, which leaves out what $C027 shows meanwhile.      *)
THEOREM AdbDataIrqHasData == Spec => []DataIrqHasData
<1>1. Init => DataIrqInv
  BY DEF Init, DataIrqInv
<1>2. DataIrqInv => DataIrqHasData
  BY DEF DataIrqInv, DataIrqHasData, DataValid
<1> QED BY <1>1, <1>2, DataIrqStep, AdbTypeCorrect, PTL DEF Spec

(* Both interrupts the controller can raise have something to read behind    *)
(* them: an answer or a request for it, and an entry of the mouse's list.     *)
THEOREM AdbIrqsHaveData == Spec => []IrqsHaveData
<1>1. DataIrqHasData /\ MouseIrqHasData => IrqsHaveData
  BY DEF IrqsHaveData
<1> QED BY <1>1, AdbDataIrqHasData, AdbMouseIrqHasData, PTL


-----------------------------------------------------------------------------
(* What a program that has kept to the protocol finds: an announced answer   *)
(* is there, and a command's arguments follow only when all has been read.  *)
PoliteInv ==
  polite =>
    /\ "response" \in intByte => data # <<>>
    /\ state = "in_cmd" => AllRead
    /\ state = "sending" => "response" \notin intByte
    /\ complaint \in {"none", "toss"}

LEMMA PoliteStep ==
  ASSUME TypeOK, PoliteInv, [Next]_vars
  PROVE  PoliteInv'
<1> SUFFICES ASSUME polite' PROVE PoliteInv'
  BY DEF PoliteInv
<1> USE DEF PoliteInv, AllRead, cmdVars
<1>1. ASSUME NEW o \in Ops, NEW d \in Addrs, WriteCommand(o, d) PROVE PoliteInv'
  <2> USE DEF Command
  <2>1. CASE WriteNoReply(o, d)
    BY <2>1 DEF WriteNoReply
  <2>2. CASE WriteArgOp(o, d)
    BY <2>2 DEF WriteArgOp
  <2>3. CASE WriteReplyOp(o, d)
    <3>1. ReplyLen(o) \in 1..4
      BY DEF ReplyLen
    <3>2. data' # <<>>
      BY <2>3, <3>1, RepliesType DEF WriteReplyOp, SendBytes
    <3> QED BY <2>3, <3>2 DEF WriteReplyOp, SendBytes
  <2>4. CASE WriteReset(o, d)
    BY <2>4 DEF WriteReset, AdbReset
  <2>5. CASE WriteTalk0(o, d)
    <3>1. AllRead /\ d = kbdDev /\ reg0 # <<>>
      BY <2>5 DEF WriteTalk0
    <3>2. TalkReg0 /\ complaint' = "none" /\ state' = "idle"
      BY <2>5, <3>1 DEF WriteTalk0
    <3>3. data' # <<>>
      BY <3>1, <3>2 DEF TalkReg0
    <3> QED BY <3>2, <3>3
  <2>6. CASE WriteTalk3(o, d)
    <3>1. AllRead /\ d = kbdDev
      BY <2>6 DEF WriteTalk3
    <3>2. data' # <<>> /\ complaint' = "none" /\ state' = "idle"
      BY <2>6, <3>1 DEF WriteTalk3
    <3> QED BY <3>2
  <2>7. CASE WriteUnknown(o, d)
    BY <2>7 DEF WriteUnknown
  <2> QED BY <1>1, <2>1, <2>2, <2>3, <2>4, <2>5, <2>6, <2>7 DEF WriteCommand
<1>2. CASE WriteWhileSending
  BY <1>2 DEF WriteWhileSending
<1>3. CASE WriteArg
  BY <1>3 DEF WriteArg
<1>4. CASE LastArg
  <2>1. CASE DoReadMem
    <3>1. data' # <<>>
      BY <2>1, RepliesType DEF DoReadMem, SendBytes
    <3>2. state = "in_cmd" /\ polite
      BY <2>1 DEF DoReadMem, Done
    <3> QED BY <2>1, <3>1, <3>2 DEF DoReadMem, SendBytes
  <2>2. CASE DoSendKey
    <3>1. intByte' \subseteq intByte \cup {"desk"}
      BY <2>2 DEF DoSendKey, DeskManager
    <3> QED BY <2>2, <3>1 DEF DoSendKey
  <2>3. CASE DoNothing
    BY <2>3 DEF DoNothing
  <2>4. ASSUME NEW m \in SUBSET Modes, DoSetModes(m) PROVE PoliteInv'
    BY <2>4 DEF DoSetModes, Judge
  <2>5. ASSUME NEW m \in MouseAddrs, NEW k \in KbdAddrs, DoSetConfig(m, k) PROVE PoliteInv'
    BY <2>5 DEF DoSetConfig, Judge
  <2>6. ASSUME NEW s \in SUBSET Modes, NEW m \in MouseAddrs, NEW k \in KbdAddrs, DoSync(s, m, k)
        PROVE  PoliteInv'
    BY <2>6 DEF DoSync, Judge
  <2>7. ASSUME NEW addr \in KbdAddrs, NEW h \in {"move", "known", "other"}, DoListen3(addr, h)
        PROVE  PoliteInv'
    BY <2>7 DEF DoListen3, Judge
  <2> QED BY <1>4, <2>1, <2>2, <2>3, <2>4, <2>5, <2>6, <2>7 DEF LastArg
<1>5. CASE ReadStatus
  BY <1>5 DEF ReadStatus, StatusAfter
<1>6. CASE ReadData
  BY <1>6 DEF ReadData
<1>7. ASSUME NEW s \in SUBSET Enables, WriteC027(s) PROVE PoliteInv'
  BY <1>7 DEF WriteC027
<1>8. CASE ReadMouse \/ ReadMouseOff
  BY <1>8 DEF ReadMouse, ReadMouseOff
<1>9. ASSUME NEW b \in Codes, HostKey(b) PROVE PoliteInv'
  <2>1. intByte' \subseteq intByte \cup {"srq"} /\ complaint' \in {"none", "toss"}
    BY <1>9 DEF HostKey
  <2> QED BY <1>9, <2>1 DEF HostKey
<1>10. CASE HostDeskManager
  BY <1>10 DEF HostDeskManager, DeskManager
<1>11. CASE Reset
  BY <1>11 DEF Reset, AdbReset
<1>12. ASSUME NEW at \in Position, NEW btn \in BOOLEAN, HostMouse(at, btn) PROVE PoliteInv'
  BY <1>12 DEF HostMouse
<1>13. ASSUME NEW at \in Position, HostWarp(at) PROVE PoliteInv'
  BY <1>13 DEF HostWarp
<1>14. CASE HostToggleWarp
  BY <1>14 DEF HostToggleWarp
<1>15. CASE UNCHANGED vars
  BY <1>15 DEF vars
<1> QED BY <1>1, <1>2, <1>3, <1>4, <1>5, <1>6, <1>7, <1>8, <1>9, <1>10, <1>11, <1>12, <1>13, <1>14, <1>15
        DEF Next, Program, Host

(* A polite program meets none of adb.c's alarms, whatever the host does.    *)
THEOREM AdbPoliteNeverHalts == Spec => []PoliteNeverHalts
<1>1. Init => PoliteInv
  BY DEF Init, PoliteInv, AllRead
<1>2. PoliteInv => PoliteNeverHalts
  BY DEF PoliteInv, PoliteNeverHalts
<1> QED BY <1>1, <1>2, PoliteStep, AdbTypeCorrect, PTL DEF Spec

-----------------------------------------------------------------------------
(* What is in g_adb_data is all of it something else than keys, or no more   *)
(* than the two bytes of a Talk.                                            *)
AnswerInv ==
  \/ \A i \in 1..Len(data) : data[i] = "reply"
  \/ Len(data) <= 2 /\ ResetKeyAlone

LEMMA AnswerStep ==
  ASSUME TypeOK, AnswerInv, [Next]_vars
  PROVE  AnswerInv'
<1>0. data \in Seq(Codes \cup {"reply"})
  BY DEF TypeOK, CmdTypeOK
<1>1. CASE UNCHANGED data
  BY <1>1 DEF AnswerInv, ResetKeyAlone
<1>2. CASE AdbReset
  <2>1. Len(data') = 0
    BY <1>2 DEF AdbReset
  <2> QED BY <2>1 DEF AnswerInv
<1>3. ASSUME NEW n \in 1..4, SendBytes(n) PROVE AnswerInv'
  <2>1. data' = [i \in 1..n |-> "reply"] /\ Len(data') = n
    BY <1>3, RepliesType DEF SendBytes
  <2> QED BY <2>1 DEF AnswerInv
<1>4. CASE TalkReg0
  <2>1. CASE reg0 = <<>>
    <3>1. Len(data') = 0
      BY <1>4, <2>1 DEF TalkReg0
    <3> QED BY <3>1 DEF AnswerInv
  <2>2. CASE reg0 # <<>>
    <3>1. data' = <<TalkSecond, reg0[1]>>
      BY <1>4, <2>2 DEF TalkReg0
    <3>2. Len(data') = 2 /\ data'[1] = TalkSecond /\ data'[2] = reg0[1]
      BY <3>1
    <3>3. reg0[1] \notin ResetCodes =>
            TalkSecond = Pad \/ (TalkSecond = reg0[2] /\ reg0[2] \notin ResetCodes)
      BY <2>2 DEF TalkSecond, TalkCount
    <3>4. reg0[1] \in ResetCodes => TalkSecond = reg0[1]
      BY DEF TalkSecond
    <3>5. ResetKeyAlone'
      BY <3>2, <3>3, <3>4 DEF ResetKeyAlone
    <3> QED BY <3>2, <3>5 DEF AnswerInv
  <2> QED BY <2>1, <2>2
<1>5. ASSUME data' = <<"reply", "reply">> PROVE AnswerInv'
  BY <1>5 DEF AnswerInv
<1>6. CASE ReadData
  <2>1. data # <<>> /\ data' = Tail(data)
    BY <1>6 DEF TypeOK, CmdTypeOK, ReadData
  <2>2. /\ Len(data) \in Nat \ {0} /\ Len(Tail(data)) = Len(data) - 1
        /\ \A i \in 1..(Len(data) - 1) : Tail(data)[i] = data[i + 1]
    BY <1>0, <2>1, HeadTailProperties, EmptySeq
  <2>3. CASE \A i \in 1..Len(data) : data[i] = "reply"
    <3>1. \A i \in 1..Len(data') : data'[i] = "reply"
      BY <2>1, <2>2, <2>3
    <3> QED BY <3>1 DEF AnswerInv
  <2>4. CASE Len(data) <= 2
    <3>1. Len(data') <= 1 /\ Len(data') # 2
      BY <2>1, <2>2, <2>4
    <3> QED BY <3>1 DEF AnswerInv, ResetKeyAlone
  <2> QED BY <2>3, <2>4 DEF AnswerInv
<1>7. ASSUME NEW o \in Ops, NEW d \in Addrs, WriteCommand(o, d) PROVE AnswerInv'
  <2>1. CASE WriteNoReply(o, d) \/ WriteArgOp(o, d) \/ WriteUnknown(o, d)
    BY <1>1, <2>1 DEF WriteNoReply, WriteArgOp, WriteUnknown
  <2>2. CASE WriteReplyOp(o, d)
    <3>1. ReplyLen(o) \in 1..4 /\ SendBytes(ReplyLen(o))
      BY <2>2 DEF WriteReplyOp, ReplyLen
    <3> QED BY <1>3, <3>1
  <2>3. CASE WriteReset(o, d)
    BY <1>2, <2>3 DEF WriteReset
  <2>4. CASE WriteTalk0(o, d)
    BY <1>1, <1>4, <2>4 DEF WriteTalk0
  <2>5. CASE WriteTalk3(o, d)
    BY <1>1, <1>5, <2>5 DEF WriteTalk3
  <2> QED BY <1>7, <2>1, <2>2, <2>3, <2>4, <2>5 DEF WriteCommand
<1>8. CASE LastArg
  <2>1. CASE DoReadMem
    BY <1>3, <2>1 DEF DoReadMem
  <2> QED BY <1>1, <1>8, <2>1
          DEF LastArg, DoSetModes, DoSetConfig, DoSync, DoNothing, DoSendKey, DoListen3
<1>9. CASE WriteWhileSending \/ WriteArg \/ ReadStatus \/ ReadMouse \/ ReadMouseOff
  BY <1>1, <1>9 DEF WriteWhileSending, WriteArg, ReadStatus, ReadMouse, ReadMouseOff, cmdVars
<1>10. CASE \E s \in SUBSET Enables : WriteC027(s)
  BY <1>1, <1>10 DEF WriteC027, cmdVars
<1>11. CASE Host
  <2>1. CASE Reset
    BY <1>2, <2>1 DEF Reset
  <2>2. CASE ~Reset
    BY <1>1, <1>11, <2>2
    DEF Host, HostKey, HostDeskManager, HostMouse, HostWarp, HostToggleWarp, cmdVars
  <2> QED BY <2>1, <2>2
<1>12. CASE UNCHANGED vars
  BY <1>1, <1>12 DEF vars, cmdVars
<1> QED BY <1>6, <1>7, <1>8, <1>9, <1>10, <1>11, <1>12 DEF Next, Program

(* The reset key never shares an answer with another key, in any state:      *)
(* an answer is not changed while it waits to be read.                      *)
THEOREM AdbResetKeyAlone == Spec => []ResetKeyAlone
<1>1. Init => AnswerInv
  BY DEF Init, AnswerInv
<1>2. AnswerInv => ResetKeyAlone
  BY DEF AnswerInv, ResetKeyAlone
<1> QED BY <1>1, <1>2, AnswerStep, AdbTypeCorrect, PTL DEF Spec
=============================================================================
