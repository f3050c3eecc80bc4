------------------------------ MODULE SmartPort ------------------------------
(***************************************************************************)
(* The block devices of smartport.c: the calls that reach $C70D (with a     *)
(* unit, a command and, for an extended call, the report of a changed disk) *)
(* and $C70A (ProDOS), on images inserted and ejected as in Iwm.            *)
(*                                                                          *)
(* A block is its data, one byte.  An image begins Start[i] blocks into the *)
(* file, or into the memory a compressed file was unpacked to: the header   *)
(* of a 2IMG or DiskCopy file, or what precedes a partition.                *)
(***************************************************************************)
EXTENDS Iwm

CONSTANTS
  Start,        \* dimage_start of each image, in blocks
  Commands      \* of extended and plain calls, among "status", "read", "write",
                \*   "format" and "other" (a command that is not implemented)

ASSUME SmartPortAssumption == Start \in [Images -> Tracks]

VARIABLES
  answer,       \* what the last call returned: acc and the block it read
  kept,         \* history: what a call that succeeded put in a block of the disk in the unit
  fresh         \* history: units whose disk changed and the guest has not been told

portVars == <<diskVars, answer, kept, fresh>>

Blocks == Tracks
Codes == {0, 1, 39, 40, 43, 46, 47}    \* BADCMD, $27, $28, $2B, DISKSW = $2E, $2F
NoAnswer == [ret |-> 0, cmd |-> "none", unit |-> NoImage, block |-> 0, data |-> "any"]
Unknown == [b \in Blocks |-> "any"]

Size(i) == Cardinality(Blocks) - Start[i]          \* dimage_size
InMemory(u) == disk[u].img \in Compressed          \* raw_data
Reply(ret, cmd, u, b, data) ==
  answer' = [ret |-> ret, cmd |-> cmd, unit |-> u, block |-> b, data |-> data]

(* do_c70d's prologue: an extended call reports a changed disk, once.  The  *)
(* guest knows of a change that is reported, or that it sees as no disk.    *)
Changed(u, ext) == ext /\ disk[u].switched
Seen(u, ext) == [disk EXCEPT ![u].switched = @ /\ ~ext]
Told(u, ret) ==
  fresh' = IF ret \in {40, 46, 47} \/ (ret = 0 /\ disk[u].img = NoImage) THEN fresh \ {u} ELSE fresh

-----------------------------------------------------------------------------
(* do_read_c7.  The size is checked with the start added, the read then     *)
(* fails at the end of a file; past the end of memory it finds anything.    *)
ReadBlock(u, b, ext, ok) ==
  LET i == disk[u].img
      at == Start[i] + b
      ret == IF Changed(u, ext) THEN 46
             ELSE IF i = NoImage THEN 47
             ELSE IF ~InMemory(u) /\ (~ok \/ at \notin Blocks) THEN 39 ELSE 0
  IN  /\ "read" \in Commands
      /\ disk' = Seen(u, ext)
      /\ \E data \in CASE ret # 0 -> {"any"}
                       [] ~InMemory(u) -> {file[i][at]}
                       [] InMemory(u) /\ at \in Blocks -> {disk[u].trk[at].data}
                       [] OTHER -> Bytes :
           Reply(ret, "read", u, b, data)
      /\ Told(u, ret)
      /\ UNCHANGED <<iwm, file, wrote, lost, kept>>

(* do_write_c7 and smartport_memory_write: where block b lands              *)
(* (FileBlockBare, a variant, leaves the start out)                         *)
FileBlockBare(i, b) == b
FileBlock(i, b) == Start[i] + b
MemoryBlock(i, b) == b

WriteBlock(u, b, v, ext, ok) ==
  LET i == disk[u].img
      thru == disk[u].thru
      ret == IF Changed(u, ext) THEN 46
             ELSE IF i = NoImage THEN 40
             ELSE IF disk[u].prot # 0 THEN 43
             ELSE IF b >= Size(i) THEN 39
             ELSE IF thru /\ ~ok THEN 43 ELSE 0
      failed == ret = 43 /\ disk[u].prot = 0
  IN  /\ "write" \in Commands
      /\ Reply(ret, "write", u, b, "any")
      /\ Told(u, ret)
      /\ IF ret = 0 /\ thru
         THEN /\ file' = [file EXCEPT ![i][FileBlock(i, b)] = v]
              /\ wrote' = [wrote EXCEPT ![i][FileBlock(i, b)] = v]
              /\ disk' = Seen(u, ext)
         ELSE /\ UNCHANGED <<file, wrote>>
              /\ disk' = [Seen(u, ext) EXCEPT
                   ![u].trk = IF ret = 0 THEN [@ EXCEPT ![MemoryBlock(i, b)].data = v] ELSE @,
                   ![u].prot = IF failed THEN 1 ELSE @]
      /\ kept' = IF ret = 0 THEN [kept EXCEPT ![u][b] = v] ELSE kept
      /\ UNCHANGED <<iwm, lost>>

(* do_format_c7: the blocks are zeroed in turn, n of them before the host   *)
(* fails.  An image in memory is refused.                                   *)
FormatUnit(u, n, ext) ==
  LET i == disk[u].img
      refused == IF Changed(u, ext) THEN 46
                 ELSE IF i = NoImage THEN 40
                 ELSE IF disk[u].prot # 0 \/ InMemory(u) THEN 43 ELSE 0
      zeroed(f) == [t \in Tracks |-> IF t \in Start[i]..(Start[i] + n - 1) THEN "zero" ELSE f[t]]
  IN  /\ "format" \in Commands
      /\ IF refused # 0
         THEN /\ n = 0
              /\ disk' = Seen(u, ext)
              /\ Reply(refused, "format", u, 0, "any") /\ Told(u, refused)
              /\ UNCHANGED <<file, wrote, kept>>
         ELSE /\ n \in 0..Size(i)
              /\ file' = [file EXCEPT ![i] = zeroed(@)]
              /\ wrote' = [wrote EXCEPT ![i] = zeroed(@)]
              /\ kept' = [kept EXCEPT ![u] = [b \in Blocks |-> IF b < n THEN "zero" ELSE @[b]]]
              /\ LET ret == IF n = Size(i) THEN 0 ELSE 43
                 IN  /\ disk' = [Seen(u, ext) EXCEPT ![u].prot = IF ret = 0 THEN @ ELSE 1]
                     /\ Reply(ret, "format", u, 0, "any") /\ Told(u, ret)
      /\ UNCHANGED <<iwm, lost>>

(* status 0 and 3: no error for a unit without a disk, even if it changed   *)
StatusUnit(u, ext) ==
  LET ret == IF disk[u].img # NoImage /\ Changed(u, ext) THEN 46 ELSE 0
  IN  /\ "status" \in Commands
      /\ disk' = Seen(u, ext)
      /\ Reply(ret, "status", u, 0, "any") /\ Told(u, ret)
      /\ UNCHANGED <<iwm, file, wrote, lost, kept>>

(* a command that is not implemented: BADCMD whatever was to be reported    *)
OtherCall(u, ext) ==
  /\ "other" \in Commands
  /\ disk' = Seen(u, ext)
  /\ Reply(1, "other", u, 0, "any")
  /\ UNCHANGED <<iwm, file, wrote, lost, kept, fresh>>

Call(u) ==
  \/ \E b \in Blocks, ext, ok \in BOOLEAN :
       ReadBlock(u, b, ext, ok) \/ WriteBlock(u, b, "new", ext, ok)
  \/ \E n \in 0..Cardinality(Blocks), ext \in BOOLEAN : FormatUnit(u, n, ext)
  \/ \E ext \in BOOLEAN : StatusUnit(u, ext) \/ OtherCall(u, ext)

-----------------------------------------------------------------------------
(* Disks change as in Iwm; what was kept goes with them.                    *)

(* A disk that was in a unit has left it, also when it is put back at once. *)
Swap(d) ==
  LET gone == {u \in Units : disk[u].img # NoImage /\ (u = d \/ disk'[u].img # disk[u].img)}
  IN  /\ fresh' = fresh \cup gone
      /\ kept' = [u \in Units |-> IF u = d \/ u \in gone THEN Unknown ELSE kept[u]]
      /\ answer' = NoAnswer

PortInsert(d, i, ok) == InsertDisk(d, i, ok) /\ Swap(d)
PortEject(d, ok) == EjectDisk(d, ok) /\ Swap(d)
Drive == UNCHANGED <<kept, fresh>> /\ answer' = NoAnswer

PortInit ==
  /\ IwmInit
  /\ answer = NoAnswer /\ kept = [u \in Units |-> Unknown] /\ fresh = {}

(* Any program that uses the drives and the units, any host                 *)
PortNext ==
  \/ /\ Drive
     /\ \E ok \in BOOLEAN :
          \/ \E loc \in 8..15 : ReadIwm(loc, ok) \/ \E v \in Bytes : WriteIwm(loc, v, ok)
          \/ \E t \in Tracks : MoveHead(t, ok)
          \/ VblUpdate(ok)
  \/ Drive /\ (IwmReset \/ \E on \in BOOLEAN : WriteC031(on))
  \/ Drive /\ \E d \in Drives : ToggleLock(d)
  \/ \E d \in Drives, ok \in BOOLEAN : PortEject(d, ok) \/ \E i \in Images : PortInsert(d, i, ok)
  \/ \E u \in Units : Call(u)

PortSpec == PortInit /\ [][PortNext]_portVars

-----------------------------------------------------------------------------
(* A block read back is the one the last successful call wrote there, on    *)
(* the disk that is still in the unit.                                      *)
ReadsBack ==
  answer.cmd = "read" /\ answer.ret = 0 /\ kept[answer.unit][answer.block] # "any"
    => answer.data = kept[answer.unit][answer.block]

(* The variables of both modules have their types.                          *)
PortTypeOK ==
  /\ DiskTypeOK
  /\ answer.ret \in Codes /\ answer.block \in Blocks
  /\ kept \in [Units -> [Blocks -> Bytes \cup {"any"}]] /\ fresh \subseteq Units

(* A block read is the block written last (ReadsBack), and drive, track and *)
(* phases stay within the tables of iwm.h.                                  *)
BlocksReadBack == PortTypeOK /\ ReadsBack

(* An extended call gets no block of a disk, and puts none on it, before    *)
(* the guest was told that the disk changed: DISKSW, or an empty drive.     *)
(* ("Profile hard disk supporting extended calls+disk_sw",                  *)
(* smartport.c:262.)                                                        *)
SwitchReported ==
  [][ \A u \in Units, b \in Blocks, ok \in BOOLEAN :
        /\ ReadBlock(u, b, TRUE, ok) \/ WriteBlock(u, b, "new", TRUE, ok)
        /\ answer'.ret = 0
        => u \notin fresh ]_portVars
=============================================================================
