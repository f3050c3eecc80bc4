--------------------------------- MODULE Iwm ---------------------------------
(***************************************************************************)
(* The disk drives of iwm.c: the switches of the IWM ($C0E0-$C0EF and       *)
(* $C031), writing to tracks kept in memory, and what brings those tracks   *)
(* back to the image files of the host (config.c's insert_disk and          *)
(* iwm_eject_disk, iwm_flush_disk_to_unix, the conversion to WOZ).          *)
(*                                                                          *)
(* A track is its last byte.  An image that is not WOZ can only keep tracks *)
(* that decode into sectors: the byte "odd" does not.  A written byte is    *)
(* laid down when the next one arrives or writing ends.                     *)
(***************************************************************************)
EXTENDS Integers, FiniteSets, FiniteSetsExt

CONSTANTS
  Bays,         \* the 3.5" and 5.25" drives: <<35 or 525, number>>
  Units,        \* the SmartPort's drives
  Images,       \* image files, of which
  Compressed,   \*   these are unpacked into memory (raw_data),
  Locked,       \*   these are read only on the host,
  WozImages,    \*   these are in WOZ format
  Tracks,       \* tracks, or blocks, of an image
  SpinDown      \* frames until a motor stops (60)

NoImage == "none"

ASSUME IwmAssumption ==
  /\ NoImage \notin Images
  /\ Tracks \subseteq Nat /\ IsFiniteSet(Tracks) /\ 0 \in Tracks
  /\ Compressed \cup Locked \cup WozImages \subseteq Images
  /\ SpinDown \in Nat \ {0}
  /\ Bays \cap Units = {} /\ \A d \in Bays : d \in {35, 525} \X {0, 1}

Bytes == {"old", "new", "odd", "zero"}
Drives == Bays \cup Units

VARIABLES
  iwm,      \* g_iwm's state, its active write, g_iwm_motor_on and g_slow_525_emul_wr
  disk,     \* Disk of each drive
  file,     \* the image files
  wrote,    \* history: the last byte laid on a track of a file that is kept up to date
  lost      \* history: images the host could not take a track for

diskVars == <<iwm, disk, file, wrote, lost>>

Controller ==
  [ motorOn : BOOLEAN, motorOff : BOOLEAN,    \* spinning; spinning down
    left : 0..SpinDown,                       \* motor_off_vbl_count - g_vbl_count, while it counts
    atOnce : BOOLEAN,                         \* mode bit 2: no delay
    sel35 : BOOLEAN, drive : {0, 1}, q6 : BOOLEAN, q7 : BOOLEAN,
    lit : BOOLEAN,                            \* g_iwm_motor_on
    slow : BOOLEAN,                           \* g_slow_525_emul_wr
    active : BOOLEAN, track : Tracks, val : Bytes ]   \* num_active_writes, wr_qtr_track, write_val

Track == [data : Bytes, dirty : BOOLEAN]
Disk ==
  [ img : Images \cup {NoImage}, prot : 0..2, thru : BOOLEAN,    \* write_through_to_unix
    dirty : BOOLEAN, switched : BOOLEAN,                         \* disk_dirty, just_ejected
    at : Tracks, trk : [Tracks -> Track], woz : BOOLEAN ]

Now == [iwm |-> iwm, disk |-> disk, file |-> file, wrote |-> wrote, lost |-> lost]
Become(m) ==
  /\ iwm' = m.iwm /\ disk' = m.disk /\ file' = m.file /\ wrote' = m.wrote /\ lost' = m.lost

(* iwm_get_dsk.  The drives outside Bays stay empty.                        *)
Current(m) == <<IF m.iwm.sel35 THEN 35 ELSE 525, m.iwm.drive>>
Present(m) == Current(m) \in Bays

-----------------------------------------------------------------------------
(* Back to the file.  "ok" tells whether the host takes what is written.    *)

Clean(trk) == [t \in Tracks |-> [trk[t] EXCEPT !.dirty = FALSE]]

(* iwm_track_to_unix, for the tracks in ts *)
Save(m, d, ts) ==
  LET i == m.disk[d].img
  IN  [m EXCEPT !.file[i] = [t \in Tracks |-> IF t \in ts THEN m.disk[d].trk[t].data ELSE @[t]],
                !.disk[d].trk = [t \in Tracks |-> IF t \in ts THEN [@[t] EXCEPT !.dirty = FALSE] ELSE @[t]]]

(* woz_reparse_woz: the image is made anew from the tracks.  A WOZ file is  *)
(* rewritten; any other image changes its format and is written no more.    *)
Reparse(m, d, ok) ==
  LET i == m.disk[d].img
  IN  IF ~m.disk[d].woz
      THEN [m EXCEPT !.disk[d] = [@ EXCEPT !.trk = Clean(m.disk[d].trk), !.woz = TRUE, !.thru = FALSE],
                     !.lost = @ \cup {i}]
      ELSE [m EXCEPT !.disk[d] = [@ EXCEPT !.trk = Clean(m.disk[d].trk), !.dirty = FALSE],
                     !.lost = IF ok THEN @ ELSE @ \cup {i},
                     !.file[i] = IF ok THEN [t \in Tracks |-> m.disk[d].trk[t].data] ELSE @]

(* iwm_flush_disk_to_unix: the tracks in turn, up to the first that fails   *)
Flush(m, d, ok) ==
  LET k == m.disk[d]
      changed == {t \in Tracks : k.trk[t].dirty}
      bad == {t \in changed : ~ok \/ (k.trk[t].data = "odd" /\ ~k.woz)}
  IN  IF ~k.dirty \/ ~k.thru THEN m
      ELSE IF bad = {} THEN [Save(m, d, changed) EXCEPT !.disk[d].dirty = FALSE]
      ELSE Reparse(Save(m, d, {t \in changed : t < Min(bad)}), d, ok)

(* iwm_flush_cur_disk *)
FlushCurrent(m, ok) == IF Present(m) THEN Flush(m, Current(m), ok) ELSE m

-----------------------------------------------------------------------------
(* Writing                                                                  *)

(* disk_nib_out_raw *)
Lay(m, d, t, v) ==
  [m EXCEPT !.disk[d] = [@ EXCEPT !.trk[t] = [data |-> v, dirty |-> TRUE], !.dirty = TRUE],
            !.wrote[m.disk[d].img][t] = IF m.disk[d].thru THEN v ELSE @]

(* iwm_write_data: the first byte opens a write on the track under the head *)
(* (iwm_start_write); each later one lays down the byte before it.          *)
WriteData(m, d, v) ==
  LET slow == [m EXCEPT !.iwm.slow = IF d[1] = 525 THEN TRUE ELSE @]
  IN  IF m.disk[d].img = NoImage \/ m.disk[d].prot # 0 THEN m
      ELSE IF ~m.iwm.active
      THEN [slow EXCEPT !.iwm.active = TRUE, !.iwm.track = m.disk[d].at, !.iwm.val = v]
      ELSE [Lay(slow, d, m.iwm.track, m.iwm.val) EXCEPT !.iwm.val = v]

(* The track and the byte of a write that ended are not looked at again.    *)
Idle(w) == [w EXCEPT !.active = FALSE, !.track = 0, !.val = "zero"]

(* iwm_write_end *)
WriteEnd(m, d) ==
  IF m.iwm.active THEN [WriteData(m, d, "zero") EXCEPT !.iwm = Idle(@)] ELSE m

(* iwm_move_to_ftrack: an active write goes on where the head arrives       *)
MoveTo(m, d, t, ok) ==
  LET moved == [Flush(m, d, ok) EXCEPT !.disk[d].at = t]
  IN  IF m.iwm.active THEN [moved EXCEPT !.iwm.track = t] ELSE moved

-----------------------------------------------------------------------------
(* iwm_touch_switches                                                       *)

(* Whatever the switch, leaving write mode forgets an active write.         *)
Settle(m) ==
  IF m.iwm.q7 THEN m ELSE [m EXCEPT !.iwm = [Idle(@) EXCEPT !.slow = FALSE]]

(* a variant: each $C0E8 starts the count again                             *)
MotorOffAgain(m, ok) ==
  LET w == m.iwm
      off == IF w.atOnce THEN [w EXCEPT !.motorOn = FALSE, !.motorOff = FALSE, !.left = 0]
             ELSE IF w.motorOn THEN [w EXCEPT !.motorOff = TRUE, !.left = SpinDown] ELSE w
      n == [m EXCEPT !.iwm = off]
      saved == IF w.lit \/ w.slow THEN FlushCurrent(n, ok) ELSE n
  IN  [saved EXCEPT !.iwm.lit = FALSE, !.iwm.slow = FALSE]

MotorOff(m, ok) ==                    \* $C0E8
  LET w == m.iwm
      off == IF w.atOnce THEN [w EXCEPT !.motorOn = FALSE, !.motorOff = FALSE, !.left = 0]
             ELSE IF w.motorOn /\ ~w.motorOff
             THEN [w EXCEPT !.motorOff = TRUE, !.left = SpinDown] ELSE w
      n == [m EXCEPT !.iwm = off]
      saved == IF w.lit \/ w.slow THEN FlushCurrent(n, ok) ELSE n
  IN  [saved EXCEPT !.iwm.lit = FALSE, !.iwm.slow = FALSE]

MotorOn(m) ==                         \* $C0E9
  [m EXCEPT !.iwm.motorOn = TRUE, !.iwm.motorOff = FALSE, !.iwm.left = 0, !.iwm.lit = TRUE]

SelectDrive(m, n, ok) ==              \* $C0EA and $C0EB
  LET saved == IF m.iwm.drive # n THEN FlushCurrent(m, ok) ELSE m
  IN  [saved EXCEPT !.iwm.drive = n]

LeaveWrite(m) ==                      \* $C0EE
  LET ended == IF m.iwm.q7 /\ m.iwm.motorOn /\ Present(m)
               THEN WriteEnd(m, Current(m)) ELSE m
  IN  [ended EXCEPT !.iwm.q7 = FALSE]

Touch(m, loc, ok) ==
  Settle(CASE loc = 8  -> MotorOff(m, ok)
           [] loc = 9  -> MotorOn(m)
           [] loc = 10 -> SelectDrive(m, 0, ok)
           [] loc = 11 -> SelectDrive(m, 1, ok)
           [] loc = 12 -> [m EXCEPT !.iwm.q6 = FALSE]
           [] loc = 13 -> [m EXCEPT !.iwm.q6 = TRUE]
           [] loc = 14 -> LeaveWrite(m)
           [] loc = 15 -> [m EXCEPT !.iwm.q7 = TRUE])

-----------------------------------------------------------------------------
(* Actions of the guest                                                     *)

(* read_iwm.  Data and status change nothing more than the switches do.     *)
ReadIwm(loc, ok) == Become(Touch(Now, loc, ok))

(* write_iwm: a byte for the disk, or with the motor off the mode           *)
WriteIwm(loc, v, ok) ==
  LET m == Touch(Now, loc, ok)
      w == m.iwm
  IN  /\ loc \in {9, 11, 13, 15}
      /\ w.q6 /\ w.q7
      /\ IF ~w.motorOn THEN \E mode \in BOOLEAN : Become([m EXCEPT !.iwm.atOnce = mode])
         ELSE Become(IF Present(m) THEN WriteData(m, Current(m), v) ELSE m)

(* The phases of a 5.25" drive (iwm525_update_phases, iwm525_update_head),  *)
(* the steps and the choice of a side of a 3.5" drive (iwm_do_action35,     *)
(* iwm_read_status35): the head arrives at a neighbouring track.            *)
MoveHead(t, ok) ==
  LET d == Current(Now)
  IN  /\ iwm.motorOn /\ Present(Now) /\ disk[d].img # NoImage
      /\ t \in Tracks \cap {disk[d].at - 1, disk[d].at + 1}
      /\ Become(Settle(MoveTo(Now, d, t, ok)))

(* $C031: "Do not flush disk here"                                          *)
WriteC031(on) ==
  /\ iwm' = [iwm EXCEPT !.sel35 = on]
  /\ UNCHANGED <<disk, file, wrote, lost>>

-----------------------------------------------------------------------------
(* Actions of the host                                                      *)

Blank == [t \in Tracks |-> [data |-> "zero", dirty |-> FALSE]]

(* a variant: what is dirty is forgotten                                    *)
EjectUnsaved(m, d, ok) ==
  IF m.disk[d].img = NoImage THEN m
  ELSE [m EXCEPT !.disk[d] = [@ EXCEPT !.img = NoImage, !.prot = 1, !.thru = FALSE, !.dirty = FALSE,
                                       !.switched = TRUE, !.woz = FALSE, !.trk = Blank]]

(* iwm_eject_disk *)
Eject(m, d, ok) ==
  LET saved == Flush(m, d, ok)
  IN  IF m.disk[d].img = NoImage THEN m
      ELSE [saved EXCEPT !.disk[d] = [@ EXCEPT !.img = NoImage, !.prot = 1, !.thru = FALSE,
                                               !.dirty = FALSE, !.switched = TRUE, !.woz = FALSE,
                                               !.trk = Blank]]

(* iwm_eject_named_disk, for every drive that holds the image               *)
EjectNamed(m, i, ok) ==
  LET holder == {d \in Drives : m.disk[d].img = i}
  IN  IF holder = {} THEN m ELSE Eject(m, CHOOSE d \in holder : TRUE, ok)

(* insert_disk (LoadQuiet, a variant, forgets that a disk changed): what is *)
(* in the drive leaves it, then the image leaves the drive it is in, then   *)
(* its tracks are read.  "DO NOT change dsk->just_ejected"                  *)
LoadQuiet(m, d, i) ==
  [m EXCEPT !.disk[d] = [@ EXCEPT
     !.img = i, !.thru = i \notin Compressed, !.dirty = FALSE, !.woz = i \in WozImages,
     !.prot = IF i \in Locked THEN 2 ELSE IF i \in Compressed THEN 1 ELSE 0,
     !.switched = FALSE, !.trk = [t \in Tracks |-> [data |-> m.file[i][t], dirty |-> FALSE]]]]

Load(m, d, i) ==
  [m EXCEPT !.disk[d] = [@ EXCEPT
     !.img = i, !.thru = i \notin Compressed, !.dirty = FALSE, !.woz = i \in WozImages,
     !.prot = IF i \in Locked THEN 2 ELSE IF i \in Compressed THEN 1 ELSE 0,
     !.trk = [t \in Tracks |-> [data |-> m.file[i][t], dirty |-> FALSE]]]]

(* A write going on when tracks are freed or made ends in a division by     *)
(* zero: the disks change between writes.                                   *)
InsertDisk(d, i, ok) ==
  /\ ~iwm.active
  /\ Become(Load(EjectNamed(Eject(Now, d, ok), i, ok), d, i))

(* from the control panel; for a 3.5" drive also from the guest             *)
EjectDisk(d, ok) ==
  /\ ~iwm.active
  /\ disk[d].img # NoImage
  /\ Become(Eject(Now, d, ok))

(* iwm_toggle_lock *)
ToggleLock(d) ==
  /\ disk[d].img # NoImage /\ disk[d].prot # 2
  /\ disk' = [disk EXCEPT ![d].prot = 1 - @]
  /\ UNCHANGED <<iwm, file, wrote, lost>>

(* iwm_vbl_update *)
VblUpdate(ok) ==
  /\ iwm.motorOn /\ iwm.motorOff
  /\ Become(IF iwm.left > 0 THEN [Now EXCEPT !.iwm.left = @ - 1]
            ELSE [FlushCurrent(Now, ok) EXCEPT !.iwm.motorOn = FALSE, !.iwm.motorOff = FALSE])

(* iwm_reset *)
IwmReset ==
  /\ iwm' = [iwm EXCEPT !.motorOn = FALSE, !.motorOff = FALSE, !.left = 0, !.atOnce = FALSE,
                        !.sel35 = FALSE, !.drive = 0, !.q6 = FALSE, !.q7 = FALSE,
                        !.lit = FALSE, !.active = FALSE, !.track = 0, !.val = "zero"]
  /\ UNCHANGED <<disk, file, wrote, lost>>

-----------------------------------------------------------------------------
(* iwm_init: the drives are empty, the images hold old data                 *)

IwmInit ==
  /\ iwm = [motorOn |-> FALSE, motorOff |-> FALSE, left |-> 0, atOnce |-> FALSE,
            sel35 |-> FALSE, drive |-> 0, q6 |-> FALSE, q7 |-> FALSE, lit |-> FALSE,
            slow |-> FALSE, active |-> FALSE, track |-> 0, val |-> "zero"]
  /\ disk = [d \in Drives |-> [img |-> NoImage, prot |-> 1, thru |-> FALSE, dirty |-> FALSE,
                               switched |-> FALSE, at |-> 0, trk |-> Blank, woz |-> FALSE]]
  /\ file = [i \in Images |-> [t \in Tracks |-> "old"]]
  /\ wrote = file
  /\ lost = {}

(* What the registers, the drives and the images hold.  An image is in at   *)
(* most one drive (insert_disk ejects it from any other), only one that is  *)
(* kept up to date counts as dirty at an eject, and only a track of a dirty *)
(* disk is dirty.                                                           *)
DiskTypeOK ==
  /\ iwm \in Controller /\ disk \in [Drives -> Disk]
  /\ file \in [Images -> [Tracks -> Bytes]] /\ wrote \in [Images -> [Tracks -> Bytes]]
  /\ lost \subseteq Images
  /\ \A d, e \in Drives : disk[d].img = disk[e].img /\ disk[d].img # NoImage => d = e
  /\ \A d \in Bays, t \in Tracks : disk[d].trk[t].dirty => disk[d].dirty

(* A byte laid on a track of an image that is kept up to date is in the     *)
(* file, or still on a dirty track of the drive that holds the image, from  *)
(* where a flush takes it to the file; else the host refused the image once *)
(* or it was taken out of write-through because a track did not decode.     *)
NothingLost ==
  \A i \in Images \ lost, t \in Tracks :
    wrote[i][t] # file[i][t] =>
      \E d \in Bays : /\ disk[d].img = i /\ disk[d].thru /\ disk[d].dirty
                     /\ disk[d].trk[t] = [data |-> wrote[i][t], dirty |-> TRUE]

(* A disk that waits to be written back is in the selected drive while its  *)
(* motor turns, so that the motor's stop or the next choice of a drive      *)
(* saves it.                                                                *)
Unminded(d) ==
  /\ disk[d].dirty /\ disk[d].thru
  /\ ~(d = <<IF iwm.sel35 THEN 35 ELSE 525, iwm.drive>> /\ iwm.motorOn)

(* Only $C031 and a reset turn away from a disk that is not saved           *)
(* (moremem.c does not flush there, iwm_reset clears the switches).         *)
KeptInMind ==
  [][(\E on \in BOOLEAN : WriteC031(on)) \/ IwmReset
     \/ \A d \in Bays : Unminded(d)' => Unminded(d)]_diskVars

(* The frame handler stops a motor that was switched off, however often the *)
(* program touches $C0E8 meanwhile, and no other step forgets a disk.       *)
SpinDownSaves == KeptInMind /\ (iwm.motorOff ~> ~iwm.motorOff)
=============================================================================
