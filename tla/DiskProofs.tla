----------------------------- MODULE DiskProofs -----------------------------
(***************************************************************************)
(* What holds of the drives and the units for every set of images, tracks   *)
(* and drives, any program and any answers of the host.                     *)
(*                                                                          *)
(* The functions of iwm.c are operators on a record of the drives' state.   *)
(* The proof follows them: Sound(m) is what every one of them keeps,        *)
(* Keeps(m, n) says that n follows from m by functions that leave the units *)
(* alone and forget no disk, and it composes.                               *)
(***************************************************************************)
EXTENDS SmartPort, TLAPS

State ==
  [ iwm : Controller, disk : [Drives -> Disk], file : [Images -> [Tracks -> Bytes]],
    wrote : [Images -> [Tracks -> Bytes]], lost : SUBSET Images ]

(* An image is in one drive at most.                                        *)
Alone(m) ==
  \A d, e \in Drives : m.disk[d].img = m.disk[e].img /\ m.disk[d].img # NoImage => d = e

(* Only the disk of a bay waits to be saved, with its dirty tracks, and they *)
(* hold what was written last unless the host refused the image once.       *)
DriveOK(m, d) ==
  LET k == m.disk[d]
  IN  /\ k.dirty => d \in Bays /\ k.img # NoImage
      /\ \A t \in Tracks : k.trk[t].dirty =>
           /\ k.dirty
           /\ k.thru /\ k.img \notin m.lost => k.trk[t].data = m.wrote[k.img][t]

(* What is missing in a file is on a dirty track.                           *)
ImageOK(m, i) ==
  \A t \in Tracks : m.wrote[i][t] # m.file[i][t] =>
    \E d \in Bays : m.disk[d].img = i /\ m.disk[d].thru /\ m.disk[d].trk[t].dirty

(* A motor that stops at once is flushed when it stops: its light is on.    *)
LitOK(m) == m.iwm.motorOn /\ m.iwm.atOnce => m.iwm.lit

(* What every function of iwm.c keeps                                       *)
Sound(m) ==
  /\ m \in State /\ Alone(m) /\ LitOK(m)
  /\ \A d \in Drives : DriveOK(m, d)
  /\ \A i \in Images \ m.lost : ImageOK(m, i)

(* The units and their files are as before.                                 *)
Untouched(m, n) ==
  \A u \in Units : /\ n.disk[u] = m.disk[u]
                   /\ m.disk[u].img # NoImage => n.file[m.disk[u].img] = m.file[m.disk[u].img]

(* Unminded of Iwm, of the record                                           *)
Forgotten(m, d) ==
  /\ m.disk[d].dirty /\ m.disk[d].thru
  /\ ~(d = Current(m) /\ m.iwm.motorOn)

(* A function that leaves the units alone and forgets no disk               *)
Keeps(m, n) ==
  /\ Sound(n) /\ Untouched(m, n)
  /\ \A d \in Bays : Forgotten(n, d) => Forgotten(m, d)

(* The SmartPort's own variables have their types.                          *)
PortInv ==
  /\ answer.ret \in Codes /\ answer.block \in Blocks
  /\ kept \in [Units -> [Blocks -> Bytes \cup {"any"}]] /\ fresh \subseteq Units
(* Block b of the unit is v: in the file, where the disk begins, or in the  *)
(* memory the file was unpacked to.                                         *)
Holds(m, u, b, v) ==
  LET k == m.disk[u]
  IN  /\ k.img # NoImage
      /\ IF k.thru THEN Start[k.img] + b \in Tracks => m.file[k.img][Start[k.img] + b] = v
         ELSE k.trk[b].data = v
(* A unit's disk is written through unless it was unpacked into memory.     *)
UnitsOK(m) ==
  \A u \in Units : m.disk[u].img # NoImage => (m.disk[u].thru <=> m.disk[u].img \notin Compressed)
(* What a call kept is there.                                               *)
KeptOK == \A u \in Units, b \in Blocks : kept[u][b] # "any" => Holds(Now, u, b, kept[u][b])
(* What the guest does not know of is still to be reported.                 *)
FreshOK == \A u \in fresh : disk[u].switched
(* The inductive invariant                                                  *)
IInv == Sound(Now) /\ PortInv /\ UnitsOK(Now) /\ KeptOK

-----------------------------------------------------------------------------

(* What a drive and its image become, the rest staying                      *)
Become1(m, d, k, f, l) ==
  [ iwm |-> m.iwm, disk |-> [m.disk EXCEPT ![d] = k],
    file |-> [m.file EXCEPT ![m.disk[d].img] = f], wrote |-> m.wrote, lost |-> l ]

(* A drive with other tracks                                                *)
WithTracks(k, trk) == [k EXCEPT !.trk = trk]

(* Writing tracks to the file (iwm_flush_disk_to_unix's loop): those tracks *)
(* are clean, the file has them, and nothing else changes.                  *)
LEMMA SaveBecomes ==
  ASSUME NEW m \in State, NEW d \in Drives, m.disk[d].img \in Images, NEW ts \in SUBSET Tracks
  PROVE  \E trk \in [Tracks -> Track], f \in [Tracks -> Bytes] :
           /\ Save(m, d, ts) = Become1(m, d, WithTracks(m.disk[d], trk), f, m.lost)
           /\ \A t \in Tracks : trk[t].dirty => t \notin ts /\ m.disk[d].trk[t].dirty
           /\ \A t \in Tracks : f[t] = IF t \in ts THEN m.disk[d].trk[t].data
                                      ELSE m.file[m.disk[d].img][t]
<1> DEFINE trk == [t \in Tracks |-> IF t \in ts THEN [m.disk[d].trk[t] EXCEPT !.dirty = FALSE]
                                   ELSE m.disk[d].trk[t]]
           f == [t \in Tracks |-> IF t \in ts THEN m.disk[d].trk[t].data
                                 ELSE m.file[m.disk[d].img][t]]
<1>1. m.disk[d] \in Disk /\ m.file \in [Images -> [Tracks -> Bytes]]
  BY DEF State
<1>2. trk \in [Tracks -> Track]
  BY <1>1 DEF Disk, Track
<1>3. f \in [Tracks -> Bytes]
  BY <1>1 DEF Disk, Track
<1>4. Save(m, d, ts) = Become1(m, d, WithTracks(m.disk[d], trk), f, m.lost)
  <2>1. Save(m, d, ts) = [m EXCEPT !.file = [m.file EXCEPT ![m.disk[d].img] = f],
                                   !.disk = [m.disk EXCEPT ![d] = [m.disk[d] EXCEPT !.trk = trk]]]
    BY <1>1 DEF Save, State, Disk
  <2> HIDE DEF f, trk
  <2> QED  BY <2>1 DEF Become1, State, WithTracks
<1>5. \A t \in Tracks : trk[t].dirty => t \notin ts /\ m.disk[d].trk[t].dirty
  BY <1>1 DEF Disk, Track
<1>6. \A t \in Tracks : f[t] = IF t \in ts THEN m.disk[d].trk[t].data ELSE m.file[m.disk[d].img][t]
  OBVIOUS
<1> QED
  <2> HIDE DEF f, trk
  <2> QED  BY <1>2, <1>3, <1>4, <1>5, <1>6

(* Tracks marked clean are tracks, and clean.                               *)
LEMMA CleanClean ==
  ASSUME NEW k \in Disk
  PROVE  Clean(k.trk) \in [Tracks -> Track] /\ \A t \in Tracks : ~Clean(k.trk)[t].dirty
BY DEF Disk, Track, Clean

(* A track that cannot be written turns the disk into another one without   *)
(* dirty tracks, or its image is counted as lost.                           *)
LEMMA ReparseBecomes ==
  ASSUME NEW m \in State, NEW d \in Drives, m.disk[d].img \in Images, NEW ok \in BOOLEAN
  PROVE  \E k \in Disk, f \in [Tracks -> Bytes], l \in SUBSET Images :
           /\ Reparse(m, d, ok) = Become1(m, d, k, f, l)
           /\ \A t \in Tracks : ~k.trk[t].dirty
           /\ k.img = m.disk[d].img /\ k.prot = m.disk[d].prot /\ k.switched = m.disk[d].switched
           /\ ~(k.thru /\ k.dirty)
           /\ k.dirty => m.disk[d].dirty
           /\ l \in {m.lost, m.lost \cup {m.disk[d].img}}
           /\ ~ok \/ ~m.disk[d].woz => m.disk[d].img \in l
<1> DEFINE i == m.disk[d].img
           data == [t \in Tracks |-> m.disk[d].trk[t].data]
           clean == Clean(m.disk[d].trk)
<1>1. m.disk[d] \in Disk /\ m.file[i] \in [Tracks -> Bytes] /\ i \in Images /\ m.lost \in SUBSET Images
      /\ m.disk \in [Drives -> Disk] /\ m.file \in [Images -> [Tracks -> Bytes]]
  BY DEF State
<1>2. clean \in [Tracks -> Track] /\ \A t \in Tracks : ~clean[t].dirty
  BY <1>1, CleanClean
<1>4. data \in [Tracks -> Bytes]
  BY <1>1 DEF Disk, Track
<1>6. CASE ~m.disk[d].woz
  <2> DEFINE k == [m.disk[d] EXCEPT !.trk = clean, !.woz = TRUE, !.thru = FALSE]
  <2>1. Reparse(m, d, ok) = [m EXCEPT !.disk = [m.disk EXCEPT ![d] = k], !.lost = m.lost \cup {i}]
    BY <1>6, <1>1 DEF Reparse, State, Disk
  <2>3. k \in Disk /\ (\A t \in Tracks : ~k.trk[t].dirty) /\ k.img = i /\ ~k.thru
        /\ k.prot = m.disk[d].prot /\ k.switched = m.disk[d].switched /\ k.dirty = m.disk[d].dirty
    <3> HIDE DEF clean
    <3> QED  BY <1>1, <1>2 DEF Disk
  <2>4. m.file = [m.file EXCEPT ![i] = m.file[i]]
    BY <1>1
  <2>5. Reparse(m, d, ok) = Become1(m, d, k, m.file[i], m.lost \cup {i})
    <3> HIDE DEF k
    <3> QED  BY <2>1, <2>4 DEF Become1, State
  <2> HIDE DEF k
  <2> QED  BY <2>3, <2>5, <1>1
<1>7. CASE m.disk[d].woz
  <2> DEFINE k == [m.disk[d] EXCEPT !.trk = clean, !.dirty = FALSE]
             f == IF ok THEN data ELSE m.file[i]
             l == IF ok THEN m.lost ELSE m.lost \cup {i}
  <2>1. Reparse(m, d, ok) = [m EXCEPT !.disk = [m.disk EXCEPT ![d] = k], !.lost = l,
                                      !.file = [m.file EXCEPT ![i] = f]]
    BY <1>7, <1>1 DEF Reparse, State, Disk
  <2>3. k \in Disk /\ (\A t \in Tracks : ~k.trk[t].dirty) /\ k.img = i /\ ~k.dirty
        /\ k.prot = m.disk[d].prot /\ k.switched = m.disk[d].switched
    <3> HIDE DEF clean
    <3> QED  BY <1>1, <1>2 DEF Disk
  <2>4. f \in [Tracks -> Bytes] /\ l \in SUBSET Images
        /\ l \in {m.lost, m.lost \cup {m.disk[d].img}} /\ (~ok => i \in l)
    <3> HIDE DEF data
    <3> QED  BY <1>1, <1>4
  <2>5. Reparse(m, d, ok) = Become1(m, d, k, f, l)
    <3> HIDE DEF k, f, l
    <3> QED  BY <2>1 DEF Become1, State
  <2> HIDE DEF k, f, l
  <2> QED  BY <2>3, <2>5, <2>4, <1>1, <1>7
<1> QED  BY <1>6, <1>7

-----------------------------------------------------------------------------
(* What a flush of drive d does, however it ends                            *)
Flushed(m, n, d) ==
  /\ Sound(n) /\ n.iwm = m.iwm /\ n.wrote = m.wrote
  /\ \A e \in Drives : e # d => n.disk[e] = m.disk[e]
  /\ n.disk[d].img = m.disk[d].img /\ n.disk[d].prot = m.disk[d].prot
  /\ n.disk[d].switched = m.disk[d].switched
  /\ ~(n.disk[d].dirty /\ n.disk[d].thru)
  /\ \A j \in Images : j # m.disk[d].img => n.file[j] = m.file[j]
  /\ d \in Units => n = m

(* The fields of the state after one drive and its image change             *)
LEMMA Become1Type ==
  ASSUME NEW m \in State, NEW d \in Drives, m.disk[d].img \in Images,
         NEW k \in Disk, NEW f \in [Tracks -> Bytes], NEW l \in SUBSET Images,
         NEW n, n = Become1(m, d, k, f, l)
  PROVE  /\ n \in State /\ n.iwm = m.iwm /\ n.wrote = m.wrote /\ n.lost = l
         /\ n.disk[d] = k /\ \A e \in Drives : e # d => n.disk[e] = m.disk[e]
         /\ n.file[m.disk[d].img] = f
         /\ \A j \in Images : j # m.disk[d].img => n.file[j] = m.file[j]
<1>1. m.disk \in [Drives -> Disk] /\ m.file \in [Images -> [Tracks -> Bytes]]
      /\ m.iwm \in Controller /\ m.wrote \in [Images -> [Tracks -> Bytes]]
  BY DEF State
<1>2. [m.disk EXCEPT ![d] = k] \in [Drives -> Disk]
      /\ [m.file EXCEPT ![m.disk[d].img] = f] \in [Images -> [Tracks -> Bytes]]
  BY <1>1
<1>3. n \in State
  BY <1>1, <1>2 DEF Become1, State
<1>4. n.iwm = m.iwm /\ n.wrote = m.wrote /\ n.lost = l
      /\ n.disk = [m.disk EXCEPT ![d] = k] /\ n.file = [m.file EXCEPT ![m.disk[d].img] = f]
  BY DEF Become1
<1> QED  BY <1>1, <1>3, <1>4

(* One bay and its image change soundly when what is missing in the file is *)
(* on a dirty track.                                                        *)
LEMMA Become1Sound ==
  ASSUME NEW m, Sound(m), NEW d \in Bays, m.disk[d].img \in Images,
         NEW k \in Disk, NEW f \in [Tracks -> Bytes], NEW l \in SUBSET Images,
         NEW n, n = Become1(m, d, k, f, l),
         k.img = m.disk[d].img, l \in {m.lost, m.lost \cup {k.img}},
         \A t \in Tracks : k.trk[t].dirty =>
           k.dirty /\ (k.thru /\ k.img \notin l => k.trk[t].data = m.wrote[k.img][t]),
         k.img \notin l =>
           \A t \in Tracks : m.wrote[k.img][t] # f[t] => k.thru /\ k.trk[t].dirty
  PROVE  Sound(n)
<1>1. m \in State /\ d \in Drives
  BY DEF Sound, Drives
<1>2. /\ n \in State /\ n.iwm = m.iwm /\ n.wrote = m.wrote /\ n.lost = l
      /\ n.disk[d] = k /\ \A e \in Drives : e # d => n.disk[e] = m.disk[e]
      /\ n.file[k.img] = f
      /\ \A j \in Images : j # k.img => n.file[j] = m.file[j]
  BY <1>1, Become1Type
<1>3. Alone(n)
  BY <1>2, <1>1 DEF Alone, Sound
<1>4. LitOK(n)
  BY <1>2 DEF LitOK, Sound
<1>5. ASSUME NEW e \in Drives PROVE DriveOK(n, e)
  <2>1. CASE e = d
    BY <1>2, <2>1, IwmAssumption, SMTT(30) DEF DriveOK
  <2>2. CASE e # d
    <3>1. n.disk[e] = m.disk[e] /\ DriveOK(m, e)
      BY <2>2, <1>2 DEF Sound
    <3> QED  BY <3>1, <1>2 DEF DriveOK
  <2> QED  BY <2>1, <2>2
<1>6. ASSUME NEW j \in Images \ n.lost PROVE ImageOK(n, j)
  <2>1. CASE j = k.img
    BY <2>1, <1>2 DEF ImageOK
  <2>2. CASE j # k.img
    <3>1. ImageOK(m, j)
      BY <2>2, <1>2 DEF Sound
    <3>2. \A e \in Bays : m.disk[e].img = j => n.disk[e] = m.disk[e]
      BY <2>2, <1>2 DEF Drives
    <3> QED  BY <3>1, <3>2, <2>2, <1>2 DEF ImageOK
  <2> QED  BY <2>1, <2>2
<1> QED  BY <1>2, <1>3, <1>4, <1>5, <1>6 DEF Sound

(* Flush: nothing to save, all saved, or one track refused                  *)
LEMMA FlushWorks ==
  ASSUME NEW m, Sound(m), NEW d \in Drives, NEW ok \in BOOLEAN
  PROVE  Flushed(m, Flush(m, d, ok), d)
<1> DEFINE k == m.disk[d]
           i == m.disk[d].img
           changed == {t \in Tracks : k.trk[t].dirty}
           bad == {t \in changed : ~ok \/ (k.trk[t].data = "odd" /\ ~k.woz)}
           n == Flush(m, d, ok)
<1>1. m \in State /\ k \in Disk /\ DriveOK(m, d) /\ Alone(m)
  BY DEF Sound, State
<1>2. CASE ~k.dirty \/ ~k.thru
  <2>1. n = m
    BY <1>2 DEF Flush
  <2> QED  BY <2>1, <1>2 DEF Flushed
<1>3. CASE k.dirty /\ k.thru /\ bad = {}
  <2>1. d \in Bays /\ i \in Images /\ i # NoImage /\ d \notin Units
    BY <1>1, <1>3, IwmAssumption DEF DriveOK, Disk
  <2>2. PICK trk \in [Tracks -> Track], f \in [Tracks -> Bytes] :
           /\ Save(m, d, changed) = Become1(m, d, WithTracks(k, trk), f, m.lost)
           /\ \A t \in Tracks : trk[t].dirty => t \notin changed /\ k.trk[t].dirty
           /\ \A t \in Tracks : f[t] = IF t \in changed THEN k.trk[t].data ELSE m.file[i][t]
    <3>1. changed \in SUBSET Tracks
      OBVIOUS
    <3> HIDE DEF changed
    <3> QED  BY <1>1, <2>1, <3>1, SaveBecomes
  <2> DEFINE kk == [k EXCEPT !.trk = trk, !.dirty = FALSE]
  <2>3. n = [Save(m, d, changed) EXCEPT !.disk[d].dirty = FALSE]
    BY <1>3 DEF Flush
  <2>4. n = Become1(m, d, kk, f, m.lost)
    <3>1. WithTracks(k, trk) \in Disk
      BY <1>1 DEF Disk, WithTracks
    <3>2. [WithTracks(k, trk) EXCEPT !.dirty = FALSE] = kk
      BY <1>1 DEF Disk, WithTracks
    <3>3. m.disk \in [Drives -> Disk]
      BY <1>1 DEF State
    <3> DEFINE k1 == WithTracks(k, trk)
               s == Save(m, d, changed)
    <3>4. s.disk = [m.disk EXCEPT ![d] = k1]
      BY <2>2 DEF Become1
    <3>5. s.disk[d] = k1
      BY <3>1, <3>3, <3>4
    <3>6. n = [s EXCEPT !.disk = [s.disk EXCEPT ![d] = kk]]
      <4> HIDE DEF k1, k, s, changed
      <4> QED  BY <2>3, <3>5, <3>2 DEF k1, s
    <3>7. [s.disk EXCEPT ![d] = kk] = [m.disk EXCEPT ![d] = kk]
      BY <3>3, <3>4
    <3> HIDE DEF k, changed, n, kk
    <3> QED  BY <2>2, <3>6, <3>7 DEF Become1
  <2>5. kk \in Disk /\ kk.img = i /\ kk.trk = trk /\ ~kk.dirty /\ kk.prot = k.prot /\ kk.switched = k.switched
    BY <1>1 DEF Disk
  <2>6. \A t \in Tracks : ~kk.trk[t].dirty
    BY <2>5, <2>2, <1>1 DEF Disk, Track
  <2>7. i \notin m.lost => \A t \in Tracks : m.wrote[i][t] = f[t]
    <3> SUFFICES ASSUME i \notin m.lost, NEW t \in Tracks PROVE m.wrote[i][t] = f[t]
      OBVIOUS
    <3>1. CASE t \in changed
      BY <3>1, <2>2, <1>1, <1>3 DEF DriveOK
    <3>2. CASE t \notin changed
      <4>1. ImageOK(m, i)
        BY <2>1 DEF Sound
      <4>2. \A e \in Bays : m.disk[e].img = i => e = d
        BY <1>1, <2>1 DEF Alone, Drives
      <4>3. m.wrote[i][t] = m.file[i][t]
        BY <4>1, <4>2, <3>2 DEF ImageOK
      <4> QED  BY <4>3, <3>2, <2>2
    <3> QED  BY <3>1, <3>2
  <2> HIDE DEF kk, n, k, changed, bad
  <2>8. m.lost \in SUBSET Images
    BY <1>1 DEF State
  <2>9. Sound(n)
    BY <2>1, <2>4, <2>5, <2>6, <2>7, <2>8, Become1Sound
  <2>10. /\ n.iwm = m.iwm /\ n.wrote = m.wrote
         /\ n.disk[d] = kk /\ \A e \in Drives : e # d => n.disk[e] = m.disk[e]
         /\ \A j \in Images : j # m.disk[d].img => n.file[j] = m.file[j]
    BY <1>1, <2>1, <2>4, <2>5, <2>8, Become1Type
  <2> QED
    <3> USE DEF k, n
    <3> QED  BY <2>1, <2>5, <2>9, <2>10 DEF Flushed
<1>4. CASE k.dirty /\ k.thru /\ bad # {}
  <2>1. d \in Bays /\ i \in Images /\ i # NoImage /\ d \notin Units
    BY <1>1, <1>4, IwmAssumption DEF DriveOK, Disk
  <2> DEFINE ts == {t \in changed : t < Min(bad)}
             s == Save(m, d, ts)
  <2>2. n = Reparse(s, d, ok)
    BY <1>4 DEF Flush
  <2>3. ~ok \/ ~k.woz
    BY <1>4
  <2> HIDE DEF bad
  <2>4. PICK trk \in [Tracks -> Track], f \in [Tracks -> Bytes] :
           s = Become1(m, d, WithTracks(k, trk), f, m.lost)
    <3>1. m \in State /\ m.disk[d].img \in Images
      BY <1>1, <2>1
    <3>2. ASSUME NEW tt \in SUBSET Tracks
          PROVE  \E trk \in [Tracks -> Track], f \in [Tracks -> Bytes] :
                   Save(m, d, tt) = Become1(m, d, WithTracks(m.disk[d], trk), f, m.lost)
      <4>1. PICK trk \in [Tracks -> Track], f \in [Tracks -> Bytes] :
              /\ Save(m, d, tt) = Become1(m, d, WithTracks(m.disk[d], trk), f, m.lost)
              /\ \A t \in Tracks : trk[t].dirty => t \notin tt /\ m.disk[d].trk[t].dirty
              /\ \A t \in Tracks : f[t] = IF t \in tt THEN m.disk[d].trk[t].data
                                         ELSE m.file[m.disk[d].img][t]
        <5> HIDE DEF ts, s, n, changed, k, i
        <5> QED  BY SMTT(120), <3>1, SaveBecomes
      <4> QED  BY <4>1
    <3>3. ts \in SUBSET Tracks
      OBVIOUS
    <3> HIDE DEF ts
    <3> QED  BY <3>2, <3>3
  <2>5. WithTracks(k, trk) \in Disk /\ WithTracks(k, trk).img = i
        /\ WithTracks(k, trk).prot = k.prot /\ WithTracks(k, trk).switched = k.switched
        /\ WithTracks(k, trk).woz = k.woz
    BY <1>1 DEF Disk, WithTracks
  <2>6. m.lost \in SUBSET Images
    BY <1>1 DEF State
  <2>7. /\ s \in State /\ s.iwm = m.iwm /\ s.wrote = m.wrote /\ s.lost = m.lost
        /\ s.disk[d] = WithTracks(k, trk) /\ \A e \in Drives : e # d => s.disk[e] = m.disk[e]
        /\ s.file[i] = f
        /\ \A j \in Images : j # i => s.file[j] = m.file[j]
    <3> HIDE DEF s, k
    <3> QED  BY <1>1, <2>1, <2>4, <2>5, <2>6, Become1Type
  <2>8. s.disk[d].img = i /\ s.disk[d].prot = k.prot /\ s.disk[d].switched = k.switched
        /\ s.disk[d].woz = k.woz
    BY <2>7, <2>5
  <2> HIDE DEF s, n, changed
  <2>9. PICK kk \in Disk, g \in [Tracks -> Bytes], l \in SUBSET Images :
           /\ n = Become1(s, d, kk, g, l)
           /\ \A t \in Tracks : ~kk.trk[t].dirty
           /\ kk.img = i /\ kk.prot = k.prot /\ kk.switched = k.switched
           /\ ~(kk.thru /\ kk.dirty)
           /\ l \in {m.lost, m.lost \cup {i}} /\ i \in l
    <3>1. \E kk \in Disk, g \in [Tracks -> Bytes], l \in SUBSET Images :
           /\ Reparse(s, d, ok) = Become1(s, d, kk, g, l)
           /\ \A t \in Tracks : ~kk.trk[t].dirty
           /\ kk.img = s.disk[d].img /\ kk.prot = s.disk[d].prot /\ kk.switched = s.disk[d].switched
           /\ ~(kk.thru /\ kk.dirty)
           /\ kk.dirty => s.disk[d].dirty
           /\ l \in {s.lost, s.lost \cup {s.disk[d].img}}
           /\ ~ok \/ ~s.disk[d].woz => s.disk[d].img \in l
      BY <2>1, <2>7, <2>8, ReparseBecomes, SMTT(30)
    <3> QED  BY <3>1, <2>1, <2>2, <2>3, <2>7, <2>8
  <2>10. n = Become1(m, d, kk, g, l)
    <3>1. m.disk \in [Drives -> Disk] /\ m.file \in [Images -> [Tracks -> Bytes]]
      BY <1>1 DEF State
    <3>2. s.disk = [m.disk EXCEPT ![d] = WithTracks(k, trk)] /\ s.file = [m.file EXCEPT ![i] = f]
      BY <2>4 DEF Become1
    <3>3. [s.disk EXCEPT ![d] = kk] = [m.disk EXCEPT ![d] = kk]
          /\ [s.file EXCEPT ![i] = g] = [m.file EXCEPT ![i] = g]
      BY <3>1, <3>2
    <3> QED  BY <2>9, <2>8, <2>7, <3>3 DEF Become1
  <2>11. Sound(n)
    BY <2>1, <2>9, <2>10, Become1Sound
  <2>12. /\ n.iwm = m.iwm /\ n.wrote = m.wrote
         /\ n.disk[d] = kk /\ \A e \in Drives : e # d => n.disk[e] = m.disk[e]
         /\ \A j \in Images : j # m.disk[d].img => n.file[j] = m.file[j]
    BY <1>1, <2>1, <2>10, Become1Type
  <2> QED  BY <2>1, <2>9, <2>11, <2>12 DEF Flushed, n
<1> QED  BY <1>2, <1>3, <1>4

(* Functions called one after the other                                     *)
LEMMA KeepsComposes ==
  ASSUME NEW m, NEW n, NEW o, Keeps(m, n), Keeps(n, o)
  PROVE  Keeps(m, o)
BY DEF Keeps, Untouched

(* Doing nothing                                                            *)
LEMMA KeepsItself ==
  ASSUME NEW m, Sound(m)
  PROVE  Keeps(m, m)
BY DEF Keeps, Untouched

(* A flush leaves the units alone and forgets no disk.                      *)
LEMMA FlushKeeps ==
  ASSUME NEW m, Sound(m), NEW d \in Drives, NEW ok \in BOOLEAN
  PROVE  Keeps(m, Flush(m, d, ok))
<1> DEFINE n == Flush(m, d, ok)
<1>1. Flushed(m, n, d)
  BY FlushWorks
<1> HIDE DEF n
<1>2. m \in State /\ Alone(m)
  BY DEF Sound
<1>3. ASSUME NEW u \in Units
      PROVE  /\ n.disk[u] = m.disk[u]
             /\ m.disk[u].img # NoImage => n.file[m.disk[u].img] = m.file[m.disk[u].img]
  <2>1. CASE u = d
    BY <2>1, <1>1 DEF Flushed
  <2>2. CASE u # d
    <3>1. m.disk[u].img # NoImage => m.disk[u].img \in Images /\ m.disk[u].img # m.disk[d].img
      BY <2>2, <1>2 DEF Alone, Drives, State, Disk
    <3> QED  BY <2>2, <3>1, <1>1 DEF Flushed, Drives
  <2> QED  BY <2>1, <2>2
<1>4. ASSUME NEW e \in Bays, Forgotten(n, e) PROVE Forgotten(m, e)
  BY <1>4, <1>1 DEF Forgotten, Flushed, Drives, Current
<1> QED  BY <1>1, <1>3, <1>4 DEF Keeps, Untouched, Flushed, n

(* The state with another controller                                        *)
WithIwm(m, w) == [m EXCEPT !.iwm = w]
(* The same drive is selected and its motor is as it was.                   *)
Steady(w, x) ==
  /\ x.sel35 = w.sel35 /\ x.drive = w.drive /\ x.motorOn = w.motorOn
  /\ x.atOnce = w.atOnce /\ x.lit = w.lit

(* Only the controller changes.                                             *)
LEMMA IwmFrame ==
  ASSUME NEW m \in State, NEW w \in Controller
  PROVE  /\ WithIwm(m, w) \in State /\ WithIwm(m, w).iwm = w
         /\ WithIwm(m, w).disk = m.disk /\ WithIwm(m, w).file = m.file
         /\ WithIwm(m, w).wrote = m.wrote /\ WithIwm(m, w).lost = m.lost
BY DEF State, WithIwm

(* The controller decides nothing of what is saved but the light.           *)
LEMMA IwmSound ==
  ASSUME NEW m, Sound(m), NEW w \in Controller, w.motorOn /\ w.atOnce => w.lit
  PROVE  Sound(WithIwm(m, w)) /\ Untouched(m, WithIwm(m, w))
<1> DEFINE n == WithIwm(m, w)
<1>1. /\ n \in State /\ n.iwm = w /\ n.disk = m.disk /\ n.file = m.file
      /\ n.wrote = m.wrote /\ n.lost = m.lost
  BY IwmFrame DEF Sound
<1> HIDE DEF n
<1>2. Sound(n) /\ Untouched(m, n)
  BY <1>1 DEF Sound, Alone, LitOK, DriveOK, ImageOK, Untouched
<1> QED  BY <1>2 DEF n

(* A controller that keeps the drive and its motor forgets no disk.         *)
LEMMA IwmKeeps ==
  ASSUME NEW m, Sound(m), NEW w \in Controller, Steady(m.iwm, w)
  PROVE  Keeps(m, WithIwm(m, w))
<1>1. Sound(WithIwm(m, w)) /\ Untouched(m, WithIwm(m, w))
  BY IwmSound DEF Sound, LitOK, Steady
<1>2. WithIwm(m, w).disk = m.disk /\ WithIwm(m, w).iwm = w
  BY IwmFrame DEF Sound
<1> QED  BY <1>1, <1>2 DEF Keeps, Forgotten, Current, Steady

(* Laying a byte on the track of a disk that turns in the selected drive    *)
LEMMA LayKeeps ==
  ASSUME NEW m, Sound(m), NEW d \in Bays, NEW t \in Tracks, NEW v \in Bytes,
         m.disk[d].img # NoImage, d = Current(m), m.iwm.motorOn
  PROVE  /\ Keeps(m, Lay(m, d, t, v)) /\ Lay(m, d, t, v).iwm = m.iwm
<1> DEFINE i == m.disk[d].img
           k == [m.disk[d] EXCEPT !.trk[t] = [data |-> v, dirty |-> TRUE], !.dirty = TRUE]
           w == [m.wrote EXCEPT ![i][t] = IF m.disk[d].thru THEN v ELSE @]
           n == Lay(m, d, t, v)
<1>1. m \in State /\ d \in Drives /\ d \notin Units /\ i \in Images /\ m.disk[d] \in Disk
  BY IwmAssumption DEF Sound, Drives, State, Disk
<1>2. n = [m EXCEPT !.disk = [m.disk EXCEPT ![d] = k], !.wrote = w]
  BY <1>1 DEF Lay, State, Disk
<1>3. /\ k \in Disk /\ k.img = i /\ k.thru = m.disk[d].thru /\ k.dirty
      /\ k.trk[t].data = v /\ k.trk[t].dirty
      /\ \A s \in Tracks : s # t => k.trk[s] = m.disk[d].trk[s]
  BY <1>1 DEF Disk, Track
<1>4. /\ w \in [Images -> [Tracks -> Bytes]]
      /\ \A j \in Images, s \in Tracks : j # i \/ s # t => w[j][s] = m.wrote[j][s]
      /\ w[i][t] = IF m.disk[d].thru THEN v ELSE m.wrote[i][t]
  BY <1>1 DEF State
<1> HIDE DEF k, w, n
<1>5. n.disk = [m.disk EXCEPT ![d] = k] /\ n.wrote = w /\ n.iwm = m.iwm /\ n.file = m.file
      /\ n.lost = m.lost /\ n \in State
  BY <1>1, <1>2, <1>3, <1>4 DEF State
<1>6. n.disk[d] = k /\ \A e \in Drives : e # d => n.disk[e] = m.disk[e]
  BY <1>1, <1>5 DEF State
<1>7. \A e \in Drives : e # d /\ m.disk[e].img # NoImage => m.disk[e].img # i
  BY <1>1 DEF Sound, Alone
<1>8. Alone(n) /\ LitOK(n)
  BY <1>1, <1>3, <1>5, <1>6 DEF Sound, Alone, LitOK
<1>9. ASSUME NEW e \in Drives PROVE DriveOK(n, e)
  <2>1. DriveOK(m, e)
    BY DEF Sound
  <2>2. CASE e = d
    BY <2>1, <2>2, <1>1, <1>3, <1>4, <1>5, <1>6, SMTT(30) DEF DriveOK
  <2>3. CASE e # d
    <3>1. m.disk[e] \in Disk
      BY <1>1 DEF State
    <3> QED  BY <2>1, <2>3, <3>1, <1>4, <1>5, <1>6, <1>7, SMTT(30) DEF DriveOK, Disk
  <2> QED  BY <2>2, <2>3
<1>10. ASSUME NEW j \in Images \ n.lost PROVE ImageOK(n, j)
  <2> SUFFICES ASSUME NEW s \in Tracks, w[j][s] # m.file[j][s]
               PROVE  \E e \in Bays : n.disk[e].img = j /\ n.disk[e].thru /\ n.disk[e].trk[s].dirty
    BY <1>5 DEF ImageOK
  <2>1. CASE m.wrote[j][s] # m.file[j][s]
    <3>1. PICK e \in Bays : m.disk[e].img = j /\ m.disk[e].thru /\ m.disk[e].trk[s].dirty
      BY <2>1, <1>5 DEF Sound, ImageOK
    <3>2. n.disk[e].img = j /\ n.disk[e].thru /\ n.disk[e].trk[s].dirty
      BY <3>1, <1>3, <1>6 DEF Drives
    <3> QED  BY <3>2
  <2>2. CASE m.wrote[j][s] = m.file[j][s]
    BY <2>2, <1>3, <1>4, <1>6
  <2> QED  BY <2>1, <2>2
<1>11. Sound(n)
  BY <1>5, <1>8, <1>9, <1>10 DEF Sound
<1>12. Untouched(m, n)
  BY <1>1, <1>5, <1>6 DEF Untouched, Drives
<1>13. ASSUME NEW e \in Bays, Forgotten(n, e) PROVE Forgotten(m, e)
  BY <1>13, <1>5, <1>6 DEF Forgotten, Drives, Current
<1> QED  BY <1>5, <1>11, <1>12, <1>13 DEF Keeps, n

(* The end of a write leaves the drive and its motor.                       *)
LEMMA IdleIwm ==
  ASSUME NEW w \in Controller
  PROVE  Idle(w) \in Controller /\ Steady(w, Idle(w)) /\ Idle(w).q7 = w.q7 /\ Idle(w).q6 = w.q6
<1>1. Idle(w) \in Controller
  <2>1. 0 \in Tracks /\ "zero" \in Bytes
    BY IwmAssumption DEF Bytes
  <2>2. PICK x \in Controller : x = [w EXCEPT !.active = FALSE]
    BY DEF Controller
  <2>3. PICK y \in Controller : y = [x EXCEPT !.track = 0, !.val = "zero"]
    BY <2>1 DEF Controller
  <2>4. Idle(w) = y
    BY <2>2, <2>3 DEF Idle, Controller
  <2> QED  BY <2>4
<1>2. Steady(w, Idle(w)) /\ Idle(w).q7 = w.q7 /\ Idle(w).q6 = w.q6
  BY DEF Idle, Controller, Steady
<1> QED  BY <1>1, <1>2

(* A byte to write, the first of a write or a further one                   *)
LEMMA WriteDataKeeps ==
  ASSUME NEW m, Sound(m), Present(m), m.iwm.motorOn, NEW v \in Bytes
  PROVE  /\ Keeps(m, WriteData(m, Current(m), v))
         /\ Steady(m.iwm, WriteData(m, Current(m), v).iwm)
<1> DEFINE d == Current(m)
           w == [m.iwm EXCEPT !.slow = IF d[1] = 525 THEN TRUE ELSE @]
           slow == [m EXCEPT !.iwm.slow = IF d[1] = 525 THEN TRUE ELSE @]
           n == WriteData(m, d, v)
<1>1. m \in State /\ d \in Bays /\ d \in Drives /\ m.iwm \in Controller /\ m.disk[d] \in Disk
  BY DEF Sound, Present, Drives, State
<1>2. w \in Controller /\ Steady(m.iwm, w) /\ w.active = m.iwm.active /\ w.track = m.iwm.track
      /\ w.val = m.iwm.val
  <2>1. PICK b \in BOOLEAN : w = [m.iwm EXCEPT !.slow = b]
    <3>1. m.iwm.slow \in BOOLEAN
      BY <1>1 DEF Controller
    <3>2. CASE d[1] = 525
      <4>1. w = [m.iwm EXCEPT !.slow = TRUE]
        BY <3>2
      <4> QED  BY <4>1, Zenon
    <3>3. CASE d[1] # 525
      <4>1. w = [m.iwm EXCEPT !.slow = m.iwm.slow]
        BY <3>3
      <4> QED  BY <3>1, <4>1, Zenon
    <3> QED  BY <3>2, <3>3
  <2> HIDE DEF d, w
  <2>2. w \in Controller
    BY <2>1, <1>1 DEF Controller
  <2>3. Steady(m.iwm, w) /\ w.active = m.iwm.active /\ w.track = m.iwm.track /\ w.val = m.iwm.val
    BY <2>1, <1>1 DEF Controller, Steady
  <2> QED  BY <2>2, <2>3
<1>3. slow = WithIwm(m, w)
  <2> HIDE DEF d
  <2> QED  BY <1>1 DEF WithIwm, State
<1>4. CASE m.disk[d].img = NoImage \/ m.disk[d].prot # 0
  <2>1. n = m
    BY <1>4 DEF WriteData
  <2> QED  BY <2>1, KeepsItself DEF Steady
<1>5. CASE ~(m.disk[d].img = NoImage \/ m.disk[d].prot # 0) /\ ~m.iwm.active
  <2> DEFINE x == [w EXCEPT !.active = TRUE, !.track = m.disk[d].at, !.val = v]
  <2>1. n = [slow EXCEPT !.iwm.active = TRUE, !.iwm.track = m.disk[d].at, !.iwm.val = v]
    BY <1>5 DEF WriteData
  <2> HIDE DEF w, slow, d, n
  <2>2. n = WithIwm(m, x)
    BY <2>1, <1>1, <1>2, <1>3 DEF WithIwm, State, Controller
  <2>3. x \in Controller /\ Steady(m.iwm, x)
    BY <1>1, <1>2 DEF Controller, Steady, Disk
  <2> QED
    <3> HIDE DEF x
    <3>1. Keeps(m, n) /\ Steady(m.iwm, n.iwm)
      BY <2>2, <2>3, <1>1, IwmKeeps, IwmFrame
    <3> QED  BY <3>1 DEF n, d
<1>6. CASE ~(m.disk[d].img = NoImage \/ m.disk[d].prot # 0) /\ m.iwm.active
  <2> DEFINE laid == Lay(slow, d, m.iwm.track, m.iwm.val)
  <2>1. n = [laid EXCEPT !.iwm.val = v]
    BY <1>6 DEF WriteData
  <2>2. Sound(slow) /\ Keeps(m, slow) /\ slow.iwm = w /\ slow.disk = m.disk
    <3> HIDE DEF w, slow, d
    <3> QED  BY <1>1, <1>2, <1>3, IwmKeeps, IwmFrame DEF Keeps
  <2>3. d = Current(slow) /\ slow.iwm.motorOn
    <3> HIDE DEF w, slow
    <3> QED  BY <2>2, <1>2 DEF Steady, Current
  <2>4. m.iwm.track \in Tracks /\ m.iwm.val \in Bytes
    BY <1>1 DEF Controller
  <2>5. Keeps(slow, laid) /\ laid.iwm = w
    <3> HIDE DEF w, slow, d
    <3> QED  BY <2>2, <2>3, <2>4, <1>1, <1>6, LayKeeps
  <2> DEFINE x == [w EXCEPT !.val = v]
  <2> HIDE DEF w, slow, d, n, laid
  <2>6. laid \in State /\ Sound(laid)
    BY <2>5 DEF Keeps, Sound
  <2>7. n = WithIwm(laid, x)
    BY <2>1, <2>5, <2>6 DEF WithIwm, State
  <2>8. x \in Controller /\ Steady(w, x)
    BY <1>2 DEF Controller, Steady
  <2>9. Keeps(laid, n) /\ n.iwm = x
    <3> HIDE DEF x
    <3> QED  BY <2>5, <2>6, <2>7, <2>8, IwmKeeps, IwmFrame
  <2>10. Keeps(m, n)
    BY <2>2, <2>5, <2>9, KeepsComposes
  <2>11. Steady(m.iwm, n.iwm)
    BY <2>8, <2>9, <1>2 DEF Steady
  <2> QED  BY <2>10, <2>11 DEF n, d
<1> QED  BY <1>4, <1>5, <1>6

(* The end of a write, with what its last byte leaves on the track          *)
LEMMA WriteEndKeeps ==
  ASSUME NEW m, Sound(m), Present(m), m.iwm.motorOn
  PROVE  /\ Keeps(m, WriteEnd(m, Current(m)))
         /\ Steady(m.iwm, WriteEnd(m, Current(m)).iwm)
<1>1. CASE ~m.iwm.active
  <2>1. WriteEnd(m, Current(m)) = m
    BY <1>1 DEF WriteEnd
  <2> QED  BY <2>1, KeepsItself DEF Steady
<1>2. CASE m.iwm.active
  <2> DEFINE n == WriteData(m, Current(m), "zero")
             o == WriteEnd(m, Current(m))
  <2>1. o = [n EXCEPT !.iwm = Idle(n.iwm)]
    BY <1>2 DEF WriteEnd
  <2>2. Keeps(m, n) /\ Steady(m.iwm, n.iwm)
    BY WriteDataKeeps DEF Bytes
  <2> HIDE DEF n, o
  <2>3. n \in State /\ n.iwm \in Controller /\ Sound(n)
    BY <2>2 DEF Keeps, Sound, State
  <2>4. Idle(n.iwm) \in Controller /\ Steady(n.iwm, Idle(n.iwm))
    BY <2>3, IdleIwm
  <2>5. o = WithIwm(n, Idle(n.iwm))
    BY <2>1 DEF WithIwm
  <2>6. Keeps(n, o) /\ o.iwm = Idle(n.iwm)
    BY <2>3, <2>4, <2>5, IwmKeeps, IwmFrame
  <2>7. Keeps(m, o) /\ Steady(m.iwm, o.iwm)
    BY <2>2, <2>4, <2>6, KeepsComposes DEF Steady
  <2> QED  BY <2>7 DEF o
<1> QED  BY <1>1, <1>2

(* A motor that turns on, or goes on turning                                *)
LEMMA IwmTurns ==
  ASSUME NEW m, Sound(m), NEW w \in Controller, w.motorOn /\ w.atOnce => w.lit,
         w.sel35 = m.iwm.sel35, w.drive = m.iwm.drive, m.iwm.motorOn => w.motorOn
  PROVE  Keeps(m, WithIwm(m, w))
<1>1. Sound(WithIwm(m, w)) /\ Untouched(m, WithIwm(m, w))
  BY IwmSound
<1>2. WithIwm(m, w).disk = m.disk /\ WithIwm(m, w).iwm = w
  BY IwmFrame DEF Sound
<1> QED  BY <1>1, <1>2 DEF Keeps, Forgotten, Current

(* A pending write is ended when the controller leaves the write mode.      *)
LEMMA SettleKeeps ==
  ASSUME NEW m, Sound(m)
  PROVE  Keeps(m, Settle(m)) /\ Steady(m.iwm, Settle(m).iwm) /\ Settle(m).iwm.q7 = m.iwm.q7
<1>1. CASE m.iwm.q7
  BY <1>1, KeepsItself DEF Settle, Steady
<1>2. CASE ~m.iwm.q7
  <2> DEFINE w == [Idle(m.iwm) EXCEPT !.slow = FALSE]
  <2>1. m.iwm \in Controller
    BY DEF Sound, State
  <2>2. Idle(m.iwm) \in Controller /\ Steady(m.iwm, Idle(m.iwm)) /\ Idle(m.iwm).q7 = m.iwm.q7
    BY <2>1, IdleIwm
  <2>3. w \in Controller /\ Steady(m.iwm, w) /\ w.q7 = m.iwm.q7
    <3> DEFINE x == Idle(m.iwm)
    <3> HIDE DEF x
    <3>1. x \in Controller /\ Steady(m.iwm, x) /\ x.q7 = m.iwm.q7 /\ w = [x EXCEPT !.slow = FALSE]
      BY <2>2 DEF x
    <3> HIDE DEF w
    <3>2. w \in Controller
      BY <3>1 DEF Controller
    <3> QED  BY <3>1, <3>2 DEF Controller, Steady
  <2>4. Settle(m) = WithIwm(m, w)
    BY <1>2 DEF Settle, WithIwm
  <2> HIDE DEF w
  <2> QED  BY <2>1, <2>3, <2>4, IwmKeeps, IwmFrame DEF Sound
<1> QED  BY <1>1, <1>2

(* Whatever becomes of the motor, the disk in the drive is saved.           *)
LEMMA StopKeeps ==
  ASSUME NEW m, Sound(m), NEW w \in Controller, w.motorOn /\ w.atOnce => w.lit,
         w.sel35 = m.iwm.sel35, w.drive = m.iwm.drive, NEW ok \in BOOLEAN
  PROVE  /\ Keeps(m, FlushCurrent(WithIwm(m, w), ok))
         /\ FlushCurrent(WithIwm(m, w), ok).iwm = w
<1> DEFINE n == WithIwm(m, w)
           d == Current(n)
           s == FlushCurrent(n, ok)
<1>1. Sound(n) /\ Untouched(m, n)
  BY IwmSound
<1>2. n.disk = m.disk /\ n.iwm = w /\ n.file = m.file
  BY IwmFrame DEF Sound
<1>3. d = Current(m)
  <2> HIDE DEF n
  <2> QED  BY <1>2 DEF Current
<1>4. CASE ~Present(n)
  <2>1. s = n
    BY <1>4 DEF FlushCurrent
  <2> HIDE DEF n, s
  <2> QED  BY <2>1, <1>1, <1>2, <1>3, <1>4 DEF Keeps, Forgotten, Present, n, s
<1>5. CASE Present(n)
  <2>1. s = Flush(n, d, ok) /\ d \in Drives
    BY <1>5 DEF FlushCurrent, Present, Drives
  <2> HIDE DEF n, s, d
  <2>2. Flushed(n, s, d) /\ Keeps(n, s)
    BY <2>1, <1>1, FlushWorks, FlushKeeps
  <2>3. Untouched(m, s) /\ Sound(s) /\ s.iwm = w
    BY <2>2, <1>1, <1>2 DEF Keeps, Untouched, Flushed
  <2>4. ASSUME NEW e \in Bays, Forgotten(s, e) PROVE Forgotten(m, e)
    <3>1. e # d /\ e \in Drives
      BY <2>4, <2>2 DEF Forgotten, Flushed, Drives
    <3>2. s.disk[e] = m.disk[e]
      BY <3>1, <2>2, <1>2 DEF Flushed
    <3> QED  BY <2>4, <3>1, <3>2, <1>3 DEF Forgotten
  <2> QED  BY <2>3, <2>4 DEF Keeps, n, s
<1> QED  BY <1>4, <1>5

(* The motor is turned off, at once or in a while.                          *)
LEMMA MotorOffKeeps ==
  ASSUME NEW m, Sound(m), NEW ok \in BOOLEAN
  PROVE  Keeps(m, MotorOff(m, ok))
<1> DEFINE w == m.iwm
           off == IF w.atOnce THEN [w EXCEPT !.motorOn = FALSE, !.motorOff = FALSE, !.left = 0]
                  ELSE IF w.motorOn /\ ~w.motorOff
                  THEN [w EXCEPT !.motorOff = TRUE, !.left = SpinDown] ELSE w
           n == WithIwm(m, off)
           s == IF w.lit \/ w.slow THEN FlushCurrent(n, ok) ELSE n
           r == MotorOff(m, ok)
<1>1. w \in Controller /\ m \in State
  BY DEF Sound, State
<1>2. /\ off \in Controller /\ off.sel35 = w.sel35 /\ off.drive = w.drive
      /\ off.atOnce = w.atOnce /\ off.lit = w.lit
      /\ off.motorOn => ~off.atOnce
      /\ ~w.atOnce => off.motorOn = w.motorOn
  <2> HIDE DEF w
  <2>0. 0 \in 0..SpinDown /\ SpinDown \in 0..SpinDown
    BY IwmAssumption
  <2>1. CASE w.atOnce
    <3> DEFINE y == [w EXCEPT !.motorOn = FALSE, !.motorOff = FALSE, !.left = 0]
    <3>1. PICK x \in Controller : x = [w EXCEPT !.motorOn = FALSE]
      BY <1>1 DEF Controller
    <3>2. y = [x EXCEPT !.motorOff = FALSE, !.left = 0]
      BY <3>1, <1>1 DEF Controller
    <3> HIDE DEF y
    <3>3. y \in Controller /\ y.sel35 = x.sel35 /\ y.drive = x.drive /\ y.atOnce = x.atOnce
          /\ y.lit = x.lit /\ y.motorOn = x.motorOn
      BY <2>0, <3>2 DEF Controller
    <3>4. x.sel35 = w.sel35 /\ x.drive = w.drive /\ x.atOnce = w.atOnce /\ x.lit = w.lit /\ ~x.motorOn
      BY <3>1, <1>1 DEF Controller
    <3> QED  BY <2>1, <3>3, <3>4 DEF y
  <2>2. CASE ~w.atOnce /\ w.motorOn /\ ~w.motorOff
    <3> DEFINE y == [w EXCEPT !.motorOff = TRUE, !.left = SpinDown]
    <3>1. y \in Controller /\ y.sel35 = w.sel35 /\ y.drive = w.drive /\ y.atOnce = w.atOnce
          /\ y.lit = w.lit /\ y.motorOn = w.motorOn
      BY <2>0, <1>1 DEF Controller
    <3> QED  BY <2>2, <3>1
  <2>3. CASE ~w.atOnce /\ ~(w.motorOn /\ ~w.motorOff)
    BY <2>3, <1>1
  <2> QED  BY <2>1, <2>2, <2>3
<1>3. r = [s EXCEPT !.iwm.lit = FALSE, !.iwm.slow = FALSE]
  <2> HIDE DEF w
  <2> QED  BY DEF MotorOff, WithIwm, w
<1> HIDE DEF off
<1>4. Keeps(m, s) /\ s.iwm = off
  <2>1. CASE w.lit \/ w.slow
    BY <2>1, <1>2, StopKeeps
  <2>2. CASE ~(w.lit \/ w.slow)
    <3>1. m.iwm.motorOn => off.motorOn
      BY <2>2, <1>2 DEF Sound, LitOK
    <3> QED  BY <2>2, <3>1, <1>1, <1>2, IwmTurns, IwmFrame
  <2> QED  BY <2>1, <2>2
<1> DEFINE x == [off EXCEPT !.lit = FALSE, !.slow = FALSE]
<1> HIDE DEF s, r
<1>5. r = WithIwm(s, x)
  BY <1>3, <1>4 DEF WithIwm, Keeps, Sound, State
<1>6. x \in Controller /\ x.sel35 = off.sel35 /\ x.drive = off.drive /\ x.motorOn = off.motorOn
      /\ x.atOnce = off.atOnce
  BY <1>2 DEF Controller
<1>7. Keeps(s, r)
  <2> HIDE DEF x
  <2> QED  BY <1>2, <1>4, <1>5, <1>6, IwmTurns DEF Keeps
<1>8. Keeps(m, r)
  BY <1>4, <1>7, KeepsComposes
<1> QED  BY <1>8 DEF r

(* The motor is turned on.                                                  *)
LEMMA MotorOnKeeps ==
  ASSUME NEW m, Sound(m)
  PROVE  Keeps(m, MotorOn(m))
<1> DEFINE w == [m.iwm EXCEPT !.motorOn = TRUE, !.motorOff = FALSE, !.left = 0, !.lit = TRUE]
<1>1. m.iwm \in Controller /\ m \in State
  BY DEF Sound, State
<1>2. w \in Controller /\ w.sel35 = m.iwm.sel35 /\ w.drive = m.iwm.drive /\ w.motorOn /\ w.lit
  <2>1. 0 \in 0..SpinDown
    BY IwmAssumption
  <2>2. PICK x \in Controller : x = [m.iwm EXCEPT !.motorOn = TRUE, !.motorOff = FALSE]
    BY <1>1 DEF Controller
  <2>3. w = [x EXCEPT !.left = 0, !.lit = TRUE]
    BY <2>2, <1>1 DEF Controller
  <2> HIDE DEF w
  <2>4. x.sel35 = m.iwm.sel35 /\ x.drive = m.iwm.drive /\ x.motorOn
    BY <2>2, <1>1 DEF Controller
  <2>5. w \in Controller /\ w.sel35 = x.sel35 /\ w.drive = x.drive /\ w.motorOn = x.motorOn /\ w.lit
    BY <2>1, <2>3 DEF Controller
  <2> QED  BY <2>4, <2>5
<1>3. MotorOn(m) = WithIwm(m, w)
  BY <1>1 DEF MotorOn, WithIwm, State
<1> HIDE DEF w
<1> QED  BY <1>2, <1>3, IwmTurns

(* Saving the disk of the drive that is selected                            *)
LEMMA FlushCurrentKeeps ==
  ASSUME NEW m, Sound(m), NEW ok \in BOOLEAN
  PROVE  /\ Keeps(m, FlushCurrent(m, ok)) /\ FlushCurrent(m, ok).iwm = m.iwm
         /\ \A d \in Bays : d = Current(m) =>
              ~(FlushCurrent(m, ok).disk[d].dirty /\ FlushCurrent(m, ok).disk[d].thru)
<1>1. CASE ~Present(m)
  BY <1>1, KeepsItself DEF FlushCurrent, Present
<1>2. CASE Present(m)
  <2> DEFINE d == Current(m)
  <2>1. FlushCurrent(m, ok) = Flush(m, d, ok) /\ d \in Drives
    BY <1>2 DEF FlushCurrent, Present, Drives
  <2> HIDE DEF d
  <2>2. Flushed(m, Flush(m, d, ok), d) /\ Keeps(m, Flush(m, d, ok))
    BY <2>1, FlushWorks, FlushKeeps
  <2> QED  BY <2>1, <2>2 DEF Flushed, d
<1> QED  BY <1>1, <1>2

(* The other drive is selected: the one left is saved first.                *)
LEMMA SelectKeeps ==
  ASSUME NEW m, Sound(m), NEW k \in {0, 1}, NEW ok \in BOOLEAN
  PROVE  Keeps(m, SelectDrive(m, k, ok))
<1> DEFINE s == IF m.iwm.drive # k THEN FlushCurrent(m, ok) ELSE m
           w == [m.iwm EXCEPT !.drive = k]
           r == SelectDrive(m, k, ok)
<1>1. Keeps(m, s) /\ s.iwm = m.iwm
  BY FlushCurrentKeeps, KeepsItself
<1>2. m.iwm \in Controller /\ s \in State /\ Sound(s)
  BY <1>1 DEF Keeps, Sound, State
<1>3. r = [s EXCEPT !.iwm.drive = k]
  BY DEF SelectDrive
<1>4. w \in Controller /\ w.drive = k /\ w.sel35 = m.iwm.sel35 /\ w.motorOn = m.iwm.motorOn
      /\ w.atOnce = m.iwm.atOnce /\ w.lit = m.iwm.lit
  BY <1>2 DEF Controller
<1>5. r = WithIwm(s, w)
  <2> HIDE DEF s, r
  <2> QED  BY <1>1, <1>2, <1>3 DEF WithIwm, State
<1>6. \A d \in Bays : d = Current(m) /\ m.iwm.drive # k => ~(s.disk[d].dirty /\ s.disk[d].thru)
  BY FlushCurrentKeeps
<1> HIDE DEF s, w, r
<1>7. Sound(r) /\ Untouched(s, r) /\ r.disk = s.disk /\ r.iwm = w
  BY <1>1, <1>2, <1>4, <1>5, IwmSound, IwmFrame DEF Sound, LitOK
<1>8. Untouched(m, r)
  BY <1>1, <1>7 DEF Keeps, Untouched
<1>9. ASSUME NEW d \in Bays, Forgotten(r, d) PROVE Forgotten(m, d)
  <2>1. Forgotten(s, d)
    <3>1. CASE m.iwm.drive = k
      BY <3>1, <1>9, <1>7, <1>4, <1>1 DEF Forgotten, Current
    <3>2. CASE m.iwm.drive # k
      <4>1. d # Current(m)
        BY <3>2, <1>6, <1>7, <1>9 DEF Forgotten
      <4> QED  BY <4>1, <1>1, <1>7, <1>9 DEF Forgotten, Current
    <3> QED  BY <3>1, <3>2
  <2> QED  BY <2>1, <1>1 DEF Keeps
<1> QED  BY <1>7, <1>8, <1>9 DEF Keeps, r

(* Write mode is left.                                                      *)
LEMMA LeaveKeeps ==
  ASSUME NEW m, Sound(m)
  PROVE  Keeps(m, LeaveWrite(m))
<1> DEFINE s == IF m.iwm.q7 /\ m.iwm.motorOn /\ Present(m) THEN WriteEnd(m, Current(m)) ELSE m
           w == [s.iwm EXCEPT !.q7 = FALSE]
           r == LeaveWrite(m)
<1>1. Keeps(m, s)
  BY WriteEndKeeps, KeepsItself
<1>2. r = [s EXCEPT !.iwm.q7 = FALSE]
  BY DEF LeaveWrite
<1> HIDE DEF s, r
<1>3. s \in State /\ s.iwm \in Controller /\ Sound(s)
  BY <1>1 DEF Keeps, Sound, State
<1>4. w \in Controller /\ Steady(s.iwm, w)
  BY <1>3 DEF Controller, Steady
<1>5. r = WithIwm(s, w)
  BY <1>2, <1>3 DEF WithIwm, State
<1> HIDE DEF w
<1>6. Keeps(s, r)
  BY <1>3, <1>4, <1>5, IwmKeeps
<1>7. Keeps(m, r)
  BY <1>1, <1>6, KeepsComposes
<1> QED  BY <1>7 DEF r

(* Every soft switch of the IWM ($C0E8-$C0EF)                               *)
LEMMA TouchKeeps ==
  ASSUME NEW m, Sound(m), NEW loc \in 8..15, NEW ok \in BOOLEAN
  PROVE  Keeps(m, Touch(m, loc, ok))
<1>1. ASSUME NEW s, Keeps(m, s), Touch(m, loc, ok) = Settle(s)
      PROVE  Keeps(m, Touch(m, loc, ok))
  <2>1. Keeps(s, Settle(s))
    BY <1>1, SettleKeeps DEF Keeps
  <2> QED  BY <1>1, <2>1, KeepsComposes
<1>2. m.iwm \in Controller /\ m \in State
  BY DEF Sound, State
<1>3. CASE loc = 8
  <2>1. Touch(m, loc, ok) = Settle(MotorOff(m, ok))
    BY <1>3 DEF Touch
  <2> QED  BY <1>1, <2>1, MotorOffKeeps
<1>4. CASE loc = 9
  <2>1. Touch(m, loc, ok) = Settle(MotorOn(m))
    BY <1>4 DEF Touch
  <2> QED  BY <1>1, <2>1, MotorOnKeeps
<1>5. CASE loc = 10
  <2>1. Touch(m, loc, ok) = Settle(SelectDrive(m, 0, ok))
    BY <1>5 DEF Touch
  <2> QED  BY <1>1, <2>1, SelectKeeps
<1>6. CASE loc = 11
  <2>1. Touch(m, loc, ok) = Settle(SelectDrive(m, 1, ok))
    BY <1>6 DEF Touch
  <2> QED  BY <1>1, <2>1, SelectKeeps
<1>7. CASE loc = 12
  <2> DEFINE w == [m.iwm EXCEPT !.q6 = FALSE]
  <2>1. Touch(m, loc, ok) = Settle(WithIwm(m, w))
    BY <1>7 DEF Touch, WithIwm
  <2>2. w \in Controller /\ Steady(m.iwm, w)
    BY <1>2 DEF Controller, Steady
  <2> HIDE DEF w
  <2> QED  BY <1>1, <2>1, <2>2, IwmKeeps
<1>8. CASE loc = 13
  <2> DEFINE w == [m.iwm EXCEPT !.q6 = TRUE]
  <2>1. Touch(m, loc, ok) = Settle(WithIwm(m, w))
    BY <1>8 DEF Touch, WithIwm
  <2>2. w \in Controller /\ Steady(m.iwm, w)
    BY <1>2 DEF Controller, Steady
  <2> HIDE DEF w
  <2> QED  BY <1>1, <2>1, <2>2, IwmKeeps
<1>9. CASE loc = 14
  <2>1. Touch(m, loc, ok) = Settle(LeaveWrite(m))
    BY <1>9 DEF Touch
  <2> QED  BY <1>1, <2>1, LeaveKeeps
<1>10. CASE loc = 15
  <2> DEFINE w == [m.iwm EXCEPT !.q7 = TRUE]
  <2>1. Touch(m, loc, ok) = Settle(WithIwm(m, w))
    BY <1>10 DEF Touch, WithIwm
  <2>2. w \in Controller /\ Steady(m.iwm, w)
    BY <1>2 DEF Controller, Steady
  <2> HIDE DEF w
  <2> QED  BY <1>1, <2>1, <2>2, IwmKeeps
<1>11. loc \in {8, 9, 10, 11, 12, 13, 14, 15}
  OBVIOUS
<1> QED  BY <1>11, <1>3, <1>4, <1>5, <1>6, <1>7, <1>8, <1>9, <1>10

-----------------------------------------------------------------------------
(* The drives between the steps                                             *)

(* The variables as a record                                                *)
LEMMA NowIs ==
  /\ Now.iwm = iwm /\ Now.disk = disk /\ Now.file = file /\ Now.wrote = wrote /\ Now.lost = lost
  /\ Now' = [iwm |-> iwm', disk |-> disk', file |-> file', wrote |-> wrote', lost |-> lost']
BY DEF Now

(* The variables take the values of a record.                               *)
LEMMA BecomeIs ==
  ASSUME NEW m \in State, Become(m)
  PROVE  Now' = m
BY DEF Now, Become, State

(* A read of a soft switch                                                  *)
LEMMA ReadKeeps ==
  ASSUME Sound(Now), NEW loc \in 8..15, NEW ok \in BOOLEAN, ReadIwm(loc, ok)
  PROVE  Keeps(Now, Now')
<1>1. Keeps(Now, Touch(Now, loc, ok))
  BY TouchKeeps
<1>2. Now' = Touch(Now, loc, ok)
  BY <1>1, BecomeIs DEF ReadIwm, Keeps, Sound
<1> QED  BY <1>1, <1>2

(* A write to a soft switch, with its byte                                  *)
LEMMA WriteKeeps ==
  ASSUME Sound(Now), NEW loc \in 8..15, NEW v \in Bytes, NEW ok \in BOOLEAN, WriteIwm(loc, v, ok)
  PROVE  Keeps(Now, Now')
<1> DEFINE m == Touch(Now, loc, ok)
<1>1. Keeps(Now, m)
  BY TouchKeeps
<1>2. /\ IF ~m.iwm.motorOn THEN \E mode \in BOOLEAN : Become([m EXCEPT !.iwm.atOnce = mode])
         ELSE Become(IF Present(m) THEN WriteData(m, Current(m), v) ELSE m)
  BY DEF WriteIwm
<1> HIDE DEF m
<1>3. m \in State /\ m.iwm \in Controller /\ Sound(m)
  BY <1>1 DEF Keeps, Sound, State
<1>4. CASE ~m.iwm.motorOn
  <2>1. PICK mode \in BOOLEAN : Become([m EXCEPT !.iwm.atOnce = mode])
    BY <1>2, <1>4
  <2> DEFINE w == [m.iwm EXCEPT !.atOnce = mode]
  <2>2. w \in Controller /\ ~w.motorOn /\ w.sel35 = m.iwm.sel35 /\ w.drive = m.iwm.drive
    BY <1>3, <1>4 DEF Controller
  <2>3. [m EXCEPT !.iwm.atOnce = mode] = WithIwm(m, w)
    BY DEF WithIwm
  <2> HIDE DEF w
  <2>4. Keeps(m, WithIwm(m, w))
    BY <1>3, <1>4, <2>2, IwmTurns
  <2>5. Now' = WithIwm(m, w)
    BY <2>1, <2>3, <2>4, BecomeIs DEF Keeps, Sound
  <2> QED  BY <2>4, <2>5, <1>1, KeepsComposes
<1>5. CASE m.iwm.motorOn /\ Present(m)
  <2>1. Keeps(m, WriteData(m, Current(m), v))
    BY <1>3, <1>5, WriteDataKeeps
  <2>2. Become(WriteData(m, Current(m), v))
    BY <1>2, <1>5
  <2>3. Now' = WriteData(m, Current(m), v)
    BY <2>1, <2>2, BecomeIs DEF Keeps, Sound
  <2> QED  BY <2>1, <2>3, <1>1, KeepsComposes
<1>6. CASE m.iwm.motorOn /\ ~Present(m)
  BY <1>1, <1>2, <1>3, <1>6, BecomeIs
<1> QED  BY <1>4, <1>5, <1>6

(* The state with another disk in drive d                                   *)
WithDisk(m, d, k) == [m EXCEPT !.disk = [m.disk EXCEPT ![d] = k]]

(* Marks on a drive that say nothing of what is saved                       *)
LEMMA MarkSound ==
  ASSUME NEW m, Sound(m), NEW d \in Drives, NEW k \in Disk, NEW n, n = WithDisk(m, d, k),
         k.img = m.disk[d].img, k.thru = m.disk[d].thru, k.dirty = m.disk[d].dirty,
         k.trk = m.disk[d].trk
  PROVE  /\ Sound(n) /\ n.disk = [m.disk EXCEPT ![d] = k] /\ n.file = m.file /\ n.iwm = m.iwm
         /\ \A e \in Bays : Forgotten(n, e) => Forgotten(m, e)
<1>1. m \in State /\ m.disk \in [Drives -> Disk]
  BY DEF Sound, State
<1>2. n.disk = [m.disk EXCEPT ![d] = k] /\ n.wrote = m.wrote /\ n.iwm = m.iwm /\ n.file = m.file
      /\ n.lost = m.lost /\ n \in State
  BY <1>1 DEF State, WithDisk
<1>3. \A e \in Drives : /\ n.disk[e].img = m.disk[e].img /\ n.disk[e].thru = m.disk[e].thru
                        /\ n.disk[e].dirty = m.disk[e].dirty /\ n.disk[e].trk = m.disk[e].trk
  BY <1>1, <1>2
<1>4. Alone(n) /\ LitOK(n)
  BY <1>2, <1>3 DEF Alone, LitOK, Sound
<1>5. \A e \in Drives : DriveOK(n, e)
  BY <1>2, <1>3 DEF DriveOK, Sound
<1>6. \A i \in Images \ n.lost : ImageOK(n, i)
  BY <1>2, <1>3 DEF ImageOK, Sound, Drives
<1>7. \A e \in Bays : Forgotten(n, e) => Forgotten(m, e)
  BY <1>2, <1>3 DEF Forgotten, Current, Drives
<1> QED  BY <1>2, <1>4, <1>5, <1>6, <1>7 DEF Sound

(* The head moves to another track; the disk is saved first.                *)
LEMMA MoveKeeps ==
  ASSUME NEW m, Sound(m), NEW d \in Bays, NEW t \in Tracks, NEW ok \in BOOLEAN
  PROVE  Keeps(m, MoveTo(m, d, t, ok))
<1> DEFINE s == Flush(m, d, ok)
           k == [s.disk[d] EXCEPT !.at = t]
           n == [s EXCEPT !.disk[d].at = t]
           w == [n.iwm EXCEPT !.track = t]
<1>1. d \in Drives /\ d \notin Units
  BY IwmAssumption DEF Drives
<1>2. Keeps(m, s)
  BY <1>1, FlushKeeps
<1> HIDE DEF s
<1>3. s \in State /\ Sound(s) /\ s.disk[d] \in Disk
  BY <1>1, <1>2 DEF Keeps, Sound, State
<1>4. n = WithDisk(s, d, k)
  BY DEF WithDisk
<1>5. /\ k \in Disk /\ k.img = s.disk[d].img /\ k.thru = s.disk[d].thru
      /\ k.dirty = s.disk[d].dirty /\ k.trk = s.disk[d].trk
  BY <1>3 DEF Disk
<1> HIDE DEF k, n
<1>6. Sound(n) /\ n.disk = [s.disk EXCEPT ![d] = k] /\ n.file = s.file
      /\ \A e \in Bays : Forgotten(n, e) => Forgotten(s, e)
  <2>1. /\ Sound(n) /\ n.disk = [s.disk EXCEPT ![d] = k] /\ n.file = s.file /\ n.iwm = s.iwm
        /\ \A e \in Bays : Forgotten(n, e) => Forgotten(s, e)
    BY <1>1, <1>3, <1>4, <1>5, MarkSound
  <2> QED  BY <2>1
<1>7. Keeps(s, n)
  <2>1. \A u \in Units : n.disk[u] = s.disk[u]
    BY <1>1, <1>3, <1>6 DEF State, Drives
  <2> QED  BY <1>6, <2>1 DEF Keeps, Untouched
<1>8. Keeps(m, n)
  BY <1>2, <1>7, KeepsComposes
<1>9. CASE ~m.iwm.active
  BY <1>8, <1>9 DEF MoveTo, s, n
<1>10. CASE m.iwm.active
  <2>1. MoveTo(m, d, t, ok) = WithIwm(n, w)
    BY <1>10 DEF MoveTo, s, n, WithIwm
  <2>2. w \in Controller /\ Steady(n.iwm, w)
    BY <1>6 DEF Controller, Steady, Sound, State
  <2> HIDE DEF w
  <2>3. Keeps(n, WithIwm(n, w))
    BY <1>6, <2>2, IwmKeeps
  <2> QED  BY <1>8, <2>1, <2>3, KeepsComposes
<1> QED  BY <1>9, <1>10

(* MoveHead, on the selected drive                                          *)
LEMMA HeadKeeps ==
  ASSUME Sound(Now), NEW t \in Tracks, NEW ok \in BOOLEAN, MoveHead(t, ok)
  PROVE  Keeps(Now, Now')
<1> DEFINE n == MoveTo(Now, Current(Now), t, ok)
<1>1. Keeps(Now, n)
  BY MoveKeeps DEF MoveHead, Present
<1>2. Become(Settle(n))
  BY DEF MoveHead
<1> HIDE DEF n
<1>3. Keeps(n, Settle(n))
  BY <1>1, SettleKeeps DEF Keeps
<1>4. Now' = Settle(n)
  BY <1>2, <1>3, BecomeIs DEF Keeps, Sound
<1> QED  BY <1>1, <1>3, <1>4, KeepsComposes

(* A frame: the motor's countdown and, at its end, the flush                *)
LEMMA VblKeeps ==
  ASSUME Sound(Now), NEW ok \in BOOLEAN, VblUpdate(ok)
  PROVE  Keeps(Now, Now')
<1>1. Now \in State /\ iwm \in Controller /\ Now.iwm = iwm
  BY NowIs DEF Sound, State
<1>2. CASE iwm.left > 0
  <2> DEFINE w == [iwm EXCEPT !.left = @ - 1]
  <2>1. iwm.left - 1 \in 0..SpinDown
    BY <1>1, <1>2, IwmAssumption DEF Controller
  <2>2. w \in Controller /\ Steady(iwm, w)
    BY <2>1, <1>1 DEF Controller, Steady
  <2>3. [Now EXCEPT !.iwm.left = @ - 1] = WithIwm(Now, w)
    BY <1>1 DEF WithIwm
  <2>4. Become(WithIwm(Now, w))
    BY <1>2, <2>3 DEF VblUpdate
  <2> HIDE DEF w
  <2>5. Keeps(Now, WithIwm(Now, w))
    BY <1>1, <2>2, IwmKeeps
  <2>6. Now' = WithIwm(Now, w)
    BY <2>4, <2>5, BecomeIs DEF Keeps, Sound
  <2> QED  BY <2>5, <2>6
<1>3. CASE ~(iwm.left > 0)
  <2> DEFINE s == FlushCurrent(Now, ok)
             w == [iwm EXCEPT !.motorOn = FALSE, !.motorOff = FALSE]
  <2>1. w \in Controller /\ w.sel35 = iwm.sel35 /\ w.drive = iwm.drive /\ ~w.motorOn
    BY <1>1 DEF Controller
  <2>2. Become([s EXCEPT !.iwm.motorOn = FALSE, !.iwm.motorOff = FALSE])
    BY <1>3 DEF VblUpdate
  <2>3. Keeps(Now, s) /\ s.iwm = iwm
    BY <1>1, FlushCurrentKeeps
  <2>4. \A d \in Bays : d = Current(Now) => ~(s.disk[d].dirty /\ s.disk[d].thru)
    BY FlushCurrentKeeps
  <2> HIDE DEF s
  <2>5. s \in State /\ Sound(s)
    BY <2>3 DEF Keeps, Sound
  <2>6. [s EXCEPT !.iwm.motorOn = FALSE, !.iwm.motorOff = FALSE] = WithIwm(s, w)
    BY <2>3, <2>5 DEF WithIwm, State
  <2> DEFINE r == WithIwm(s, w)
  <2> HIDE DEF w
  <2>7. Sound(r) /\ Untouched(s, r) /\ r.disk = s.disk /\ r.iwm = w
    BY <2>1, <2>5, IwmSound, IwmFrame
  <2> HIDE DEF r
  <2>8. Untouched(Now, r)
    BY <2>3, <2>7 DEF Keeps, Untouched
  <2>9. ASSUME NEW d \in Bays, Forgotten(r, d) PROVE Forgotten(Now, d)
    <3>1. d # Current(Now)
      BY <2>4, <2>7, <2>9 DEF Forgotten
    <3>2. Current(Now) = Current(s)
      BY <2>3, <1>1 DEF Current
    <3> QED  BY <3>1, <3>2, <2>3, <2>7, <2>9 DEF Forgotten, Keeps
  <2>10. Now' = r
    BY <2>2, <2>6, <2>7, BecomeIs DEF r, Sound
  <2> QED  BY <2>7, <2>8, <2>9, <2>10 DEF Keeps
<1> QED  BY <1>2, <1>3

(* A reset and a write of $C031 lose nothing, but may forget a disk.        *)
LEMMA TurnAwaySound ==
  ASSUME Sound(Now), IwmReset \/ \E on \in BOOLEAN : WriteC031(on)
  PROVE  Sound(Now') /\ Untouched(Now, Now')
<1>1. Now \in State /\ iwm \in Controller /\ LitOK(Now) /\ Now.iwm = iwm
  BY NowIs DEF Sound, State
<1>2. PICK w \in Controller : iwm' = w /\ (w.motorOn /\ w.atOnce => w.lit)
  <2>1. CASE IwmReset
    <3>1. 0 \in 0..SpinDown /\ 0 \in Tracks /\ "zero" \in Bytes
      BY IwmAssumption DEF Bytes
    <3>2. PICK x \in Controller :
            x = [iwm EXCEPT !.motorOn = FALSE, !.motorOff = FALSE, !.left = 0, !.atOnce = FALSE]
      <4>1. PICK y \in Controller : y = [iwm EXCEPT !.motorOn = FALSE, !.motorOff = FALSE]
        BY <1>1 DEF Controller
      <4>2. PICK x \in Controller : x = [y EXCEPT !.left = 0, !.atOnce = FALSE]
        BY <3>1 DEF Controller
      <4> QED  BY <4>1, <4>2, <1>1 DEF Controller
    <3>3. PICK y \in Controller :
            y = [x EXCEPT !.sel35 = FALSE, !.drive = 0, !.q6 = FALSE, !.q7 = FALSE]
      <4>1. PICK y \in Controller : y = [x EXCEPT !.sel35 = FALSE, !.drive = 0]
        BY DEF Controller
      <4>2. PICK z \in Controller : z = [y EXCEPT !.q6 = FALSE, !.q7 = FALSE]
        BY DEF Controller
      <4> QED  BY <4>1, <4>2 DEF Controller
    <3>4. PICK z \in Controller :
            z = [y EXCEPT !.lit = FALSE, !.active = FALSE, !.track = 0, !.val = "zero"]
      <4>1. PICK x1 \in Controller : x1 = [y EXCEPT !.lit = FALSE, !.active = FALSE]
        BY DEF Controller
      <4>2. PICK z \in Controller : z = [x1 EXCEPT !.track = 0, !.val = "zero"]
        BY <3>1 DEF Controller
      <4> QED  BY <4>1, <4>2 DEF Controller
    <3>5. z = iwm'
      BY <2>1, <3>2, <3>3, <3>4, <1>1 DEF IwmReset, Controller
    <3>6. ~z.motorOn
      <4>1. ~x.motorOn
        BY <3>2, <1>1 DEF Controller
      <4>2. y.motorOn = x.motorOn
        BY <3>3 DEF Controller
      <4>3. z.motorOn = y.motorOn
        BY <3>4 DEF Controller
      <4> QED  BY <4>1, <4>2, <4>3
    <3> QED  BY <3>5, <3>6
  <2>2. CASE \E on \in BOOLEAN : WriteC031(on)
    <3>1. PICK on \in BOOLEAN : iwm' = [iwm EXCEPT !.sel35 = on]
      BY <2>2 DEF WriteC031
    <3> DEFINE w == [iwm EXCEPT !.sel35 = on]
    <3>2. w \in Controller /\ (w.motorOn /\ w.atOnce => w.lit)
      BY <1>1 DEF LitOK, Controller
    <3> QED  BY <3>1, <3>2
  <2> QED  BY <2>1, <2>2
<1>3. UNCHANGED <<disk, file, wrote, lost>>
  BY DEF IwmReset, WriteC031
<1>4. Now' = WithIwm(Now, w)
  BY <1>2, <1>3 DEF Now, WithIwm
<1> QED  BY <1>2, <1>4, IwmSound

-----------------------------------------------------------------------------
(* Disks that come and go                                                   *)

(* What ejecting drive d does                                               *)
Ejected(m, n, d) ==
  /\ Sound(n) /\ n.iwm = m.iwm
  /\ \A e \in Drives : e # d => n.disk[e] = m.disk[e]
  /\ n.disk[d].img = NoImage /\ ~n.disk[d].dirty
  /\ m.disk[d].img # NoImage \/ m.disk[d].switched => n.disk[d].switched
  /\ \A j \in Images : j # m.disk[d].img => n.file[j] = m.file[j]

(* The tracks of an empty drive                                             *)
LEMMA BlankType ==
  Blank \in [Tracks -> Track] /\ \A t \in Tracks : ~Blank[t].dirty
BY DEF Blank, Track, Bytes

(* A drive whose disk was taken out                                         *)
LEMMA EmptyDrive ==
  ASSUME NEW k \in Disk, NEW kk,
         kk = [k EXCEPT !.img = NoImage, !.prot = 1, !.thru = FALSE, !.dirty = FALSE,
                        !.switched = TRUE, !.woz = FALSE, !.trk = Blank]
  PROVE  /\ kk \in Disk /\ kk.img = NoImage /\ ~kk.dirty /\ kk.switched
         /\ \A t \in Tracks : ~kk.trk[t].dirty
<1>0. 1 \in 0..2 /\ NoImage \in Images \cup {NoImage}
  OBVIOUS
<1>1. PICK x \in Disk : x = [k EXCEPT !.img = NoImage, !.prot = 1, !.thru = FALSE]
  <2>1. PICK z \in Disk : z = [k EXCEPT !.img = NoImage, !.prot = 1]
    BY <1>0 DEF Disk
  <2>2. PICK x \in Disk : x = [z EXCEPT !.thru = FALSE]
    BY DEF Disk
  <2> QED  BY <2>1, <2>2 DEF Disk
<1>2. x.img = NoImage
  BY <1>1 DEF Disk
<1>3. PICK y \in Disk : y = [x EXCEPT !.dirty = FALSE, !.switched = TRUE]
  BY DEF Disk
<1>4. y.img = NoImage /\ ~y.dirty /\ y.switched
  BY <1>2, <1>3 DEF Disk
<1>5. kk = [y EXCEPT !.woz = FALSE, !.trk = Blank]
  BY <1>1, <1>3 DEF Disk
<1>6. kk \in Disk /\ kk.img = y.img /\ kk.dirty = y.dirty /\ kk.switched = y.switched /\ kk.trk = Blank
  BY <1>5, BlankType DEF Disk
<1> QED  BY <1>4, <1>6, BlankType

(* Ejecting saves the disk first; the drive is empty even when that fails.  *)
LEMMA EjectWorks ==
  ASSUME NEW m, Sound(m), NEW d \in Drives, NEW ok \in BOOLEAN
  PROVE  Ejected(m, Eject(m, d, ok), d)
<1> DEFINE s == Flush(m, d, ok)
           k == [s.disk[d] EXCEPT !.img = NoImage, !.prot = 1, !.thru = FALSE, !.dirty = FALSE,
                                  !.switched = TRUE, !.woz = FALSE, !.trk = Blank]
           n == Eject(m, d, ok)
<1>1. CASE m.disk[d].img = NoImage
  <2>1. n = m
    BY <1>1 DEF Eject
  <2>2. ~m.disk[d].dirty
    BY <1>1 DEF Sound, DriveOK
  <2>3. Ejected(m, m, d)
    BY <2>2, <1>1 DEF Ejected
  <2> QED  BY <2>1, <2>3
<1>2. CASE m.disk[d].img # NoImage
  <2>1. Flushed(m, s, d)
    BY FlushWorks
  <2>2. n = WithDisk(s, d, k)
    BY <1>2 DEF Eject, WithDisk
  <2> HIDE DEF s, n
  <2>3. s \in State /\ s.disk[d] \in Disk /\ s.disk \in [Drives -> Disk]
    BY <2>1 DEF Flushed, Sound, State
  <2>4. /\ k \in Disk /\ k.img = NoImage /\ ~k.dirty /\ k.switched
        /\ \A t \in Tracks : ~k.trk[t].dirty
    BY <2>3, EmptyDrive
  <2> HIDE DEF k
  <2>5. /\ n \in State /\ n.iwm = s.iwm /\ n.disk = [s.disk EXCEPT ![d] = k] /\ n.file = s.file
        /\ n.wrote = s.wrote /\ n.lost = s.lost
    BY <2>2, <2>3, <2>4 DEF WithDisk, State
  <2>6. n.disk[d] = k /\ \A e \in Drives : e # d => n.disk[e] = s.disk[e]
    BY <2>3, <2>5
  <2>7. Alone(n) /\ LitOK(n)
    BY <2>1, <2>4, <2>5, <2>6 DEF Flushed, Sound, Alone, LitOK
  <2>8. ASSUME NEW e \in Drives PROVE DriveOK(n, e)
    <3>1. DriveOK(s, e)
      BY <2>1 DEF Flushed, Sound
    <3> QED  BY <3>1, <2>4, <2>5, <2>6 DEF DriveOK
  <2>9. ASSUME NEW i \in Images \ n.lost PROVE ImageOK(n, i)
    <3> SUFFICES ASSUME NEW t \in Tracks, s.wrote[i][t] # s.file[i][t]
                 PROVE  \E e \in Bays : n.disk[e].img = i /\ n.disk[e].thru /\ n.disk[e].trk[t].dirty
      BY <2>5 DEF ImageOK
    <3>1. PICK e \in Bays : s.disk[e].img = i /\ s.disk[e].thru /\ s.disk[e].trk[t].dirty
      BY <2>1, <2>5 DEF Flushed, Sound, ImageOK
    <3>2. s.disk[e].dirty /\ e \in Drives
      BY <3>1, <2>1 DEF Flushed, Sound, DriveOK, Drives
    <3>3. e # d
      BY <3>1, <3>2, <2>1 DEF Flushed
    <3> QED  BY <3>1, <3>2, <3>3, <2>6
  <2>10. Sound(n)
    BY <2>5, <2>7, <2>8, <2>9 DEF Sound
  <2>11. Ejected(m, n, d)
    BY <2>1, <2>4, <2>5, <2>6, <2>10 DEF Ejected, Flushed
  <2> QED  BY <2>11 DEF n
<1> QED  BY <1>1, <1>2

(* The drive that holds the image, if any, is emptied: no drive has it      *)
(* then.                                                                    *)
LEMMA EjectNamedWorks ==
  ASSUME NEW m, Sound(m), NEW i \in Images, NEW ok \in BOOLEAN
  PROVE  /\ \/ EjectNamed(m, i, ok) = m
            \/ \E d \in Drives : m.disk[d].img = i /\ Ejected(m, EjectNamed(m, i, ok), d)
         /\ \A d \in Drives : EjectNamed(m, i, ok).disk[d].img # i
<1> DEFINE holder == {d \in Drives : m.disk[d].img = i}
<1>1. CASE holder = {}
  <2>1. EjectNamed(m, i, ok) = m
    BY <1>1 DEF EjectNamed
  <2> QED  BY <1>1, <2>1
<1>2. CASE holder # {}
  <2> DEFINE d == CHOOSE e \in holder : TRUE
  <2>1. d \in Drives /\ m.disk[d].img = i
    BY <1>2
  <2>2. EjectNamed(m, i, ok) = Eject(m, d, ok)
    BY <1>2 DEF EjectNamed
  <2> HIDE DEF d
  <2>3. Ejected(m, EjectNamed(m, i, ok), d)
    BY <2>1, <2>2, EjectWorks
  <2>4. i # NoImage
    BY IwmAssumption
  <2>5. \A e \in Drives : e # d => m.disk[e].img # i
    BY <2>1, <2>4 DEF Sound, Alone
  <2>6. \A e \in Drives : EjectNamed(m, i, ok).disk[e].img # i
    BY <2>3, <2>4, <2>5 DEF Ejected
  <2> QED  BY <2>1, <2>3, <2>6
<1> QED  BY <1>1, <1>2

(* What loading image i in drive d does                                     *)
Loaded(m, n, d, i) ==
  /\ Sound(n) /\ n.iwm = m.iwm /\ n.file = m.file
  /\ \A e \in Drives : e # d => n.disk[e] = m.disk[e]
  /\ n.disk[d].img = i /\ ~n.disk[d].dirty /\ (n.disk[d].thru <=> i \notin Compressed)
  /\ n.disk[d].switched = m.disk[d].switched

(* The drive with a disk read from the file                                 *)
Filled(k, i, f) ==
  [k EXCEPT !.img = i, !.thru = i \notin Compressed, !.dirty = FALSE,
            !.woz = i \in WozImages,
            !.prot = IF i \in Locked THEN 2 ELSE IF i \in Compressed THEN 1 ELSE 0,
            !.trk = [t \in Tracks |-> [data |-> f[t], dirty |-> FALSE]]]

(* A disk just loaded is clean.                                             *)
LEMMA FullDrive ==
  ASSUME NEW k \in Disk, NEW i \in Images, NEW f \in [Tracks -> Bytes], NEW kk,
         kk = Filled(k, i, f)
  PROVE  /\ kk \in Disk /\ kk.img = i /\ ~kk.dirty /\ kk.switched = k.switched
         /\ (kk.thru <=> i \notin Compressed)
         /\ \A t \in Tracks : ~kk.trk[t].dirty
<1> DEFINE trk == [t \in Tracks |-> [data |-> f[t], dirty |-> FALSE]]
           p == IF i \in Locked THEN 2 ELSE IF i \in Compressed THEN 1 ELSE 0
<1>1. trk \in [Tracks -> Track] /\ \A t \in Tracks : ~trk[t].dirty
  BY DEF Track
<1>2. p \in 0..2
  OBVIOUS
<1>3. PICK b \in BOOLEAN : b = (i \notin Compressed)
  <2>1. (i \notin Compressed) \in BOOLEAN
    OBVIOUS
  <2> QED  BY <2>1, Zenon
<1>4. PICK c \in BOOLEAN : c = (i \in WozImages)
  <2>1. (i \in WozImages) \in BOOLEAN
    OBVIOUS
  <2> QED  BY <2>1, Zenon
<1>5. kk = [k EXCEPT !.img = i, !.thru = b, !.dirty = FALSE, !.woz = c, !.prot = p, !.trk = trk]
  BY <1>3, <1>4, Zenon DEF Filled
<1> HIDE DEF trk, p
<1>6. PICK x \in Disk : x = [k EXCEPT !.img = i, !.thru = b, !.dirty = FALSE]
  BY DEF Disk
<1>7. x.img = i /\ x.thru = b /\ ~x.dirty /\ x.switched = k.switched
  BY <1>6 DEF Disk
<1>8. kk = [x EXCEPT !.woz = c, !.prot = p, !.trk = trk]
  BY <1>5, <1>6 DEF Disk
<1>9. kk \in Disk /\ kk.img = x.img /\ kk.thru = x.thru /\ kk.dirty = x.dirty
      /\ kk.switched = x.switched /\ kk.trk = trk
  BY <1>1, <1>2, <1>8 DEF Disk
<1> QED  BY <1>1, <1>3, <1>7, <1>9

(* An image that no drive holds goes into an empty drive.                   *)
LEMMA LoadWorks ==
  ASSUME NEW m, Sound(m), NEW d \in Drives, NEW i \in Images, m.disk[d].img = NoImage,
         \A e \in Drives : m.disk[e].img # i
  PROVE  Loaded(m, Load(m, d, i), d, i)
<1> DEFINE k == Filled(m.disk[d], i, m.file[i])
           n == Load(m, d, i)
<1>1. m \in State /\ m.disk[d] \in Disk /\ m.disk \in [Drives -> Disk] /\ m.file[i] \in [Tracks -> Bytes]
  BY DEF Sound, State
<1>2. n = WithDisk(m, d, k)
  BY DEF Load, WithDisk, Filled
<1>3. /\ k \in Disk /\ k.img = i /\ ~k.dirty /\ k.switched = m.disk[d].switched
      /\ (k.thru <=> i \notin Compressed)
      /\ \A t \in Tracks : ~k.trk[t].dirty
  BY <1>1, FullDrive
<1> HIDE DEF k, n
<1>4. /\ n \in State /\ n.iwm = m.iwm /\ n.disk = [m.disk EXCEPT ![d] = k] /\ n.file = m.file
      /\ n.wrote = m.wrote /\ n.lost = m.lost
  BY <1>1, <1>2, <1>3 DEF WithDisk, State
<1>5. n.disk[d] = k /\ \A e \in Drives : e # d => n.disk[e] = m.disk[e]
  BY <1>1, <1>4
<1>6. Alone(n) /\ LitOK(n)
  BY <1>3, <1>4, <1>5 DEF Sound, Alone, LitOK
<1>7. ASSUME NEW e \in Drives PROVE DriveOK(n, e)
  <2>1. DriveOK(m, e)
    BY DEF Sound
  <2> QED  BY <2>1, <1>3, <1>4, <1>5 DEF DriveOK
<1>8. ASSUME NEW j \in Images \ n.lost PROVE ImageOK(n, j)
  <2> SUFFICES ASSUME NEW t \in Tracks, m.wrote[j][t] # m.file[j][t]
               PROVE  \E e \in Bays : n.disk[e].img = j /\ n.disk[e].thru /\ n.disk[e].trk[t].dirty
    BY <1>4 DEF ImageOK
  <2>1. PICK e \in Bays : m.disk[e].img = j /\ m.disk[e].thru /\ m.disk[e].trk[t].dirty
    BY <1>4 DEF Sound, ImageOK
  <2>2. e # d /\ e \in Drives
    BY <2>1, IwmAssumption DEF Drives
  <2> QED  BY <2>1, <2>2, <1>5
<1>9. Sound(n)
  BY <1>4, <1>6, <1>7, <1>8 DEF Sound
<1>10. Loaded(m, n, d, i)
  BY <1>3, <1>4, <1>5, <1>9 DEF Loaded
<1> QED  BY <1>10 DEF n

(* What putting a disk in drive d or taking one out does to all drives      *)
Swapped(m, n, d) ==
  /\ Sound(n)
  /\ \A u \in Drives : u # d =>
       \/ n.disk[u] = m.disk[u]
       \/ n.disk[u].img = NoImage /\ m.disk[u].img # NoImage /\ n.disk[u].switched
  /\ n.disk[d].img # NoImage => (n.disk[d].thru <=> n.disk[d].img \notin Compressed)
  /\ m.disk[d].img # NoImage \/ m.disk[d].switched => n.disk[d].switched
  /\ \A u \in Units : u # d /\ n.disk[u] = m.disk[u] /\ m.disk[u].img # NoImage
       => n.file[m.disk[u].img] = m.file[m.disk[u].img]
  /\ \A e \in Bays : Forgotten(n, e) => Forgotten(m, e)

(* EjectDisk                                                                *)
LEMMA EjectSwaps ==
  ASSUME Sound(Now), NEW d \in Drives, NEW ok \in BOOLEAN, EjectDisk(d, ok)
  PROVE  Swapped(Now, Now', d)
<1> DEFINE n == Eject(Now, d, ok)
<1>1. Ejected(Now, n, d)
  BY EjectWorks
<1>2. Become(n)
  BY DEF EjectDisk
<1> HIDE DEF n
<1>3. Now' = n
  BY <1>1, <1>2, BecomeIs DEF Ejected, Sound
<1>4. \A u \in Units : u # d /\ Now.disk[u].img # NoImage
        => Now.disk[u].img \in Images /\ Now.disk[u].img # Now.disk[d].img
  BY DEF Sound, Alone, State, Disk, Drives
<1>5. \A e \in Bays : Forgotten(n, e) => Forgotten(Now, e)
  BY <1>1 DEF Ejected, Forgotten, Current, Drives
<1> QED  BY <1>1, <1>3, <1>4, <1>5 DEF Ejected, Swapped, Drives

(* InsertDisk: the image leaves the drive it was in, then the disk of d     *)
(* leaves, then the image goes into d.                                      *)
LEMMA InsertSwaps ==
  ASSUME Sound(Now), NEW d \in Drives, NEW i \in Images, NEW ok \in BOOLEAN, InsertDisk(d, i, ok)
  PROVE  Swapped(Now, Now', d)
<1> DEFINE m == Eject(Now, d, ok)
           s == EjectNamed(m, i, ok)
           n == Load(s, d, i)
<1>1. Ejected(Now, m, d)
  BY EjectWorks
<1>2. Become(n)
  BY DEF InsertDisk
<1> HIDE DEF m
<1>3. Sound(m) /\ i # NoImage
  BY <1>1, IwmAssumption DEF Ejected
<1>4. /\ s = m \/ \E h \in Drives : m.disk[h].img = i /\ Ejected(m, s, h)
      /\ \A e \in Drives : s.disk[e].img # i
  BY <1>3, EjectNamedWorks
<1> HIDE DEF s
<1>5. /\ Sound(s) /\ s.iwm = m.iwm /\ s.disk[d] = m.disk[d]
      /\ \A e \in Drives : \/ s.disk[e] = m.disk[e]
                           \/ /\ m.disk[e].img = i /\ s.disk[e].img = NoImage /\ ~s.disk[e].dirty
                              /\ s.disk[e].switched
      /\ \A j \in Images \ {i} : s.file[j] = m.file[j]
  <2>1. CASE s = m
    BY <2>1, <1>3
  <2>2. CASE \E h \in Drives : m.disk[h].img = i /\ Ejected(m, s, h)
    <3>1. PICK h \in Drives : m.disk[h].img = i /\ Ejected(m, s, h)
      BY <2>2
    <3>2. h # d
      BY <3>1, <1>1, <1>3 DEF Ejected
    <3> QED  BY <3>1, <3>2, <1>3 DEF Ejected
  <2> QED  BY <1>4, <2>1, <2>2
<1>6. Loaded(s, n, d, i)
  BY <1>1, <1>4, <1>5, LoadWorks DEF Ejected
<1> HIDE DEF n
<1>7. Now' = n
  BY <1>2, <1>6, BecomeIs DEF Loaded, Sound
<1>8. ASSUME NEW u \in Drives, u # d
      PROVE  \/ n.disk[u] = Now.disk[u]
             \/ n.disk[u].img = NoImage /\ Now.disk[u].img = i /\ n.disk[u].switched /\ ~n.disk[u].dirty
  <2>1. n.disk[u] = s.disk[u] /\ m.disk[u] = Now.disk[u]
    BY <1>1, <1>6, <1>8 DEF Loaded, Ejected
  <2> QED  BY <2>1, <1>5
<1>9. ASSUME NEW u \in Units, u # d, n.disk[u] = Now.disk[u], Now.disk[u].img # NoImage
      PROVE  n.file[Now.disk[u].img] = Now.file[Now.disk[u].img]
  <2> DEFINE j == Now.disk[u].img
  <2>1. u \in Drives /\ j \in Images /\ j # Now.disk[d].img
    BY <1>9 DEF Sound, Alone, State, Disk, Drives
  <2>2. j # i
    BY <1>4, <1>6, <1>9, <2>1 DEF Loaded
  <2> HIDE DEF j
  <2>3. n.file[j] = s.file[j] /\ s.file[j] = m.file[j] /\ m.file[j] = Now.file[j]
    BY <1>1, <1>5, <1>6, <2>1, <2>2 DEF Loaded, Ejected
  <2> QED  BY <2>3 DEF j
<1>10. ASSUME NEW e \in Bays, Forgotten(n, e) PROVE Forgotten(Now, e)
  <2>1. n.iwm = Now.iwm
    BY <1>1, <1>5, <1>6 DEF Ejected, Loaded
  <2>2. e # d /\ e \in Drives
    BY <1>6, <1>10 DEF Forgotten, Loaded, Drives
  <2>3. n.disk[e] = Now.disk[e]
    BY <2>2, <1>8, <1>10 DEF Forgotten
  <2> QED  BY <2>1, <2>3, <1>10 DEF Forgotten, Current
<1>11. Now.disk[d].img # NoImage \/ Now.disk[d].switched => n.disk[d].switched
  BY <1>1, <1>5, <1>6 DEF Ejected, Loaded
<1> QED
  <2>1. Sound(n) /\ (n.disk[d].thru <=> n.disk[d].img \notin Compressed)
    BY <1>6 DEF Loaded
  <2>2. Swapped(Now, n, d)
    BY <2>1, <1>3, <1>8, <1>9, <1>10, <1>11 DEF Swapped
  <2> QED  BY <2>2, <1>7

-----------------------------------------------------------------------------
(* The units                                                                *)

(* The units hold the same blocks.                                          *)
Alike(m, n) ==
  \A u \in Units :
    /\ n.disk[u].img = m.disk[u].img /\ n.disk[u].thru = m.disk[u].thru
    /\ n.disk[u].trk = m.disk[u].trk
    /\ m.disk[u].img # NoImage => n.file[m.disk[u].img] = m.file[m.disk[u].img]

(* A step that leaves the units' blocks leaves what calls kept.             *)
LEMMA AlikeKeeps ==
  ASSUME IInv, Sound(Now'), Alike(Now, Now'), PortInv', UNCHANGED kept
  PROVE  IInv'
<1>1. UnitsOK(Now')
  BY DEF IInv, UnitsOK, Alike
<1>2. KeptOK'
  <2> SUFFICES ASSUME NEW u \in Units, NEW b \in Blocks, kept[u][b] # "any"
               PROVE  Holds(Now', u, b, kept[u][b])
    BY DEF KeptOK
  <2>1. Holds(Now, u, b, kept[u][b])
    BY DEF IInv, KeptOK
  <2> QED  BY <2>1 DEF Holds, Alike
<1> QED  BY <1>1, <1>2 DEF IInv

(* A step of the IWM makes no call.                                         *)
LEMMA DriveInv ==
  ASSUME PortInv, Drive
  PROVE  PortInv' /\ UNCHANGED kept
BY IwmAssumption DEF PortInv, Drive, NoAnswer, Codes, Blocks

(* A step of the IWM that leaves the units alone                            *)
LEMMA UntouchedKeeps ==
  ASSUME IInv, Sound(Now'), Untouched(Now, Now'), Drive
  PROVE  IInv'
<1>1. Alike(Now, Now')
  BY DEF Alike, Untouched
<1>2. PortInv' /\ UNCHANGED kept
  BY DriveInv DEF IInv
<1> QED  BY <1>1, <1>2, AlikeKeeps

(* Another disk in a unit: nothing is expected of its blocks.               *)
LEMMA SwapKeeps ==
  ASSUME IInv, NEW d \in Drives, Swapped(Now, Now', d), Swap(d)
  PROVE  IInv'
<1> DEFINE gone == {u \in Units : disk[u].img # NoImage /\ (u = d \/ disk'[u].img # disk[u].img)}
<1>1. Sound(Now')
  BY DEF Swapped
<1>2. fresh' = fresh \cup gone /\ answer' = NoAnswer
      /\ kept' = [u \in Units |-> IF u = d \/ u \in gone THEN Unknown ELSE kept[u]]
  BY DEF Swap
<1>3. Unknown \in [Blocks -> Bytes \cup {"any"}]
  BY DEF Unknown
<1>4. PortInv'
  <2>1. kept' \in [Units -> [Blocks -> Bytes \cup {"any"}]]
    BY <1>2, <1>3 DEF IInv, PortInv
  <2>2. fresh' \subseteq Units
    BY <1>2 DEF IInv, PortInv
  <2>3. answer'.ret \in Codes /\ answer'.block \in Blocks
    BY <1>2, IwmAssumption DEF NoAnswer, Codes, Blocks
  <2> QED  BY <2>1, <2>2, <2>3 DEF PortInv
<1>5. UnitsOK(Now')
  <2> SUFFICES ASSUME NEW u \in Units, Now'.disk[u].img # NoImage
               PROVE  Now'.disk[u].thru <=> Now'.disk[u].img \notin Compressed
    BY DEF UnitsOK
  <2>1. CASE u = d
    BY <2>1 DEF Swapped
  <2>2. CASE u # d
    <3>1. Now'.disk[u] = Now.disk[u]
      BY <2>2 DEF Swapped, Drives
    <3> QED  BY <3>1 DEF IInv, UnitsOK
  <2> QED  BY <2>1, <2>2
<1>6. KeptOK'
  <2> SUFFICES ASSUME NEW u \in Units, NEW b \in Blocks, kept'[u][b] # "any"
               PROVE  Holds(Now', u, b, kept'[u][b])
    BY DEF KeptOK
  <2>1. u # d /\ u \notin gone /\ kept'[u] = kept[u]
    BY <1>2 DEF Unknown, Blocks
  <2>2. Holds(Now, u, b, kept[u][b])
    BY <2>1 DEF IInv, KeptOK
  <2>3. disk[u].img # NoImage /\ disk'[u].img = disk[u].img
    BY <2>1, <2>2, NowIs DEF Holds
  <2>4. Now'.disk[u] = Now.disk[u]
    BY <2>1, <2>3, NowIs DEF Swapped, Drives
  <2>5. Now'.file[Now.disk[u].img] = Now.file[Now.disk[u].img]
    BY <2>1, <2>3, <2>4, NowIs DEF Swapped
  <2> QED  BY <2>1, <2>2, <2>4, <2>5 DEF Holds
<1> QED  BY <1>1, <1>4, <1>5, <1>6 DEF IInv

(* No disk is forgotten.                                                    *)
Minded(m, n) == \A e \in Bays : Forgotten(n, e) => Forgotten(m, e)

(* A mark on a drive, the files and the history of writes as they were      *)
LEMMA MarkKeeps ==
  ASSUME IInv, NEW d \in Drives, NEW k \in Disk,
         k.img = disk[d].img, k.thru = disk[d].thru, k.dirty = disk[d].dirty, k.trk = disk[d].trk,
         disk' = [disk EXCEPT ![d] = k], UNCHANGED <<iwm, file, wrote, lost>>
  PROVE  Sound(Now') /\ Alike(Now, Now') /\ Minded(Now, Now')
<1>1. Sound(Now)
  BY DEF IInv
<1>2. Now' = WithDisk(Now, d, k)
  BY DEF Now, WithDisk
<1>3. Now.disk = disk /\ Now.file = file
  BY NowIs
<1>4. /\ Sound(Now') /\ Now'.disk = [disk EXCEPT ![d] = k] /\ Now'.file = file /\ Now'.iwm = Now.iwm
      /\ \A e \in Bays : Forgotten(Now', e) => Forgotten(Now, e)
  <2>1. /\ k.img = Now.disk[d].img /\ k.thru = Now.disk[d].thru /\ k.dirty = Now.disk[d].dirty
        /\ k.trk = Now.disk[d].trk
    BY <1>3
  <2> DEFINE n == Now'
  <2>2. n = WithDisk(Now, d, k)
    BY <1>2
  <2> HIDE DEF n
  <2>3. /\ Sound(n) /\ n.disk = [Now.disk EXCEPT ![d] = k] /\ n.file = Now.file /\ n.iwm = Now.iwm
        /\ \A e \in Bays : Forgotten(n, e) => Forgotten(Now, e)
    BY <1>1, <2>1, <2>2, MarkSound
  <2> QED  BY <1>3, <2>3 DEF n
<1>5. disk \in [Drives -> Disk]
  BY <1>1, <1>3 DEF Sound, State
<1> QED  BY <1>3, <1>4, <1>5 DEF Alike, Minded, Drives

(* The write protection of a disk is switched.                              *)
LEMMA ToggleKeeps ==
  ASSUME IInv, NEW d \in Drives, ToggleLock(d), Drive
  PROVE  IInv' /\ Minded(Now, Now')
<1>1. disk \in [Drives -> Disk]
  BY NowIs DEF IInv, Sound, State
<1> DEFINE k == [disk[d] EXCEPT !.prot = 1 - @]
<1>2. 1 - disk[d].prot \in 0..2
  BY <1>1 DEF ToggleLock, Disk
<1>3. k \in Disk /\ k.img = disk[d].img /\ k.thru = disk[d].thru /\ k.dirty = disk[d].dirty
      /\ k.trk = disk[d].trk
  BY <1>1, <1>2 DEF Disk
<1>4. disk' = [disk EXCEPT ![d] = k] /\ UNCHANGED <<iwm, file, wrote, lost>>
  BY DEF ToggleLock
<1> HIDE DEF k
<1>5. Sound(Now') /\ Alike(Now, Now') /\ Minded(Now, Now')
  BY <1>3, <1>4, MarkKeeps
<1> QED  BY <1>5, AlikeKeeps, DriveInv DEF IInv

(* An extended call takes the report of a changed disk.                     *)
LEMMA SeenKeeps ==
  ASSUME IInv, NEW u \in Units, NEW ext \in BOOLEAN, disk' = Seen(u, ext),
         UNCHANGED <<iwm, file, wrote, lost>>
  PROVE  Sound(Now') /\ Alike(Now, Now') /\ Minded(Now, Now')
<1>1. disk \in [Drives -> Disk] /\ u \in Drives
  BY NowIs DEF IInv, Sound, State, Drives
<1>2. PICK b \in BOOLEAN : disk' = [disk EXCEPT ![u].switched = b]
  <2>1. (disk[u].switched /\ ~ext) \in BOOLEAN
    OBVIOUS
  <2>2. disk' = [disk EXCEPT ![u].switched = (disk[u].switched /\ ~ext)]
    BY DEF Seen
  <2> QED  BY <2>1, <2>2, Zenon
<1> DEFINE k == [disk[u] EXCEPT !.switched = b]
<1>3. k \in Disk /\ k.img = disk[u].img /\ k.thru = disk[u].thru /\ k.dirty = disk[u].dirty
      /\ k.trk = disk[u].trk
  BY <1>1 DEF Disk
<1>4. disk' = [disk EXCEPT ![u] = k]
  BY <1>2
<1> HIDE DEF k
<1> QED  BY <1>1, <1>3, <1>4, MarkKeeps

(* Units of which the guest was not told are units.                         *)
LEMMA ToldFresh ==
  ASSUME NEW u, NEW ret, Told(u, ret), fresh \subseteq Units
  PROVE  fresh' \subseteq Units
BY DEF Told

(* A block is read.                                                         *)
LEMMA ReadCall ==
  ASSUME IInv, NEW u \in Units, NEW b \in Blocks, NEW ext \in BOOLEAN, NEW ok \in BOOLEAN,
         ReadBlock(u, b, ext, ok)
  PROVE  IInv' /\ Minded(Now, Now')
<1>1. disk' = Seen(u, ext) /\ UNCHANGED <<iwm, file, wrote, lost, kept>>
  BY DEF ReadBlock
<1>2. Sound(Now') /\ Alike(Now, Now') /\ Minded(Now, Now')
  BY <1>1, SeenKeeps
<1>3. PortInv'
  <2>1. answer'.ret \in Codes /\ answer'.block \in Blocks
    BY DEF ReadBlock, Reply, Codes
  <2>2. fresh' \subseteq Units
    BY ToldFresh DEF ReadBlock, IInv, PortInv
  <2> QED  BY <1>1, <2>1, <2>2 DEF PortInv, IInv
<1> QED  BY <1>1, <1>2, <1>3, AlikeKeeps

(* A status call, or one that is not implemented                            *)
LEMMA StatusCall ==
  ASSUME IInv, NEW u \in Units, NEW ext \in BOOLEAN, StatusUnit(u, ext) \/ OtherCall(u, ext)
  PROVE  IInv' /\ Minded(Now, Now')
<1>1. disk' = Seen(u, ext) /\ UNCHANGED <<iwm, file, wrote, lost, kept>>
  BY DEF StatusUnit, OtherCall
<1>2. Sound(Now') /\ Alike(Now, Now') /\ Minded(Now, Now')
  BY <1>1, SeenKeeps
<1>3. PortInv'
  <2>1. answer'.ret \in Codes /\ answer'.block \in Blocks
    BY IwmAssumption DEF StatusUnit, OtherCall, Reply, Codes, Blocks
  <2>2. fresh' \subseteq Units
    BY ToldFresh DEF StatusUnit, OtherCall, IInv, PortInv
  <2> QED  BY <1>1, <2>1, <2>2 DEF PortInv, IInv
<1> QED  BY <1>1, <1>2, <1>3, AlikeKeeps

(* The blocks of a unit are written in its file or in its memory: nothing   *)
(* of it waits to be saved, and no drive holds the same image.              *)
LEMMA UnitSound ==
  ASSUME NEW m, Sound(m), NEW u \in Units, NEW n \in State, n.iwm = m.iwm, n.lost = m.lost,
         n.disk[u].img = m.disk[u].img, ~n.disk[u].dirty,
         \A t \in Tracks : ~n.disk[u].trk[t].dirty,
         \A e \in Drives : e # u => n.disk[e] = m.disk[e],
         \A j \in Images : j # m.disk[u].img => n.file[j] = m.file[j] /\ n.wrote[j] = m.wrote[j],
         m.disk[u].img \in Images => \A t \in Tracks :
           n.wrote[m.disk[u].img][t] # n.file[m.disk[u].img][t] =>
             m.wrote[m.disk[u].img][t] # m.file[m.disk[u].img][t]
  PROVE  Sound(n) /\ Minded(m, n)
<1>1. m \in State /\ u \in Drives /\ u \notin Bays
  BY IwmAssumption DEF Sound, Drives
<1>2. Alone(n) /\ LitOK(n)
  BY DEF Sound, Alone, LitOK
<1>3. ASSUME NEW e \in Drives PROVE DriveOK(n, e)
  <2>1. CASE e = u
    BY <2>1 DEF DriveOK
  <2>2. CASE e # u
    <3>1. DriveOK(m, e) /\ n.disk[e] = m.disk[e]
      BY <2>2 DEF Sound
    <3>2. m.disk[e].img # NoImage => m.disk[e].img \in Images /\ m.disk[e].img # m.disk[u].img
      BY <1>1, <2>2 DEF Sound, Alone, State, Disk
    <3> QED  BY <3>1, <3>2 DEF DriveOK
  <2> QED  BY <2>1, <2>2
<1>4. ASSUME NEW j \in Images \ n.lost PROVE ImageOK(n, j)
  <2> SUFFICES ASSUME NEW t \in Tracks, n.wrote[j][t] # n.file[j][t]
               PROVE  \E e \in Bays : n.disk[e].img = j /\ n.disk[e].thru /\ n.disk[e].trk[t].dirty
    BY DEF ImageOK
  <2>1. m.wrote[j][t] # m.file[j][t]
    OBVIOUS
  <2>2. PICK e \in Bays : m.disk[e].img = j /\ m.disk[e].thru /\ m.disk[e].trk[t].dirty
    BY <2>1 DEF Sound, ImageOK
  <2>3. e # u /\ e \in Drives
    BY <1>1 DEF Drives
  <2> QED  BY <2>2, <2>3
<1>5. Minded(m, n)
  BY <1>1 DEF Minded, Forgotten, Current, Drives
<1> QED  BY <1>2, <1>3, <1>4, <1>5 DEF Sound

(* A call's prologue changes the mark of one unit only.                     *)
LEMMA SeenIs ==
  ASSUME disk \in [Drives -> Disk], NEW u \in Units, NEW ext \in BOOLEAN
  PROVE  /\ Seen(u, ext) \in [Drives -> Disk]
         /\ \A e \in Drives : e # u => Seen(u, ext)[e] = disk[e]
         /\ Seen(u, ext)[u].img = disk[u].img /\ Seen(u, ext)[u].thru = disk[u].thru
         /\ Seen(u, ext)[u].dirty = disk[u].dirty /\ Seen(u, ext)[u].trk = disk[u].trk
<1>1. PICK b \in BOOLEAN : Seen(u, ext) = [disk EXCEPT ![u].switched = b]
  <2>1. (disk[u].switched /\ ~ext) \in BOOLEAN
    OBVIOUS
  <2>2. Seen(u, ext) = [disk EXCEPT ![u].switched = (disk[u].switched /\ ~ext)]
    BY DEF Seen
  <2> QED  BY <2>1, <2>2, Zenon
<1>2. u \in Drives /\ disk[u] \in Disk
  BY DEF Drives
<1> DEFINE k == [disk[u] EXCEPT !.switched = b]
<1>3. /\ k \in Disk
      /\ k.img = disk[u].img /\ k.thru = disk[u].thru
      /\ k.dirty = disk[u].dirty /\ k.trk = disk[u].trk
  BY <1>2 DEF Disk
<1>4. Seen(u, ext) = [disk EXCEPT ![u] = k]
  BY <1>1
<1> HIDE DEF k
<1> QED  BY <1>2, <1>3, <1>4

(* A block is written, refused by the host, or goes to memory only.         *)
LEMMA WriteCall ==
  ASSUME IInv, NEW u \in Units, NEW b \in Blocks, NEW ext \in BOOLEAN, NEW ok \in BOOLEAN,
         WriteBlock(u, b, "new", ext, ok)
  PROVE  IInv' /\ Minded(Now, Now')
<1> DEFINE i == disk[u].img
           thru == disk[u].thru
           ret == IF Changed(u, ext) THEN 46
                  ELSE IF i = NoImage THEN 40
                  ELSE IF disk[u].prot # 0 THEN 43
                  ELSE IF b >= Size(i) THEN 39
                  ELSE IF thru /\ ~ok THEN 43 ELSE 0
           failed == ret = 43 /\ disk[u].prot = 0
           seen == Seen(u, ext)
<1>1. /\ disk \in [Drives -> Disk] /\ u \in Drives /\ u \notin Bays /\ Now \in State /\ Sound(Now)
      /\ file \in [Images -> [Tracks -> Bytes]] /\ wrote \in [Images -> [Tracks -> Bytes]]
      /\ iwm \in Controller /\ lost \in SUBSET Images
      /\ \A j \in Images : Start[j] \in Int
      /\ \A t \in Tracks : t \in Int
  <2>1. (\A j \in Images : Start[j] \in Int) /\ \A t \in Tracks : t \in Int
    <3>1. \A t \in Tracks : t \in Int
      BY IwmAssumption
    <3> QED  BY <3>1, SmartPortAssumption
  <2>2. u \in Drives /\ u \notin Bays
    BY IwmAssumption DEF Drives
  <2>3. Sound(Now) /\ Now \in State
    BY DEF IInv, Sound
  <2>4. /\ disk \in [Drives -> Disk]
        /\ file \in [Images -> [Tracks -> Bytes]] /\ wrote \in [Images -> [Tracks -> Bytes]]
        /\ iwm \in Controller /\ lost \in SUBSET Images
    BY <2>3, NowIs DEF State
  <2> QED  BY <2>1, <2>2, <2>3, <2>4
<1>2. /\ seen \in [Drives -> Disk]
      /\ \A e \in Drives : e # u => seen[e] = disk[e]
      /\ seen[u].img = i /\ seen[u].thru = thru /\ seen[u].dirty = disk[u].dirty /\ seen[u].trk = disk[u].trk
  BY <1>1, SeenIs
<1>3. ~disk[u].dirty /\ \A t \in Tracks : ~disk[u].trk[t].dirty
  BY <1>1, NowIs DEF Sound, DriveOK
<1>4. /\ Reply(ret, "write", u, b, "any") /\ Told(u, ret) /\ UNCHANGED <<iwm, lost>>
      /\ kept' = IF ret = 0 THEN [kept EXCEPT ![u][b] = "new"] ELSE kept
  BY DEF WriteBlock
<1>5. PortInv'
  <2>1. ret \in Codes
    BY DEF Codes
  <2>2. fresh' \subseteq Units
    BY <1>4, ToldFresh DEF IInv, PortInv
  <2>3. kept' \in [Units -> [Blocks -> Bytes \cup {"any"}]]
    BY <1>4 DEF IInv, PortInv, Bytes
  <2>4. answer'.ret = ret /\ answer'.block = b
    BY <1>4 DEF Reply
  <2> QED  BY <2>1, <2>2, <2>3, <2>4 DEF PortInv
<1>6. ret = 0 => i \in Images /\ i # NoImage
  BY <1>1 DEF Disk
<1>7. \A e \in Units : e # u /\ disk[e].img # NoImage => disk[e].img # i
  BY <1>1, NowIs DEF Sound, Alone, Drives
<1>8. Now'.iwm = Now.iwm /\ Now'.lost = Now.lost
  BY <1>4, NowIs
<1>9. CASE ret = 0 /\ thru
  <2>1. /\ file' = [file EXCEPT ![i][Start[i] + b] = "new"]
        /\ wrote' = [wrote EXCEPT ![i][Start[i] + b] = "new"]
        /\ disk' = seen
    BY <1>9 DEF WriteBlock, FileBlock
  <2> HIDE DEF ret, seen
  <2>2. /\ file' \in [Images -> [Tracks -> Bytes]] /\ wrote' \in [Images -> [Tracks -> Bytes]]
        /\ \A j \in Images : j # i => file'[j] = file[j] /\ wrote'[j] = wrote[j]
        /\ \A t \in Tracks : IF t = Start[i] + b THEN file'[i][t] = "new" /\ wrote'[i][t] = "new"
                             ELSE file'[i][t] = file[i][t] /\ wrote'[i][t] = wrote[i][t]
    BY <1>1, <1>6, <1>9, <2>1 DEF Bytes
  <2>3. Now' \in State
    BY <1>1, <1>2, <1>4, <2>1, <2>2, NowIs DEF State
  <2>4. /\ Now'.disk[u].img = Now.disk[u].img /\ ~Now'.disk[u].dirty
        /\ \A t \in Tracks : ~Now'.disk[u].trk[t].dirty
        /\ \A e \in Drives : e # u => Now'.disk[e] = Now.disk[e]
        /\ \A j \in Images : j # Now.disk[u].img => Now'.file[j] = Now.file[j] /\ Now'.wrote[j] = Now.wrote[j]
        /\ \A t \in Tracks : Now'.wrote[Now.disk[u].img][t] # Now'.file[Now.disk[u].img][t] =>
             Now.wrote[Now.disk[u].img][t] # Now.file[Now.disk[u].img][t]
    BY <1>2, <1>3, <2>1, <2>2, NowIs
  <2>5. Sound(Now') /\ Minded(Now, Now')
    BY <1>1, <1>8, <2>3, <2>4, UnitSound
  <2>6. UnitsOK(Now')
    BY <1>1, <1>2, <2>1, NowIs DEF IInv, UnitsOK, Drives
  <2>8. Now'.disk[u].img = i /\ Now'.disk[u].thru /\ i \in Images /\ i # NoImage
    BY <1>2, <1>6, <1>9, <2>1, NowIs
  <2>7. KeptOK'
    <3> SUFFICES ASSUME NEW e \in Units, NEW c \in Blocks, kept'[e][c] # "any"
                 PROVE  Holds(Now', e, c, kept'[e][c])
      BY DEF KeptOK
    <3>1. CASE e # u
      <4>1. kept'[e] = kept[e] /\ Now'.disk[e] = disk[e]
        BY <1>2, <1>4, <2>1, <3>1, NowIs DEF IInv, PortInv, Drives
      <4>2. Holds(Now, e, c, kept[e][c])
        BY <4>1 DEF IInv, KeptOK
      <4>3. disk[e].img \in Images /\ disk[e].img # i
        BY <1>1, <1>7, <3>1, <4>2, NowIs DEF Holds, Disk, Drives
      <4>4. Now'.file[disk[e].img] = file[disk[e].img]
        BY <2>2, <4>3, NowIs
      <4> QED  BY <4>1, <4>2, <4>4, NowIs DEF Holds
    <3>2. CASE e = u /\ c = b
      <4>1. kept'[e][c] = "new"
        BY <1>4, <1>9, <3>2 DEF IInv, PortInv
      <4>2. Start[i] + b \in Tracks => Now'.file[i][Start[i] + b] = "new"
        BY <2>2, NowIs
      <4> QED  BY <2>8, <3>2, <4>1, <4>2 DEF Holds
    <3>3. CASE e = u /\ c # b
      <4>1. kept'[e][c] = kept[e][c]
        BY <1>4, <1>9, <3>3 DEF IInv, PortInv
      <4>2. Holds(Now, e, c, kept[e][c])
        BY <4>1 DEF IInv, KeptOK
      <4>3. Start[i] + c # Start[i] + b
        <5>1. Start[i] \in Int /\ b \in Int /\ c \in Int
          BY <1>1, <2>8 DEF Blocks
        <5> DEFINE x == Start[i]
        <5> HIDE DEF x
        <5>2. x \in Int
          BY <5>1 DEF x
        <5>3. x + c # x + b
          BY <5>1, <5>2, <3>3
        <5> QED  BY <5>3 DEF x
      <4>4. Start[i] + c \in Tracks => Now'.file[i][Start[i] + c] = Now.file[i][Start[i] + c]
        BY <2>2, <4>3, NowIs
      <4>5. Now.disk[u].img = i /\ Now.disk[u].thru
        BY <1>9, NowIs
      <4> QED  BY <2>8, <3>3, <4>1, <4>2, <4>4, <4>5 DEF Holds
    <3> QED  BY <3>1, <3>2, <3>3
  <2> QED  BY <1>5, <2>5, <2>6, <2>7 DEF IInv
<1>10. CASE ~(ret = 0 /\ thru)
  <2> DEFINE trk == IF ret = 0 THEN [disk[u].trk EXCEPT ![b].data = "new"] ELSE disk[u].trk
             p == IF failed THEN 1 ELSE seen[u].prot
             k == [seen[u] EXCEPT !.trk = trk, !.prot = p]
  <2>1. /\ UNCHANGED <<file, wrote>>
        /\ disk' = [seen EXCEPT
             ![u].trk = IF ret = 0 THEN [@ EXCEPT ![b].data = "new"] ELSE @,
             ![u].prot = IF failed THEN 1 ELSE @]
    BY <1>10 DEF WriteBlock, MemoryBlock
  <2>2. disk' = [seen EXCEPT ![u] = k]
    <3> HIDE DEF ret, seen, failed
    <3> QED  BY <1>1, <1>2, <2>1 DEF Disk
  <2>3. trk \in [Tracks -> Track] /\ (\A t \in Tracks : ~trk[t].dirty)
        /\ (ret = 0 => trk[b].data = "new" /\ \A t \in Tracks : t # b => trk[t] = disk[u].trk[t])
        /\ (ret # 0 => trk = disk[u].trk)
    <3> HIDE DEF ret, seen, failed
    <3>1. disk[u].trk \in [Tracks -> Track] /\ b \in Tracks
      BY <1>1 DEF Disk, Blocks
    <3> QED  BY <1>3, <3>1 DEF Track, Bytes
  <2>4. p \in 0..2
    <3> HIDE DEF ret, seen, failed
    <3> QED  BY <1>1, <1>2 DEF Disk
  <2> HIDE DEF ret, seen, failed, trk, p
  <2>5. k \in Disk /\ k.img = i /\ k.thru = thru /\ ~k.dirty /\ k.trk = trk
    <3>1. seen[u] \in Disk
      BY <1>1, <1>2
    <3>2. k \in Disk
      BY <3>1, <2>3, <2>4 DEF Disk
    <3>3. k.img = seen[u].img /\ k.thru = seen[u].thru /\ k.dirty = seen[u].dirty /\ k.trk = trk
      BY <3>1 DEF Disk
    <3> HIDE DEF k
    <3> QED  BY <1>2, <1>3, <3>2, <3>3
  <2> HIDE DEF k
  <2>6. disk' \in [Drives -> Disk] /\ disk'[u] = k /\ \A e \in Drives : e # u => disk'[e] = disk[e]
    BY <1>1, <1>2, <2>2, <2>5
  <2>7. Now' \in State
    BY <1>1, <1>4, <2>1, <2>6, NowIs DEF State
  <2>8. Sound(Now') /\ Minded(Now, Now')
    <3>1. /\ Now'.disk[u].img = Now.disk[u].img /\ ~Now'.disk[u].dirty
          /\ \A t \in Tracks : ~Now'.disk[u].trk[t].dirty
          /\ \A e \in Drives : e # u => Now'.disk[e] = Now.disk[e]
          /\ Now'.file = Now.file /\ Now'.wrote = Now.wrote
      BY <2>1, <2>3, <2>5, <2>6, NowIs
    <3> QED  BY <1>1, <1>8, <2>7, <3>1, UnitSound
  <2>9. UnitsOK(Now')
    BY <2>5, <2>6, NowIs DEF IInv, UnitsOK, Drives
  <2>10. KeptOK'
    <3> SUFFICES ASSUME NEW e \in Units, NEW c \in Blocks, kept'[e][c] # "any"
                 PROVE  Holds(Now', e, c, kept'[e][c])
      BY DEF KeptOK
    <3>1. CASE e # u
      <4>1. kept'[e] = kept[e] /\ Now'.disk[e] = disk[e]
        BY <1>4, <2>6, <3>1, NowIs DEF IInv, PortInv, Drives
      <4>2. Holds(Now, e, c, kept[e][c])
        BY <4>1 DEF IInv, KeptOK
      <4> QED  BY <2>1, <4>1, <4>2, NowIs DEF Holds
    <3>2. CASE e = u /\ (ret # 0 \/ c # b)
      <4>1. kept'[e][c] = kept[e][c]
        BY <1>4, <3>2 DEF IInv, PortInv
      <4>2. Holds(Now, e, c, kept[e][c])
        BY <4>1 DEF IInv, KeptOK
      <4>3. trk[c] = disk[u].trk[c]
        BY <2>3, <3>2 DEF Blocks
      <4>4. Now'.disk[u] = k /\ Now.disk[u] = disk[u] /\ Now'.file = Now.file
        BY <2>1, <2>6, NowIs
      <4>5. k.img = Now.disk[u].img /\ k.thru = Now.disk[u].thru /\ k.trk[c] = Now.disk[u].trk[c]
        BY <2>5, <4>3, <4>4
      <4> QED  BY <3>2, <4>1, <4>2, <4>4, <4>5 DEF Holds
    <3>3. CASE e = u /\ ret = 0 /\ c = b
      <4>1. kept'[e][c] = "new"
        BY <1>4, <3>3 DEF IInv, PortInv
      <4>2. Now'.disk[u].img # NoImage /\ ~Now'.disk[u].thru /\ Now'.disk[u].trk[b].data = "new"
        BY <1>6, <1>10, <2>3, <2>5, <2>6, <3>3, NowIs
      <4> QED  BY <3>3, <4>1, <4>2 DEF Holds
    <3> QED  BY <3>1, <3>2, <3>3
  <2> QED  BY <1>5, <2>8, <2>9, <2>10 DEF IInv
<1> QED  BY <1>9, <1>10

(* Zeros are written to the first n blocks.                                 *)
LEMMA FormatCall ==
  ASSUME IInv, NEW u \in Units, NEW n \in 0..Cardinality(Blocks), NEW ext \in BOOLEAN,
         FormatUnit(u, n, ext)
  PROVE  IInv' /\ Minded(Now, Now')
<1> DEFINE i == disk[u].img
           refused == IF Changed(u, ext) THEN 46
                      ELSE IF i = NoImage THEN 40
                      ELSE IF disk[u].prot # 0 \/ InMemory(u) THEN 43 ELSE 0
           zeroed(f) == [t \in Tracks |-> IF t \in Start[i]..(Start[i] + n - 1) THEN "zero" ELSE f[t]]
           seen == Seen(u, ext)
           ret == IF n = Size(i) THEN 0 ELSE 43
<1>1. /\ disk \in [Drives -> Disk] /\ u \in Drives /\ u \notin Bays /\ Now \in State /\ Sound(Now)
      /\ file \in [Images -> [Tracks -> Bytes]] /\ wrote \in [Images -> [Tracks -> Bytes]]
      /\ iwm \in Controller /\ lost \in SUBSET Images
      /\ \A j \in Images : Start[j] \in Int
      /\ \A t \in Tracks : t \in Int
  <2>1. (\A j \in Images : Start[j] \in Int) /\ \A t \in Tracks : t \in Int
    <3>1. \A t \in Tracks : t \in Int
      BY IwmAssumption
    <3> QED  BY <3>1, SmartPortAssumption
  <2>2. u \in Drives /\ u \notin Bays
    BY IwmAssumption DEF Drives
  <2>3. Sound(Now) /\ Now \in State
    BY DEF IInv, Sound
  <2>4. /\ disk \in [Drives -> Disk]
        /\ file \in [Images -> [Tracks -> Bytes]] /\ wrote \in [Images -> [Tracks -> Bytes]]
        /\ iwm \in Controller /\ lost \in SUBSET Images
    BY <2>3, NowIs DEF State
  <2> QED  BY <2>1, <2>2, <2>3, <2>4
<1>2. /\ seen \in [Drives -> Disk]
      /\ \A e \in Drives : e # u => seen[e] = disk[e]
      /\ seen[u].img = i /\ seen[u].thru = disk[u].thru /\ seen[u].dirty = disk[u].dirty
      /\ seen[u].trk = disk[u].trk
  BY <1>1, SeenIs
<1>3. ~disk[u].dirty /\ \A t \in Tracks : ~disk[u].trk[t].dirty
  BY <1>1, NowIs DEF Sound, DriveOK
<1>4. UNCHANGED <<iwm, lost>>
  BY DEF FormatUnit
<1>5. CASE refused # 0
  <2>1. /\ disk' = seen /\ UNCHANGED <<file, wrote, kept>>
        /\ Reply(refused, "format", u, 0, "any") /\ Told(u, refused)
    BY <1>5 DEF FormatUnit
  <2>2. refused \in Codes
    BY DEF Codes
  <2> HIDE DEF refused
  <2>3. Sound(Now') /\ Alike(Now, Now') /\ Minded(Now, Now')
    BY <2>1, <1>4, SeenKeeps
  <2>4. fresh' \subseteq Units
    BY <2>1, ToldFresh DEF IInv, PortInv
  <2>5. PortInv'
    BY <2>1, <2>2, <2>4, IwmAssumption DEF PortInv, IInv, Reply, Blocks
  <2> QED  BY <2>1, <2>3, <2>5, AlikeKeeps
<1>6. CASE refused = 0
  <2>1. /\ file' = [file EXCEPT ![i] = zeroed(@)]
        /\ wrote' = [wrote EXCEPT ![i] = zeroed(@)]
        /\ kept' = [kept EXCEPT ![u] = [b \in Blocks |-> IF b < n THEN "zero" ELSE @[b]]]
        /\ disk' = [seen EXCEPT ![u].prot = IF ret = 0 THEN @ ELSE 1]
        /\ Reply(ret, "format", u, 0, "any") /\ Told(u, ret)
    BY <1>6 DEF FormatUnit
  <2>2. i \in Images /\ i # NoImage /\ disk[u].thru
    <3>1. i \in Images /\ i # NoImage /\ i \notin Compressed
      BY <1>1, <1>6 DEF Disk, InMemory
    <3> QED  BY <3>1, NowIs DEF IInv, UnitsOK
  <2>3. ret \in Codes
    BY DEF Codes
  <2> HIDE DEF ret, refused, seen
  <2>4. PICK k \in Disk : /\ disk' = [seen EXCEPT ![u] = k]
                         /\ k.img = i /\ k.thru = disk[u].thru /\ ~k.dirty /\ k.trk = disk[u].trk
    <3> DEFINE p == IF ret = 0 THEN seen[u].prot ELSE 1
               k == [seen[u] EXCEPT !.prot = p]
    <3>1. seen[u] \in Disk
      BY <1>1, <1>2
    <3>2. p \in 0..2
      BY <3>1 DEF Disk
    <3>3. disk' = [seen EXCEPT ![u] = k]
      BY <2>1
    <3> HIDE DEF p
    <3>4. k \in Disk /\ k.img = seen[u].img /\ k.thru = seen[u].thru /\ k.dirty = seen[u].dirty
          /\ k.trk = seen[u].trk
      BY <3>1, <3>2 DEF Disk
    <3> HIDE DEF k
    <3> QED  BY <1>2, <1>3, <3>3, <3>4
  <2>5. disk' \in [Drives -> Disk] /\ disk'[u] = k /\ \A e \in Drives : e # u => disk'[e] = disk[e]
    BY <1>1, <1>2, <2>4
  <2>6. /\ file' \in [Images -> [Tracks -> Bytes]] /\ wrote' \in [Images -> [Tracks -> Bytes]]
        /\ \A j \in Images : j # i => file'[j] = file[j] /\ wrote'[j] = wrote[j]
        /\ \A t \in Tracks :
             IF t \in Start[i]..(Start[i] + n - 1)
             THEN file'[i][t] = "zero" /\ wrote'[i][t] = "zero"
             ELSE file'[i][t] = file[i][t] /\ wrote'[i][t] = wrote[i][t]
    <3> DEFINE z == Start[i]..(Start[i] + n - 1)
    <3> HIDE DEF z
    <3>1. file' = [file EXCEPT ![i] = [t \in Tracks |-> IF t \in z THEN "zero" ELSE file[i][t]]]
          /\ wrote' = [wrote EXCEPT ![i] = [t \in Tracks |-> IF t \in z THEN "zero" ELSE wrote[i][t]]]
      BY <2>1 DEF z
    <3>2. /\ file' \in [Images -> [Tracks -> Bytes]] /\ wrote' \in [Images -> [Tracks -> Bytes]]
          /\ \A j \in Images : j # i => file'[j] = file[j] /\ wrote'[j] = wrote[j]
          /\ \A t \in Tracks : IF t \in z THEN file'[i][t] = "zero" /\ wrote'[i][t] = "zero"
                               ELSE file'[i][t] = file[i][t] /\ wrote'[i][t] = wrote[i][t]
      BY <1>1, <2>2, <3>1 DEF Bytes
    <3> QED  BY <3>2 DEF z
  <2>7. Now' \in State
    BY <1>1, <1>4, <2>5, <2>6, NowIs DEF State
  <2>8. Sound(Now') /\ Minded(Now, Now')
    <3>1. /\ Now'.iwm = Now.iwm /\ Now'.lost = Now.lost
          /\ Now'.disk[u].img = Now.disk[u].img /\ ~Now'.disk[u].dirty
          /\ \A t \in Tracks : ~Now'.disk[u].trk[t].dirty
          /\ \A e \in Drives : e # u => Now'.disk[e] = Now.disk[e]
          /\ \A j \in Images : j # Now.disk[u].img => Now'.file[j] = Now.file[j] /\ Now'.wrote[j] = Now.wrote[j]
          /\ \A t \in Tracks : Now'.wrote[Now.disk[u].img][t] # Now'.file[Now.disk[u].img][t] =>
               Now.wrote[Now.disk[u].img][t] # Now.file[Now.disk[u].img][t]
      BY <1>3, <1>4, <2>4, <2>5, <2>6, NowIs
    <3> QED  BY <1>1, <2>7, <3>1, UnitSound
  <2>9. UnitsOK(Now')
    BY <2>4, <2>5, NowIs DEF IInv, UnitsOK, Drives
  <2>10. /\ kept' \in [Units -> [Blocks -> Bytes \cup {"any"}]]
         /\ \A e \in Units : e # u => kept'[e] = kept[e]
         /\ \A b \in Blocks : kept'[u][b] = IF b < n THEN "zero" ELSE kept[u][b]
    BY <2>1 DEF IInv, PortInv, Bytes
  <2>11. PortInv'
    <3>1. fresh' \subseteq Units
      BY <2>1, ToldFresh DEF IInv, PortInv
    <3> QED  BY <2>1, <2>3, <2>10, <3>1, IwmAssumption DEF PortInv, Reply, Blocks
  <2>12. KeptOK'
    <3> SUFFICES ASSUME NEW e \in Units, NEW c \in Blocks, kept'[e][c] # "any"
                 PROVE  Holds(Now', e, c, kept'[e][c])
      BY DEF KeptOK
    <3>1. CASE e # u
      <4>1. kept'[e] = kept[e] /\ Now'.disk[e] = disk[e]
        BY <2>5, <2>10, <3>1, NowIs DEF Drives
      <4>2. Holds(Now, e, c, kept[e][c])
        BY <4>1 DEF IInv, KeptOK
      <4>3. disk[e].img \in Images /\ disk[e].img # i
        BY <1>1, <3>1, <4>2, NowIs DEF Holds, Disk, Drives, Sound, Alone
      <4>4. Now'.file[disk[e].img] = file[disk[e].img]
        BY <2>6, <4>3, NowIs
      <4> QED  BY <4>1, <4>2, <4>4, NowIs DEF Holds
    <3>2. Now'.disk[u].img = i /\ Now'.disk[u].thru /\ Now.disk[u].img = i /\ Now.disk[u].thru
      BY <2>2, <2>4, <2>5, NowIs
    <3>3. c \in Int /\ Start[i] \in Int /\ n \in Int /\ c >= 0
      BY <1>1, <2>2, IwmAssumption DEF Blocks
    <3>4. CASE e = u /\ c < n
      <4>1. kept'[e][c] = "zero"
        BY <2>10, <3>4
      <4>2. Start[i] + c \in Start[i]..(Start[i] + n - 1)
        <5> DEFINE x == Start[i]
        <5> HIDE DEF x
        <5>1. x \in Int
          BY <3>3 DEF x
        <5>2. x + c \in x..(x + n - 1)
          BY <3>3, <3>4, <5>1
        <5> QED  BY <5>2 DEF x
      <4>3. Start[i] + c \in Tracks => Now'.file[i][Start[i] + c] = "zero"
        BY <2>6, <4>2, NowIs
      <4> QED  BY <2>2, <3>2, <3>4, <4>1, <4>3 DEF Holds
    <3>5. CASE e = u /\ ~(c < n)
      <4>1. kept'[e][c] = kept[e][c]
        BY <2>10, <3>5
      <4>2. Start[i] + c \notin Start[i]..(Start[i] + n - 1)
        <5> DEFINE x == Start[i]
        <5> HIDE DEF x
        <5>1. x \in Int
          BY <3>3 DEF x
        <5>2. x + c \notin x..(x + n - 1)
          BY <3>3, <3>5, <5>1
        <5> QED  BY <5>2 DEF x
      <4>3. Start[i] + c \in Tracks => Now'.file[i][Start[i] + c] = Now.file[i][Start[i] + c]
        BY <2>6, <4>2, NowIs
      <4>4. Holds(Now, e, c, kept[e][c])
        BY <4>1 DEF IInv, KeptOK
      <4> QED  BY <2>2, <3>2, <3>5, <4>1, <4>3, <4>4 DEF Holds
    <3> QED  BY <3>1, <3>4, <3>5
  <2> QED  BY <2>8, <2>9, <2>11, <2>12 DEF IInv
<1> QED  BY <1>5, <1>6

-----------------------------------------------------------------------------
(* The invariant                                                            *)

(* Nothing is written yet, so nothing is missing.                           *)
LEMMA InitInv ==
  ASSUME PortInit
  PROVE  IInv
<1>1. /\ iwm \in Controller /\ ~iwm.motorOn
  <2>1. 0 \in 0..SpinDown /\ 0 \in Tracks /\ "zero" \in Bytes
    BY IwmAssumption DEF Bytes
  <2> QED  BY <2>1 DEF PortInit, IwmInit, Controller
<1> DEFINE k == [img |-> NoImage, prot |-> 1, thru |-> FALSE, dirty |-> FALSE,
                 switched |-> FALSE, at |-> 0, trk |-> Blank, woz |-> FALSE]
<1>2. disk = [d \in Drives |-> k]
  BY DEF PortInit, IwmInit
<1>3. k \in Disk /\ k.img = NoImage /\ ~k.dirty /\ \A t \in Tracks : ~k.trk[t].dirty
  BY BlankType, IwmAssumption DEF Disk
<1> HIDE DEF k
<1>4. file \in [Images -> [Tracks -> Bytes]] /\ wrote = file /\ lost = {}
  BY DEF PortInit, IwmInit, Bytes
<1>5. Now \in State
  BY <1>1, <1>2, <1>3, <1>4 DEF Now, State
<1>6. Sound(Now)
  <2>1. Alone(Now)
    BY <1>2, <1>3, NowIs DEF Alone
  <2>2. \A d \in Drives : DriveOK(Now, d)
    BY <1>2, <1>3, NowIs DEF DriveOK
  <2>3. \A i \in Images : ImageOK(Now, i)
    BY <1>4, NowIs DEF ImageOK
  <2> QED  BY <1>1, <1>5, <2>1, <2>2, <2>3, NowIs DEF Sound, LitOK
<1>7. UnitsOK(Now)
  BY <1>2, <1>3, NowIs DEF UnitsOK, Drives
<1>8. kept = [u \in Units |-> Unknown] /\ answer = NoAnswer /\ fresh = {}
  BY DEF PortInit
<1>9. PortInv
  BY <1>8, IwmAssumption DEF PortInv, NoAnswer, Unknown, Codes, Blocks
<1>10. KeptOK
  BY <1>8 DEF KeptOK, Unknown
<1> QED  BY <1>6, <1>7, <1>9, <1>10 DEF IInv

(* The steps that turn to another drive without saving                      *)
TurnAway == IwmReset \/ \E on \in BOOLEAN : WriteC031(on)

(* Every step keeps the invariant, and only TurnAway forgets a disk.        *)
LEMMA NextInv ==
  ASSUME IInv, PortNext
  PROVE  IInv' /\ (Minded(Now, Now') \/ TurnAway)
<1>1. Sound(Now)
  BY DEF IInv
<1>2. ASSUME Drive, Keeps(Now, Now') PROVE IInv' /\ Minded(Now, Now')
  BY <1>2, UntouchedKeeps DEF Keeps, Minded
<1>3. ASSUME NEW d \in Drives, Swapped(Now, Now', d), Swap(d) PROVE IInv' /\ Minded(Now, Now')
  BY <1>3, SwapKeeps DEF Swapped, Minded
<1>4. ASSUME Drive, NEW ok \in BOOLEAN, NEW loc \in 8..15, ReadIwm(loc, ok)
      PROVE  IInv' /\ Minded(Now, Now')
  BY <1>1, <1>2, <1>4, ReadKeeps
<1>5. ASSUME Drive, NEW ok \in BOOLEAN, NEW loc \in 8..15, NEW v \in Bytes, WriteIwm(loc, v, ok)
      PROVE  IInv' /\ Minded(Now, Now')
  BY <1>1, <1>2, <1>5, WriteKeeps
<1>6. ASSUME Drive, NEW ok \in BOOLEAN, NEW t \in Tracks, MoveHead(t, ok)
      PROVE  IInv' /\ Minded(Now, Now')
  BY <1>1, <1>2, <1>6, HeadKeeps
<1>7. ASSUME Drive, NEW ok \in BOOLEAN, VblUpdate(ok)
      PROVE  IInv' /\ Minded(Now, Now')
  BY <1>1, <1>2, <1>7, VblKeeps
<1>8. ASSUME Drive, TurnAway PROVE IInv' /\ TurnAway
  BY <1>1, <1>8, TurnAwaySound, UntouchedKeeps DEF TurnAway
<1>9. ASSUME Drive, NEW d \in Drives, ToggleLock(d) PROVE IInv' /\ Minded(Now, Now')
  BY <1>9, ToggleKeeps
<1>10. ASSUME NEW d \in Drives, NEW ok \in BOOLEAN, PortEject(d, ok) PROVE IInv' /\ Minded(Now, Now')
  BY <1>1, <1>3, <1>10, EjectSwaps DEF PortEject
<1>11. ASSUME NEW d \in Drives, NEW ok \in BOOLEAN, NEW i \in Images, PortInsert(d, i, ok)
       PROVE  IInv' /\ Minded(Now, Now')
  BY <1>1, <1>3, <1>11, InsertSwaps DEF PortInsert
<1>12. ASSUME NEW u \in Units, Call(u) PROVE IInv' /\ Minded(Now, Now')
  <2>1. CASE \E b \in Blocks, ext, ok \in BOOLEAN : ReadBlock(u, b, ext, ok)
    BY <2>1, ReadCall
  <2>2. CASE \E b \in Blocks, ext, ok \in BOOLEAN : WriteBlock(u, b, "new", ext, ok)
    BY <2>2, WriteCall
  <2>3. CASE \E n \in 0..Cardinality(Blocks), ext \in BOOLEAN : FormatUnit(u, n, ext)
    BY <2>3, FormatCall
  <2>4. CASE \E ext \in BOOLEAN : StatusUnit(u, ext) \/ OtherCall(u, ext)
    BY <2>4, StatusCall
  <2> QED  BY <1>12, <2>1, <2>2, <2>3, <2>4 DEF Call
<1> QED
  BY <1>4, <1>5, <1>6, <1>7, <1>8, <1>9, <1>10, <1>11, <1>12 DEF PortNext, TurnAway

(* A stuttering step                                                        *)
LEMMA SameNow ==
  ASSUME UNCHANGED diskVars
  PROVE  Now' = Now
BY DEF diskVars, Now

(* A stuttering step keeps the invariant.                                   *)
LEMMA StutterInv ==
  ASSUME IInv, UNCHANGED portVars
  PROVE  IInv'
<1>1. Now' = Now /\ UNCHANGED <<answer, kept, fresh>>
  BY SameNow DEF portVars
<1> QED  BY <1>1 DEF IInv, PortInv, KeptOK

(* The invariant always holds.                                              *)
LEMMA AlwaysInv == PortSpec => []IInv
<1>1. PortInit => IInv
  BY InitInv
<1>2. IInv /\ [PortNext]_portVars => IInv'
  BY NextInv, StutterInv
<1> QED  BY <1>1, <1>2, PTL DEF PortSpec

-----------------------------------------------------------------------------
(* The theorems                                                             *)

(* The invariant says that the variables have their types.                  *)
LEMMA InvTypes == IInv => PortTypeOK
<1> SUFFICES ASSUME IInv PROVE PortTypeOK
  OBVIOUS
<1>1. Sound(Now) /\ Now \in State
  BY DEF IInv, Sound
<1>2. /\ iwm \in Controller /\ disk \in [Drives -> Disk]
      /\ file \in [Images -> [Tracks -> Bytes]] /\ wrote \in [Images -> [Tracks -> Bytes]]
      /\ lost \subseteq Images
  BY <1>1, NowIs DEF State
<1>3. \A d, e \in Drives : disk[d].img = disk[e].img /\ disk[d].img # NoImage => d = e
  BY <1>1, NowIs DEF Sound, Alone
<1>4. \A d \in Bays, t \in Tracks : disk[d].trk[t].dirty => disk[d].dirty
  BY <1>1, NowIs DEF Sound, DriveOK, Drives
<1> QED  BY <1>2, <1>3, <1>4 DEF IInv, PortInv, PortTypeOK, DiskTypeOK

(* Whatever the program does with the drives, and however the host answers, *)
(* a byte laid on a track that is kept up to date is in the file, or on a   *)
(* dirty track of the drive that holds the image (iwm_flush_disk_to_unix).  *)
THEOREM NothingEverLost == PortSpec => []NothingLost
<1>1. IInv => NothingLost
  <2> SUFFICES ASSUME IInv, NEW i \in Images \ lost, NEW t \in Tracks, wrote[i][t] # file[i][t]
               PROVE  \E d \in Bays : /\ disk[d].img = i /\ disk[d].thru /\ disk[d].dirty
                                     /\ disk[d].trk[t] = [data |-> wrote[i][t], dirty |-> TRUE]
    BY DEF NothingLost
  <2>1. Sound(Now) /\ Now \in State
    BY DEF IInv, Sound
  <2>2. PICK d \in Bays : disk[d].img = i /\ disk[d].thru /\ disk[d].trk[t].dirty
    BY <2>1, NowIs DEF Sound, ImageOK
  <2>3. disk[d].dirty /\ disk[d].trk[t].data = wrote[i][t]
    BY <2>1, <2>2, NowIs DEF Sound, DriveOK, Drives
  <2>4. disk[d].trk[t] \in Track
    BY <2>1, NowIs DEF State, Disk, Drives
  <2>5. disk[d].trk[t] = [data |-> wrote[i][t], dirty |-> TRUE]
    BY <2>2, <2>3, <2>4 DEF Track
  <2> QED  BY <2>2, <2>3, <2>5
<1> QED  BY <1>1, AlwaysInv, PTL

(* A call that reads a block answers with the block kept.                   *)
LEMMA ReadsBackStep ==
  ASSUME IInv, PortNext, \A i \in Compressed : Start[i] = 0
  PROVE  ReadsBack'
<1> SUFFICES ASSUME answer'.cmd = "read", answer'.ret = 0,
                    kept'[answer'.unit][answer'.block] # "any"
             PROVE  answer'.data = kept'[answer'.unit][answer'.block]
  BY DEF ReadsBack
<1>1. PICK u \in Units, b \in Blocks, ext \in BOOLEAN, ok \in BOOLEAN : ReadBlock(u, b, ext, ok)
  <2>1. answer' # NoAnswer
    BY DEF NoAnswer
  <2>2. \E u \in Units : Call(u)
    BY <2>1 DEF PortNext, Drive, PortEject, PortInsert, Swap
  <2> QED
    <3>1. PICK u \in Units : Call(u)
      BY <2>2
    <3>2. CASE \E b \in Blocks, ext, ok \in BOOLEAN : ReadBlock(u, b, ext, ok)
      BY <3>2
    <3>3. CASE \E b \in Blocks, ext, ok \in BOOLEAN : WriteBlock(u, b, "new", ext, ok)
      <4>1. answer'.cmd = "write"
        BY <3>3 DEF WriteBlock, Reply
      <4> QED  BY <4>1
    <3>4. CASE \E n \in 0..Cardinality(Blocks), ext \in BOOLEAN : FormatUnit(u, n, ext)
      <4>1. answer'.cmd = "format"
        BY <3>4 DEF FormatUnit, Reply
      <4> QED  BY <4>1
    <3>5. CASE \E ext \in BOOLEAN : StatusUnit(u, ext) \/ OtherCall(u, ext)
      <4>1. answer'.cmd \in {"status", "other"}
        BY <3>5 DEF StatusUnit, OtherCall, Reply
      <4> QED  BY <4>1
    <3> QED  BY <3>1, <3>2, <3>3, <3>4, <3>5 DEF Call
<1> DEFINE i == disk[u].img
           at == Start[i] + b
<1>2. answer'.unit = u /\ answer'.block = b /\ kept' = kept
  BY <1>1 DEF ReadBlock, Reply
<1>3. Holds(Now, u, b, kept[u][b]) /\ i # NoImage
  BY <1>2, NowIs DEF IInv, KeptOK, Holds
<1>4. i \in Images /\ disk[u].thru = (i \notin Compressed) /\ b \in Nat
  <2>1. Now.disk \in [Drives -> Disk]
    BY DEF IInv, Sound, State
  <2>2. i \in Images /\ disk[u].thru \in BOOLEAN
    BY <1>3, <2>1, NowIs DEF Drives, Disk
  <2>3. disk[u].thru <=> i \notin Compressed
    BY <1>3, NowIs DEF IInv, UnitsOK
  <2> QED  BY <2>2, <2>3, IwmAssumption DEF Blocks
<1>5. CASE i \notin Compressed
  <2>1. at \in Blocks /\ answer'.data = file[i][at]
    BY <1>1, <1>3, <1>5 DEF ReadBlock, Reply, InMemory
  <2>2. at \in Tracks => file[i][at] = kept[u][b]
    BY <1>3, <1>4, <1>5, NowIs DEF Holds
  <2> QED  BY <1>2, <2>1, <2>2 DEF Blocks
<1>6. CASE i \in Compressed
  <2>1. at = b
    BY <1>4, <1>6
  <2>2. answer'.data = disk[u].trk[b].data
    BY <1>1, <1>3, <1>6, <2>1 DEF ReadBlock, Reply, InMemory
  <2>3. disk[u].trk[b].data = kept[u][b]
    BY <1>3, <1>4, <1>6, NowIs DEF Holds
  <2> QED  BY <1>2, <2>2, <2>3
<1> QED  BY <1>5, <1>6

(* Where the memory a file was unpacked to has no header before its blocks, *)
(* a unit gives back what a call that succeeded wrote (do_read_c7 adds      *)
(* dimage_start to an address in memory, smartport_memory_write does not).  *)
THEOREM BlocksAlwaysReadBack ==
  ASSUME \A i \in Compressed : Start[i] = 0
  PROVE  PortSpec => []BlocksReadBack
<1>1. PortInit => ReadsBack
  BY DEF PortInit, ReadsBack, NoAnswer
<1>2. IInv /\ ReadsBack /\ [PortNext]_portVars => ReadsBack'
  <2>1. ASSUME IInv, PortNext PROVE ReadsBack'
    BY <2>1, ReadsBackStep
  <2>2. ASSUME ReadsBack, UNCHANGED portVars PROVE ReadsBack'
    BY <2>2 DEF ReadsBack, portVars
  <2> QED  BY <2>1, <2>2
<1>3. IInv /\ ReadsBack => BlocksReadBack
  BY InvTypes DEF BlocksReadBack
<1> QED  BY <1>1, <1>2, <1>3, AlwaysInv, PTL DEF PortSpec

(* Only a call about the unit takes back the mark of a changed disk.        *)
LEMMA CallTells ==
  ASSUME FreshOK, NEW u \in Units, NEW ext \in BOOLEAN, NEW ret, Told(u, ret), fresh \subseteq Units,
         \A e \in Units : e # u => disk'[e].switched = disk[e].switched,
         disk'[u].switched <=> disk[u].switched /\ ~ext,
         ext /\ disk[u].switched => ret = 46 \/ (ret = 0 /\ disk[u].img = NoImage)
  PROVE  FreshOK'
BY DEF FreshOK, Told

(* The mark of a changed disk after a call's prologue                       *)
LEMMA SeenSwitched ==
  ASSUME disk \in [Drives -> Disk], NEW u \in Units, NEW ext \in BOOLEAN
  PROVE  Seen(u, ext)[u].switched <=> disk[u].switched /\ ~ext
<1>1. u \in Drives /\ disk[u] \in Disk
  BY DEF Drives
<1>2. (disk[u].switched /\ ~ext) \in BOOLEAN
  OBVIOUS
<1>3. PICK b \in BOOLEAN : b = (disk[u].switched /\ ~ext)
  BY <1>2, Zenon
<1>4. Seen(u, ext) = [disk EXCEPT ![u].switched = b]
  BY <1>3, Zenon DEF Seen
<1>5. Seen(u, ext)[u].switched = b
  BY <1>1, <1>4 DEF Disk
<1> QED  BY <1>3, <1>5

(* No step takes back a mark the guest has not been told of.                *)
LEMMA FreshStep ==
  ASSUME IInv, FreshOK, PortNext, "other" \notin Commands
  PROVE  FreshOK'
<1>1. Sound(Now) /\ Now \in State /\ disk \in [Drives -> Disk] /\ fresh \subseteq Units
  BY NowIs DEF IInv, PortInv, Sound, State
<1>2. ASSUME Drive, \A u \in Units : disk'[u].switched = disk[u].switched
      PROVE  FreshOK'
  BY <1>1, <1>2 DEF FreshOK, Drive
<1>3. ASSUME Drive, Untouched(Now, Now') PROVE FreshOK'
  BY <1>2, <1>3, NowIs DEF Untouched
<1>4. ASSUME NEW d \in Drives, Swapped(Now, Now', d), Swap(d) PROVE FreshOK'
  <2> DEFINE gone == {u \in Units : disk[u].img # NoImage /\ (u = d \/ disk'[u].img # disk[u].img)}
  <2> SUFFICES ASSUME NEW u \in fresh' PROVE disk'[u].switched
    BY DEF FreshOK
  <2>1. u \in Units /\ (u \in fresh \/ u \in gone)
    BY <1>1, <1>4 DEF Swap
  <2>2. u \in fresh => disk[u].switched
    BY DEF FreshOK
  <2>3. CASE u = d
    BY <1>4, <2>1, <2>2, <2>3, NowIs DEF Swapped
  <2>4. CASE u # d
    BY <1>4, <2>1, <2>2, <2>4, NowIs DEF Swapped, Drives
  <2> QED  BY <2>3, <2>4
<1>5. ASSUME NEW u \in Units, Call(u) PROVE FreshOK'
  <2>1. ASSUME NEW b \in Blocks, NEW ext \in BOOLEAN, NEW ok \in BOOLEAN, ReadBlock(u, b, ext, ok)
        PROVE  FreshOK'
    <3> DEFINE ret == IF Changed(u, ext) THEN 46
                      ELSE IF disk[u].img = NoImage THEN 47
                      ELSE IF ~InMemory(u) /\ (~ok \/ Start[disk[u].img] + b \notin Blocks) THEN 39 ELSE 0
    <3>1. Told(u, ret) /\ disk' = Seen(u, ext)
      BY <2>1 DEF ReadBlock
    <3>2. ext /\ disk[u].switched => ret = 46
      BY DEF Changed
    <3> HIDE DEF ret
    <3> QED  BY <1>1, <3>1, <3>2, SeenIs, SeenSwitched, CallTells DEF Drives
  <2>2. ASSUME NEW b \in Blocks, NEW ext \in BOOLEAN, NEW ok \in BOOLEAN,
               WriteBlock(u, b, "new", ext, ok)
        PROVE  FreshOK'
    <3> DEFINE ret == IF Changed(u, ext) THEN 46
                      ELSE IF disk[u].img = NoImage THEN 40
                      ELSE IF disk[u].prot # 0 THEN 43
                      ELSE IF b >= Size(disk[u].img) THEN 39
                      ELSE IF disk[u].thru /\ ~ok THEN 43 ELSE 0
               seen == Seen(u, ext)
    <3>1. Told(u, ret)
      BY <2>2 DEF WriteBlock
    <3>2. ext /\ disk[u].switched => ret = 46
      BY DEF Changed
    <3>3. \/ disk' = seen
          \/ \E trk, p : disk' = [seen EXCEPT ![u].trk = trk, ![u].prot = p]
      BY <2>2, ZenonT(40) DEF WriteBlock
    <3>4. seen \in [Drives -> Disk] /\ u \in Drives /\ (\A e \in Units : e # u => seen[e] = disk[e])
          /\ (seen[u].switched <=> disk[u].switched /\ ~ext)
      BY <1>1, SeenIs, SeenSwitched DEF Drives
    <3> HIDE DEF ret, seen
    <3>5. (\A e \in Units : e # u => disk'[e] = disk[e]) /\ disk'[u].switched = seen[u].switched
      BY <3>3, <3>4 DEF Disk, Drives
    <3> QED  BY <1>1, <3>1, <3>2, <3>4, <3>5, CallTells
  <2>3. ASSUME NEW n \in 0..Cardinality(Blocks), NEW ext \in BOOLEAN, FormatUnit(u, n, ext)
        PROVE  FreshOK'
    <3> DEFINE refused == IF Changed(u, ext) THEN 46
                      ELSE IF disk[u].img = NoImage THEN 40
                      ELSE IF disk[u].prot # 0 \/ InMemory(u) THEN 43 ELSE 0
               ret == IF refused # 0 THEN refused ELSE IF n = Size(disk[u].img) THEN 0 ELSE 43
               seen == Seen(u, ext)
    <3>1. Told(u, ret)
      BY <2>3 DEF FormatUnit
    <3>2. ext /\ disk[u].switched => ret = 46
      BY DEF Changed
    <3>3. disk' = seen \/ \E p : disk' = [seen EXCEPT ![u].prot = p]
      BY <2>3, Zenon DEF FormatUnit
    <3>4. seen \in [Drives -> Disk] /\ u \in Drives /\ (\A e \in Units : e # u => seen[e] = disk[e])
          /\ (seen[u].switched <=> disk[u].switched /\ ~ext)
      BY <1>1, SeenIs, SeenSwitched DEF Drives
    <3> HIDE DEF ret, refused, seen
    <3>5. (\A e \in Units : e # u => disk'[e] = disk[e]) /\ disk'[u].switched = seen[u].switched
      BY <3>3, <3>4 DEF Disk, Drives
    <3> QED  BY <1>1, <3>1, <3>2, <3>4, <3>5, CallTells
  <2>4. ASSUME NEW ext \in BOOLEAN, StatusUnit(u, ext) PROVE FreshOK'
    <3> DEFINE ret == IF disk[u].img # NoImage /\ Changed(u, ext) THEN 46 ELSE 0
    <3>1. Told(u, ret) /\ disk' = Seen(u, ext)
      BY <2>4 DEF StatusUnit
    <3>2. ext /\ disk[u].switched => ret = 46 \/ (ret = 0 /\ disk[u].img = NoImage)
      BY DEF Changed
    <3> HIDE DEF ret
    <3> QED  BY <1>1, <3>1, <3>2, SeenIs, SeenSwitched, CallTells DEF Drives
  <2>5. ASSUME NEW ext \in BOOLEAN, OtherCall(u, ext) PROVE FreshOK'
    BY <2>5 DEF OtherCall
  <2> QED  BY <1>5, <2>1, <2>2, <2>3, <2>4, <2>5 DEF Call
<1>6. ASSUME Drive, NEW ok \in BOOLEAN, NEW loc \in 8..15, ReadIwm(loc, ok) PROVE FreshOK'
  BY <1>1, <1>3, <1>6, ReadKeeps DEF Keeps
<1>7. ASSUME Drive, NEW ok \in BOOLEAN, NEW loc \in 8..15, NEW v \in Bytes, WriteIwm(loc, v, ok)
      PROVE  FreshOK'
  BY <1>1, <1>3, <1>7, WriteKeeps DEF Keeps
<1>8. ASSUME Drive, NEW ok \in BOOLEAN, NEW t \in Tracks, MoveHead(t, ok) PROVE FreshOK'
  BY <1>1, <1>3, <1>8, HeadKeeps DEF Keeps
<1>9. ASSUME Drive, NEW ok \in BOOLEAN, VblUpdate(ok) PROVE FreshOK'
  BY <1>1, <1>3, <1>9, VblKeeps DEF Keeps
<1>10. ASSUME Drive, IwmReset \/ \E on \in BOOLEAN : WriteC031(on) PROVE FreshOK'
  BY <1>2, <1>10 DEF IwmReset, WriteC031
<1>11. ASSUME Drive, NEW d \in Drives, ToggleLock(d) PROVE FreshOK'
  <2>1. \A u \in Units : disk'[u].switched = disk[u].switched
    BY <1>1, <1>11 DEF ToggleLock, Disk, Drives
  <2> QED  BY <1>2, <1>11, <2>1
<1>12. ASSUME NEW d \in Drives, NEW ok \in BOOLEAN, PortEject(d, ok) PROVE FreshOK'
  BY <1>1, <1>4, <1>12, EjectSwaps DEF PortEject
<1>13. ASSUME NEW d \in Drives, NEW ok \in BOOLEAN, NEW i \in Images, PortInsert(d, i, ok)
       PROVE  FreshOK'
  BY <1>1, <1>4, <1>13, InsertSwaps DEF PortInsert
<1> QED
  BY <1>5, <1>6, <1>7, <1>8, <1>9, <1>10, <1>11, <1>12, <1>13 DEF PortNext

(* SwitchReported, of the step                                              *)
Reported ==
  \A u \in Units, b \in Blocks, ok \in BOOLEAN :
    /\ ReadBlock(u, b, TRUE, ok) \/ WriteBlock(u, b, "new", TRUE, ok)
    /\ answer'.ret = 0
    => u \notin fresh

(* A guest that only makes calls the SmartPort knows is told of a changed   *)
(* disk before an extended call gets or puts a block of it; the report is   *)
(* taken by the first call (do_c70d's prologue), whatever the call.         *)
THEOREM SwitchAlwaysReported ==
  ASSUME "other" \notin Commands
  PROVE  PortSpec => SwitchReported
<1>1. PortInit => FreshOK
  BY DEF PortInit, FreshOK
<1>2. IInv /\ FreshOK /\ [PortNext]_portVars => FreshOK'
  <2>1. ASSUME IInv, FreshOK, PortNext PROVE FreshOK'
    BY <2>1, FreshStep
  <2>2. ASSUME FreshOK, UNCHANGED portVars PROVE FreshOK'
    BY <2>2 DEF FreshOK, portVars, diskVars
  <2> QED  BY <2>1, <2>2
<1>3. FreshOK => Reported
  <2> SUFFICES ASSUME FreshOK, NEW u \in Units, NEW b \in Blocks, NEW ok \in BOOLEAN,
                      ReadBlock(u, b, TRUE, ok) \/ WriteBlock(u, b, "new", TRUE, ok),
                      answer'.ret = 0, u \in fresh
               PROVE  FALSE
    BY DEF Reported
  <2>1. disk[u].switched
    BY DEF FreshOK
  <2>2. CASE ReadBlock(u, b, TRUE, ok)
    BY <2>1, <2>2 DEF ReadBlock, Reply, Changed
  <2>3. CASE WriteBlock(u, b, "new", TRUE, ok)
    BY <2>1, <2>3 DEF WriteBlock, Reply, Changed
  <2> QED  BY <2>2, <2>3
<1>4. FreshOK /\ [PortNext]_portVars => [Reported]_portVars
  BY <1>3
<1> QED  BY <1>1, <1>2, <1>4, AlwaysInv, PTL DEF PortSpec, SwitchReported, Reported

(* KeptInMind, of the step                                                  *)
Reminded ==
  (\E on \in BOOLEAN : WriteC031(on)) \/ IwmReset \/ \A d \in Bays : Unminded(d)' => Unminded(d)

(* No step but a write of $C031 and a reset leaves a disk that is not saved *)
(* in a drive that is not selected or does not turn.                        *)
THEOREM DisksKeptInMind == PortSpec => KeptInMind
<1>1. \A d \in Bays : Unminded(d) = Forgotten(Now, d)
  BY NowIs DEF Unminded, Forgotten, Current
<1>2. ASSUME NEW d \in Bays PROVE Unminded(d)' = Forgotten(Now', d)
  BY NowIs DEF Unminded, Forgotten, Current
<1>3. IInv /\ [PortNext]_portVars => [Reminded]_diskVars
  <2>1. ASSUME IInv, PortNext PROVE Reminded
    <3>1. Minded(Now, Now') \/ TurnAway
      BY <2>1, NextInv
    <3> QED  BY <1>1, <1>2, <3>1 DEF Reminded, Minded, TurnAway
  <2>2. ASSUME UNCHANGED portVars PROVE UNCHANGED diskVars
    BY <2>2 DEF portVars
  <2> QED  BY <2>1, <2>2
<1> QED  BY <1>3, AlwaysInv, PTL DEF PortSpec, KeptInMind, Reminded

=============================================================================
