------------------------- MODULE ProxyRequest_proofs -------------------------
(***************************************************************************)
(* Proofs about ProxyRequest, for any requests, settings, controls and     *)
(* bounds, with every fault and any number of restarts.                    *)
(*                                                                         *)
(* First the audit trail and the operational log by themselves: what each  *)
(* operation of AuditTrail does, that the journal's rotation keeps its     *)
(* files sound, and what the log's queues hold.  Then the pipeline, which  *)
(* calls these operations.                                                 *)
(***************************************************************************)
EXTENDS ProxyRequest, TLAPS

-----------------------------------------------------------------------------
(***************************************************************************)
(* The journal's operators.                                                *)
(***************************************************************************)

\* The files of a directory, one by one (Range, Names and Lines are sets).
LEMMA FilesAre ==
    ASSUME NEW fs \in Seq(File)
    PROVE  /\ \A nm : nm \in Names(fs) <=> \E i \in 1..Len(fs) : fs[i].name = nm
           /\ \A f : f \in Range(fs) <=> \E i \in 1..Len(fs) : f = fs[i]
           /\ \A i \in 1..Len(fs) : fs[i] \in File
<1>1. DOMAIN fs = 1..Len(fs)
  OBVIOUS
<1>2. \A i \in 1..Len(fs) : fs[i] \in File
  OBVIOUS
<1>3. QED
  BY <1>1, <1>2, Zenon DEF Names, Range

\* The lines of the journal, file by file.
LEMMA LinesAre ==
    ASSUME NEW s, s.files \in Seq(File)
    PROVE  \A x : x \in Lines(s) <=> \E i \in 1..Len(s.files) : x \in s.files[i].lines
<1>1. \A f : f \in Range(s.files) <=> \E i \in 1..Len(s.files) : f = s.files[i]
  BY FilesAre, Zenon
<1>2. QED
  <2>1. ASSUME NEW x, x \in Lines(s)
        PROVE  \E i \in 1..Len(s.files) : x \in s.files[i].lines
    <3>1. PICK f \in Range(s.files) : x \in f.lines
      BY <2>1, Zenon DEF Lines
    <3>2. QED
      BY <1>1, <3>1, Zenon
  <2>2. ASSUME NEW x, NEW i \in 1..Len(s.files), x \in s.files[i].lines
        PROVE  x \in Lines(s)
    <3>1. s.files[i] \in Range(s.files)
      BY <1>1, Zenon
    <3>2. QED
      BY <2>2, <3>1, Zenon DEF Lines
  <2>3. QED
    BY <2>1, <2>2, Zenon

\* gs is fs with file nm, which is new and empty, or was there.
Opened(fs, nm, gs) ==
    /\ gs \in Seq(File)
    /\ \E i \in 1..Len(gs) : gs[i].name = nm
    /\ \/ gs = fs
       \/ /\ nm \notin Names(fs)
          /\ Len(gs) = Len(fs) + 1
          /\ \A i \in 1..Len(fs) : gs[i] = fs[i]
          /\ gs[Len(fs) + 1] = [name |-> nm, size |-> 0, lines |-> {}]

\* OpenOptions adds an empty file, or none.
LEMMA OpenDoes ==
    ASSUME NEW fs \in Seq(File), NEW nm \in FileName
    PROVE  Opened(fs, nm, Open(fs, nm))
<1>1. CASE nm \in Names(fs)
  BY <1>1, FilesAre DEF Open, Opened
<1>2. CASE nm \notin Names(fs)
  <2>1. [name |-> nm, size |-> 0, lines |-> {}] \in File
    BY Zenon DEF File
  <2>2. PICK f \in File : f = [name |-> nm, size |-> 0, lines |-> {}]
    BY <2>1, Zenon
  <2>3. Open(fs, nm) = Append(fs, f)
    BY <1>2, <2>2, Zenon DEF Open
  <2>4. /\ Append(fs, f) \in Seq(File)
        /\ Len(Append(fs, f)) = Len(fs) + 1
        /\ \A i \in 1..Len(fs) : Append(fs, f)[i] = fs[i]
        /\ Append(fs, f)[Len(fs) + 1] = f
        /\ Len(fs) + 1 \in 1..Len(Append(fs, f))
    OBVIOUS
  <2>5. f.name = nm
    BY <2>2, Zenon
  <2>6. QED
    BY <1>2, <2>2, <2>3, <2>4, <2>5, Zenon DEF Opened
<1>3. QED
  BY <1>1, <1>2, Zenon

\* The file looked up is one that is there.
LEMMA NamedDoes ==
    ASSUME NEW fs \in Seq(File), NEW nm, \E i \in 1..Len(fs) : fs[i].name = nm
    PROVE  \E i \in 1..Len(fs) : fs[i].name = nm /\ Named(fs, nm) = fs[i]
<1>1. \E f \in Range(fs) : f.name = nm
  BY FilesAre, Zenon
<1>2. Named(fs, nm) \in Range(fs) /\ Named(fs, nm).name = nm
  BY <1>1, Zenon DEF Named
<1>3. PICK i \in 1..Len(fs) : Named(fs, nm) = fs[i]
  <2>1. \A f : f \in Range(fs) <=> \E i \in 1..Len(fs) : f = fs[i]
    BY FilesAre, Zenon
  <2>2. QED
    BY <1>2, <2>1, Zenon
<1>4. fs[i].name = nm
  BY <1>2, <1>3, Zenon
<1>5. QED
  BY <1>3, <1>4, Zenon

\* gs is fs without some of the oldest files.
Pruned(fs, gs) ==
    /\ gs \in Seq(File)
    /\ KeepFiles > 0 => Len(gs) <= KeepFiles
    /\ \E o \in 0..Len(fs) :
         /\ Len(fs) > 0 => o < Len(fs)
         /\ Len(gs) = Len(fs) - o
         /\ \A i \in 1..(Len(fs) - o) : gs[i] = fs[i + o]

\* prune_oldest keeps the newest files; the last one always.
LEMMA PruneDoes ==
    ASSUME NEW fs \in Seq(File)
    PROVE  Pruned(fs, PruneOldest(fs))
<1>. USE TrailAssumption
<1>1. CASE KeepFiles = 0 \/ Len(fs) <= KeepFiles
  <2>1. PruneOldest(fs) = fs
    BY <1>1, Zenon DEF PruneOldest
  <2>2. 0 \in 0..Len(fs)
    OBVIOUS
  <2>3. \A i \in 1..(Len(fs) - 0) : fs[i] = fs[i + 0]
    OBVIOUS
  <2>4. KeepFiles > 0 => Len(fs) <= KeepFiles
    BY <1>1
  <2>5. Len(fs) = Len(fs) - 0 /\ (Len(fs) > 0 => 0 < Len(fs))
    OBVIOUS
  <2>6. QED
    BY Zenon, <2>1, <2>2, <2>3, <2>4, <2>5 DEF Pruned
<1>2. CASE ~(KeepFiles = 0 \/ Len(fs) <= KeepFiles)
  <2>1. PICK o \in Nat : o = Len(fs) - KeepFiles
    BY <1>2
  <2>2. PruneOldest(fs) = SubSeq(fs, o + 1, Len(fs))
    BY <1>2, <2>1, Zenon DEF PruneOldest
  <2>3. o \in 0..Len(fs) /\ o < Len(fs) /\ Len(fs) - o = KeepFiles
    BY <1>2, <2>1
  <2>4. /\ SubSeq(fs, o + 1, Len(fs)) \in Seq(File)
        /\ Len(SubSeq(fs, o + 1, Len(fs))) = Len(fs) - o
        /\ \A i \in 1..(Len(fs) - o) : SubSeq(fs, o + 1, Len(fs))[i] = fs[i + o]
    BY <2>3
  <2>5. KeepFiles > 0 => Len(SubSeq(fs, o + 1, Len(fs))) <= KeepFiles
    BY <2>3, <2>4
  <2>6. QED
    BY <2>2, <2>3, <2>4, <2>5, Zenon DEF Pruned
<1>3. QED
  BY <1>1, <1>2, Zenon

\* next_target names a file of the day.
LEMMA NextTargetDoes ==
    ASSUME NEW fs \in Seq(File), NEW d \in 0..MaxDay
    PROVE  NextTarget(fs, d) \in FileName
  BY TrailAssumption DEF NextTarget, FileName

\* rotate_to keeps the sink well formed, and adds no line.
LEMMA RotateDoes ==
    ASSUME NEW s \in Sink, NEW d \in 0..MaxDay, NEW ok \in BOOLEAN
    PROVE  /\ RotateTo(s, d, ok) \in Sink
           /\ Lines(RotateTo(s, d, ok)) \subseteq Lines(s)
<1>. DEFINE nm == NextTarget(s.files, d)
            fs == IF ok THEN Open(s.files, nm) ELSE s.files
            t == RotateTo(s, d, ok)
<1>1. s.files \in Seq(File) /\ nm \in FileName
  BY NextTargetDoes, Zenon DEF Sink
<1>2. t = [file    |-> IF ok THEN nm ELSE None,
           written |-> IF ok THEN Named(fs, nm).size ELSE 0,
           day     |-> d,
           files   |-> PruneOldest(fs)]
  BY Zenon DEF RotateTo
<1>3. (ok => fs = Open(s.files, nm)) /\ (~ok => fs = s.files)
  BY Zenon
<1>. HIDE DEF nm, fs, t
<1>4. /\ ok => Opened(s.files, nm, fs)
      /\ fs \in Seq(File)
      /\ Pruned(fs, PruneOldest(fs))
      /\ PruneOldest(fs) \in Seq(File)
  <2>1. ok => Opened(s.files, nm, fs)
    BY <1>1, <1>3, OpenDoes, Zenon
  <2>2. fs \in Seq(File)
    BY <1>1, <1>3, <2>1, Zenon DEF Opened
  <2>3. QED
    BY <2>1, <2>2, PruneDoes, Zenon DEF Pruned
<1>5. t \in Sink
  <2>1. ok => Named(fs, nm).size \in Nat
    <3>1. SUFFICES ASSUME ok PROVE Named(fs, nm).size \in Nat
      BY Zenon
    <3>2. \E i \in 1..Len(fs) : fs[i].name = nm
      BY <1>4, <3>1, Zenon DEF Opened
    <3>3. PICK i \in 1..Len(fs) : Named(fs, nm) = fs[i]
      BY <1>4, <3>2, NamedDoes, Zenon
    <3>4. QED
      BY Zenon, <1>4, <3>3, FilesAre DEF File
  <2>2. QED
    BY <1>1, <1>2, <1>4, <2>1, Zenon DEF Sink
<1>6. ASSUME NEW x \in Lines(t) PROVE x \in Lines(s)
  <2>1. PICK i \in 1..Len(PruneOldest(fs)) : x \in PruneOldest(fs)[i].lines
    <3>1. t.files = PruneOldest(fs)
      BY <1>2, Zenon
    <3>2. QED
      BY <1>4, <1>6, <3>1, LinesAre, Zenon
  <2>2. PICK o \in 0..Len(fs) :
               /\ Len(PruneOldest(fs)) = Len(fs) - o
               /\ \A n \in 1..(Len(fs) - o) : PruneOldest(fs)[n] = fs[n + o]
    BY <1>4, Zenon DEF Pruned
  <2>3. PICK k \in 1..Len(fs) : x \in fs[k].lines
    <3>1. i + o \in 1..Len(fs) /\ PruneOldest(fs)[i] = fs[i + o]
      BY <1>4, <2>2
    <3>2. QED
      BY <2>1, <3>1, Zenon
  <2>4. k \in 1..Len(s.files) /\ fs[k] = s.files[k]
    <3>1. CASE fs = s.files
      BY <3>1, Zenon
    <3>2. CASE fs # s.files
      <4>1. /\ Len(fs) = Len(s.files) + 1
            /\ \A n \in 1..Len(s.files) : fs[n] = s.files[n]
            /\ fs[Len(s.files) + 1] = [name |-> nm, size |-> 0, lines |-> {}]
        BY <1>3, <1>4, <3>2, Zenon DEF Opened
      <4>2. k # Len(s.files) + 1
        BY <2>3, <4>1
      <4>3. k \in 1..Len(s.files)
        BY <1>1, <4>1, <4>2
      <4>4. QED
        BY <4>1, <4>3, Zenon
    <3>3. QED
      BY <3>1, <3>2, Zenon
  <2>5. QED
    BY <1>1, <2>3, <2>4, LinesAre, Zenon
<1>7. QED
  BY <1>5, <1>6, Zenon DEF t

\* gs is fs with the line of e in file nm, which is now the newest.
Wrote(fs, nm, e, gs) ==
    /\ gs \in Seq(File)
    /\ Len(gs) = Len(fs)
    /\ \E k \in 1..Len(fs) :
         /\ fs[k].name = nm
         /\ gs[Len(fs)] = [name |-> nm, size |-> fs[k].size + LineSize[e],
                           lines |-> fs[k].lines \cup {e}]
         /\ \A i \in 1..(Len(fs) - 1) : gs[i] = IF i < k THEN fs[i] ELSE fs[i + 1]

\* A write to a file that is there.
LEMMA WriteDoes ==
    ASSUME NEW fs \in Seq(File), NEW nm \in FileName, NEW e \in Event,
           \E i \in 1..Len(fs) : fs[i].name = nm
    PROVE  Wrote(fs, nm, e, Write(fs, nm, e))
<1>. DEFINE k == CHOOSE i \in DOMAIN fs : fs[i].name = nm
            gs == [i \in 1..Len(fs) |->
                     IF i = Len(fs) THEN [name |-> nm, size |-> fs[k].size + LineSize[e],
                                          lines |-> fs[k].lines \cup {e}]
                     ELSE IF i < k THEN fs[i] ELSE fs[i + 1]]
<1>1. nm \in Names(fs)
  BY FilesAre, Zenon
<1>2. Write(fs, nm, e) = gs
  BY <1>1, Zenon DEF Write
<1>3. k \in 1..Len(fs) /\ fs[k].name = nm
  <2>1. DOMAIN fs = 1..Len(fs)
    OBVIOUS
  <2>2. \E i \in DOMAIN fs : fs[i].name = nm
    BY <2>1, Zenon
  <2>3. k \in DOMAIN fs /\ fs[k].name = nm
    BY <2>2, Zenon
  <2>4. QED
    BY <2>1, <2>3, Zenon
<1>. HIDE DEF k
<1>4. /\ Len(fs) \in Nat
      /\ \A i \in 1..Len(fs) : fs[i] \in File
  OBVIOUS
<1>5. [name |-> nm, size |-> fs[k].size + LineSize[e], lines |-> fs[k].lines \cup {e}] \in File
  <2>1. fs[k].size \in Nat /\ fs[k].lines \in SUBSET Event /\ LineSize[e] \in Nat
    BY <1>3, <1>4, TrailAssumption, Zenon DEF File
  <2>2. QED
    BY <2>1 DEF File
<1>6. \A i \in 1..Len(fs) : gs[i] \in File
  <2>1. SUFFICES ASSUME NEW i \in 1..Len(fs) PROVE gs[i] \in File
    BY Zenon
  <2>2. CASE i = Len(fs)
    BY <1>5, <2>2, Zenon
  <2>3. CASE i # Len(fs)
    <3>1. i \in 1..Len(fs) /\ i + 1 \in 1..Len(fs)
      BY <1>4, <2>3
    <3>2. gs[i] = IF i < k THEN fs[i] ELSE fs[i + 1]
      BY <2>3, Zenon
    <3>3. QED
      BY <1>4, <3>1, <3>2, Zenon
  <2>4. QED
    BY <2>2, <2>3, Zenon
<1>7. gs \in Seq(File) /\ Len(gs) = Len(fs)
  <2>1. gs \in [1..Len(fs) -> File]
    <3>. HIDE DEF gs
    <3>1. gs = [i \in 1..Len(fs) |-> gs[i]]
      BY Zenon DEF gs
    <3>2. QED
      BY <1>6, <3>1, Zenon
  <2>. HIDE DEF gs
  <2>2. QED
    BY <1>4, <2>1
<1>8. gs[Len(fs)] = [name |-> nm, size |-> fs[k].size + LineSize[e],
                     lines |-> fs[k].lines \cup {e}]
  BY <1>3, <1>4
<1>9. \A i \in 1..(Len(fs) - 1) : gs[i] = IF i < k THEN fs[i] ELSE fs[i + 1]
  BY <1>4
<1>. HIDE DEF gs
<1>10. QED
  BY Zenon, <1>2, <1>3, <1>7, <1>8, <1>9 DEF Wrote

\* A write adds the line of e and no other.
LEMMA WriteLines ==
    ASSUME NEW fs \in Seq(File), NEW gs, NEW nm \in FileName, NEW e \in Event,
           Wrote(fs, nm, e, gs), NEW i \in 1..Len(gs), NEW x \in gs[i].lines
    PROVE  x = e \/ \E k \in 1..Len(fs) : x \in fs[k].lines
<1>1. PICK k \in 1..Len(fs) :
         /\ gs[Len(fs)] = [name |-> nm, size |-> fs[k].size + LineSize[e],
                           lines |-> fs[k].lines \cup {e}]
         /\ \A n \in 1..(Len(fs) - 1) : gs[n] = IF n < k THEN fs[n] ELSE fs[n + 1]
  BY Zenon DEF Wrote
<1>2. Len(gs) = Len(fs) /\ Len(fs) \in Nat
  BY DEF Wrote
<1>3. CASE i = Len(fs)
  <2>1. gs[i].lines = fs[k].lines \cup {e}
    BY <1>1, <1>3
  <2>2. QED
    BY <2>1, Zenon
<1>4. CASE i # Len(fs)
  <2>1. i \in 1..(Len(fs) - 1) /\ i \in 1..Len(fs) /\ i + 1 \in 1..Len(fs)
    BY <1>2, <1>4
  <2>2. gs[i] = fs[i] \/ gs[i] = fs[i + 1]
    BY <1>1, <2>1, Zenon
  <2>3. QED
    BY <2>1, <2>2, Zenon
<1>5. QED
  BY <1>3, <1>4, Zenon

\* append keeps the sink well formed, and adds the line of e or none.
LEMMA AppendDoes ==
    ASSUME NEW s \in Sink, NEW e \in Event, NEW fails, today \in 0..MaxDay
    PROVE  /\ AppendLine(s, e, fails) \in Sink
           /\ Lines(AppendLine(s, e, fails)) \subseteq Lines(s) \cup {e}
<1>. DEFINE ok == fails # "open"
            day == IF s.day # today THEN RotateTo(s, today, ok) ELSE s
            room == IF Full(day, e) THEN RotateTo(day, today, ok) ELSE day
            t == AppendLine(s, e, fails)
<1>1. day \in Sink /\ Lines(day) \subseteq Lines(s)
  <2>1. ok \in BOOLEAN
    BY Zenon
  <2>. HIDE DEF ok
  <2>2. QED
    BY <2>1, RotateDoes, Zenon
<1>2. room \in Sink /\ Lines(room) \subseteq Lines(s)
  <2>1. ok \in BOOLEAN
    BY Zenon
  <2>. HIDE DEF ok, day
  <2>2. QED
    BY <1>1, <2>1, RotateDoes, Zenon
<1>3. t = IF room.file = None THEN room
          ELSE IF fails = "write" THEN [room EXCEPT !.file = None]
          ELSE [room EXCEPT !.written = @ + LineSize[e],
                            !.files = Write(@, room.file, e)]
  BY Zenon DEF AppendLine
<1>. HIDE DEF room, day, ok, t
<1>4. CASE room.file = None
  <2>1. t = room
    BY <1>3, <1>4, Zenon
  <2>2. QED
    BY <1>2, <2>1, Zenon DEF t
<1>5. CASE room.file # None /\ fails = "write"
  <2>1. t \in Sink /\ t.files = room.files
    BY <1>2, <1>3, <1>5, Zenon DEF Sink
  <2>2. Lines(t) = Lines(room)
    BY <2>1, Zenon DEF Lines
  <2>3. QED
    BY <1>2, <2>1, <2>2, Zenon DEF t
<1>6. CASE room.file # None /\ fails # "write"
  <2>1. /\ room.file \in FileName /\ room.files \in Seq(File)
        /\ LineSize[e] \in Nat /\ room.written \in Nat /\ room.day \in 0..MaxDay
    BY <1>2, <1>6, TrailAssumption, Zenon DEF Sink
  <2>2. PICK gs : gs = Write(room.files, room.file, e)
    BY Zenon
  <2>3. gs = room.files \/ Wrote(room.files, room.file, e, gs)
    <3>1. CASE room.file \in Names(room.files)
      <4>1. \E i \in 1..Len(room.files) : room.files[i].name = room.file
        BY <2>1, <3>1, FilesAre, Zenon
      <4>2. QED
        BY <2>1, <2>2, <4>1, WriteDoes, Zenon
    <3>2. CASE room.file \notin Names(room.files)
      BY <2>2, <3>2, Zenon DEF Write
    <3>3. QED
      BY <3>1, <3>2, Zenon
  <2>4. gs \in Seq(File)
    BY <2>1, <2>3, Zenon DEF Wrote
  <2>5. t = [room EXCEPT !.written = room.written + LineSize[e], !.files = gs]
    BY <1>3, <1>6, <2>2, Zenon
  <2>6. t \in Sink /\ t.files = gs
    <3>1. room.written + LineSize[e] \in Nat
      BY <2>1
    <3>2. QED
      BY Zenon, <1>2, <2>1, <2>4, <2>5, <3>1 DEF Sink
  <2>7. ASSUME NEW x \in Lines(t) PROVE x \in Lines(room) \cup {e}
    <3>1. PICK i \in 1..Len(gs) : x \in gs[i].lines
      BY <2>4, <2>6, <2>7, LinesAre, Zenon
    <3>2. x = e \/ \E k \in 1..Len(room.files) : x \in room.files[k].lines
      BY <2>1, <2>3, <3>1, WriteLines, Zenon
    <3>3. QED
      BY <2>1, <3>2, LinesAre, Zenon
  <2>8. QED
    BY <1>2, <2>6, <2>7, Zenon DEF t
<1>7. QED
  BY <1>4, <1>5, <1>6, Zenon DEF t

\* JsonlSink::new leaves every line where it was.
LEMMA OpenSinkDoes ==
    ASSUME NEW fs \in Seq(File), today \in 0..MaxDay
    PROVE  /\ OpenSink(fs) \in Sink
           /\ Opened(fs, <<today, 0>>, OpenSink(fs).files)
           /\ \A x : x \in Lines(OpenSink(fs)) <=>
                       \E i \in 1..Len(fs) : x \in fs[i].lines
<1>1. PICK nm \in FileName : nm = <<today, 0>>
  <2>1. <<today, 0>> \in FileName
    BY TrailAssumption DEF FileName
  <2>2. QED
    BY <2>1, Zenon
<1>2. PICK gs : gs = Open(fs, nm)
  BY Zenon
<1>3. Opened(fs, nm, gs)
  BY <1>2, OpenDoes, Zenon
<1>4. OpenSink(fs) = [file |-> nm, written |-> Named(gs, nm).size, day |-> today,
                      files |-> gs]
  BY <1>1, <1>2, Zenon DEF OpenSink
<1>5. gs \in Seq(File) /\ \E i \in 1..Len(gs) : gs[i].name = nm
  BY <1>3, Zenon DEF Opened
<1>6. Named(gs, nm).size \in Nat
  <2>1. PICK i \in 1..Len(gs) : Named(gs, nm) = gs[i]
    BY <1>5, NamedDoes, Zenon
  <2>2. QED
    BY Zenon, <1>5, <2>1, FilesAre DEF File
<1>7. OpenSink(fs) \in Sink /\ OpenSink(fs).files = gs
  BY <1>4, <1>5, <1>6 DEF Sink
<1>8. \A x : x \in Lines(OpenSink(fs)) <=> \E i \in 1..Len(gs) : x \in gs[i].lines
  BY <1>5, <1>7, LinesAre, Zenon
<1>9. ASSUME NEW x
      PROVE  (\E i \in 1..Len(gs) : x \in gs[i].lines) <=>
             (\E i \in 1..Len(fs) : x \in fs[i].lines)
  <2>1. CASE gs = fs
    BY <2>1, Zenon
  <2>2. CASE gs # fs
    <3>1. /\ Len(gs) = Len(fs) + 1
          /\ \A i \in 1..Len(fs) : gs[i] = fs[i]
          /\ gs[Len(fs) + 1] = [name |-> nm, size |-> 0, lines |-> {}]
      BY <1>3, <2>2, Zenon DEF Opened
    <3>2. gs[Len(fs) + 1].lines = {} /\ Len(fs) \in Nat
      BY <3>1
    <3>3. 1..Len(gs) = 1..Len(fs) \cup {Len(fs) + 1}
      BY <3>1, <3>2
    <3>4. QED
      BY <3>1, <3>2, <3>3, Zenon
  <2>3. QED
    BY <2>1, <2>2, Zenon
<1>10. QED
  BY <1>1, <1>3, <1>7, <1>8, <1>9, Zenon

-----------------------------------------------------------------------------
(***************************************************************************)
(* What becomes of the events.                                             *)
(***************************************************************************)

Table ==
    \A e \in Event : \/ fate[e] \in {"none", "failed"}
                     \/ today > Retention
                     \/ \E w \in table : w.event = e

Lined == \A e \in Event : fate[e] = "lined" <=> e \in Lines(sink)

Trail == TrailTypeOK /\ Table /\ Lined

\* A step that records the events E; lines of others may be pruned.
Effect(E) ==
    /\ Trail'
    /\ \A x \in E : fate'[x] # "none"
    /\ \A x \in Event \ E :
         /\ fate[x] # "lined" => fate'[x] = fate[x]
         /\ fate[x] = "lined" => fate'[x] \in {"lined", "inserted"}

\* A step that leaves the trail alone.
LEMMA NoEffect ==
    ASSUME Trail, UNCHANGED trailVars
    PROVE  Effect({})
<1>1. today' = today /\ table' = table /\ sink' = sink /\ fate' = fate
  BY Zenon DEF trailVars
<1>2. Lines(sink)' = Lines(sink)
  BY <1>1, Zenon DEF Lines
<1>3. TrailTypeOK' /\ Table' /\ Lined'
  BY <1>1, <1>2, Zenon DEF Trail, TrailTypeOK, Table, Lined
<1>4. QED
  BY <1>1, <1>3, Zenon DEF Trail, Effect

\* The INSERT of a row, which is in the table from then on.
LEMMA InsertDoes ==
    ASSUME Trail, NEW e \in Event, fate[e] = "none", InsertRow(e)
    PROVE  Effect({e}) /\ fate'[e] = "inserted"
<1>1. /\ today' = today /\ sink' = sink
      /\ table' = table \cup {[event |-> e, day |-> today]}
      /\ fate' = [fate EXCEPT ![e] = "inserted"]
  BY Zenon DEF InsertRow
<1>2. /\ today \in 0..MaxDay /\ table \subseteq Row
      /\ fate \in [Event -> Fates] /\ sink \in Sink
  BY Zenon DEF Trail, TrailTypeOK
<1>3. /\ fate' \in [Event -> Fates] /\ fate'[e] = "inserted"
      /\ \A x \in Event \ {e} : fate'[x] = fate[x]
  BY <1>1, <1>2, Zenon DEF Fates
<1>4. PICK w \in Row : w = [event |-> e, day |-> today]
  BY Zenon, <1>2 DEF Row
<1>5. table' = table \cup {w} /\ w.event = e
  BY <1>1, <1>4, Zenon
<1>6. TrailTypeOK'
  BY <1>1, <1>2, <1>3, <1>5, Zenon DEF TrailTypeOK
<1>7. Table'
  <2>1. SUFFICES ASSUME NEW x \in Event
                 PROVE  \/ fate'[x] \in {"none", "failed"}
                        \/ today > Retention
                        \/ \E v \in table' : v.event = x
    BY <1>1, Zenon DEF Table
  <2>2. CASE x = e
    BY <1>5, <2>2, Zenon
  <2>3. CASE x # e
    <3>1. \/ fate[x] \in {"none", "failed"}
          \/ today > Retention
          \/ \E v \in table : v.event = x
      BY Zenon DEF Trail, Table
    <3>2. fate'[x] = fate[x]
      BY <1>3, <2>3, Zenon
    <3>3. QED
      BY <1>5, <3>1, <3>2, Zenon
  <2>4. QED
    BY <2>2, <2>3, Zenon
<1>8. Lined'
  <2>1. Lines(sink)' = Lines(sink)
    BY <1>1, Zenon DEF Lines
  <2>2. QED
    BY <1>3, <2>1, Zenon DEF Trail, Lined
<1>9. QED
  BY <1>3, <1>6, <1>7, <1>8, Zenon DEF Trail, Effect

\* An INSERT that fails leaves no row.
LEMMA FailDoes ==
    ASSUME Trail, NEW e \in Event, fate[e] = "none", InsertFails(e)
    PROVE  Effect({e})
<1>1. /\ today' = today /\ sink' = sink /\ table' = table
      /\ fate' = [fate EXCEPT ![e] = "failed"]
  BY Zenon DEF InsertFails
<1>2. fate \in [Event -> Fates]
  BY Zenon DEF Trail, TrailTypeOK
<1>3. /\ fate' \in [Event -> Fates] /\ fate'[e] = "failed"
      /\ \A x \in Event \ {e} : fate'[x] = fate[x]
  BY <1>1, <1>2, Zenon DEF Fates
<1>4. TrailTypeOK'
  BY <1>1, <1>3, Zenon DEF Trail, TrailTypeOK
<1>5. Table'
  BY <1>1, <1>3, Zenon DEF Trail, Table
<1>6. Lined'
  <2>1. Lines(sink)' = Lines(sink)
    BY <1>1, Zenon DEF Lines
  <2>2. QED
    BY <1>3, <2>1, Zenon DEF Trail, Lined
<1>7. QED
  BY <1>3, <1>4, <1>5, <1>6, Zenon DEF Trail, Effect

\* sink.append, of a row that was inserted.
LEMMA MirrorDoes ==
    ASSUME Trail, NEW e \in Event, fate[e] = "inserted", NEW fails, MirrorRow(e, fails)
    PROVE  Effect({e})
<1>1. PICK s : s = AppendLine(sink, e, fails)
  BY Zenon
<1>2. /\ today' = today /\ table' = table /\ sink' = s
      /\ fate' = [x \in Event |->
                    IF x \in Lines(s) THEN "lined"
                    ELSE IF x = e /\ s.file # None THEN "lost"
                    ELSE IF fate[x] = "lined" THEN "inserted" ELSE fate[x]]
  BY <1>1, Zenon DEF MirrorRow
<1>3. /\ today \in 0..MaxDay /\ table \subseteq Row
      /\ fate \in [Event -> Fates] /\ sink \in Sink
  BY Zenon DEF Trail, TrailTypeOK
<1>4. s \in Sink /\ Lines(s) \subseteq Lines(sink) \cup {e}
  BY <1>1, <1>3, AppendDoes, Zenon
<1>5. \A x \in Event : fate[x] = "lined" <=> x \in Lines(sink)
  BY Zenon DEF Trail, Lined
<1>6. /\ \A x \in Event : fate'[x] \in Fates /\ (fate'[x] = "lined" <=> x \in Lines(s))
      /\ fate'[e] \in {"lined", "lost", "inserted"}
      /\ \A x \in Event \ {e} :
           /\ fate[x] # "lined" => fate'[x] = fate[x]
           /\ fate[x] = "lined" => fate'[x] \in {"lined", "inserted"}
  BY <1>2, <1>3, <1>4, <1>5, Zenon DEF Fates
<1>7. fate' \in [Event -> Fates]
  BY <1>2, <1>6, Zenon
<1>8. TrailTypeOK' /\ Lined'
  BY <1>2, <1>3, <1>4, <1>6, <1>7, Zenon DEF TrailTypeOK, Lined
<1>9. Table'
  BY <1>2, <1>6, Zenon DEF Trail, Table
<1>10. QED
  BY <1>6, <1>8, <1>9, Zenon DEF Trail, Effect

\* The sweeper deletes only what is older than the retention.
LEMMA SweepDoes ==
    ASSUME Trail, SweepRows
    PROVE  Effect({})
<1>1. /\ today' = today /\ sink' = sink /\ fate' = fate
      /\ table' = {w \in table : ~OlderThan(w.day)}
  BY Zenon DEF SweepRows
<1>2. TrailTypeOK'
  BY <1>1, Zenon DEF Trail, TrailTypeOK
<1>3. Lines(sink)' = Lines(sink)
  BY <1>1, Zenon DEF Lines
<1>4. Lined'
  BY <1>1, <1>3, Zenon DEF Trail, Lined
<1>5. Table'
  <2>1. SUFFICES ASSUME NEW x \in Event, fate[x] \notin {"none", "failed"}, ~(today > Retention)
                 PROVE  \E v \in table' : v.event = x
    BY <1>1, Zenon DEF Table
  <2>2. PICK v \in table : v.event = x
    BY <2>1, Zenon DEF Trail, Table
  <2>3. ~OlderThan(v.day)
    <3>1. v.day \in 0..MaxDay /\ today \in 0..MaxDay
      BY Zenon DEF Trail, TrailTypeOK, Row
    <3>2. QED
      BY <2>1, <3>1, TrailAssumption DEF OlderThan
  <2>4. QED
    BY <1>1, <2>2, <2>3, Zenon
<1>6. QED
  BY <1>1, <1>2, <1>4, <1>5, Zenon DEF Trail, Effect

\* The day ends: nothing is deleted.
LEMMA NextDayDoes ==
    ASSUME Trail, NextDay
    PROVE  Effect({})
<1>1. /\ today' = today + 1 /\ table' = table /\ sink' = sink /\ fate' = fate
      /\ today \in 0..MaxDay /\ today < MaxDay
  BY Zenon DEF NextDay, Trail, TrailTypeOK
<1>2. TrailTypeOK'
  BY <1>1, TrailAssumption DEF Trail, TrailTypeOK
<1>3. Lines(sink)' = Lines(sink)
  BY <1>1, Zenon DEF Lines
<1>4. Lined'
  BY <1>1, <1>3, Zenon DEF Trail, Lined
<1>5. today > Retention => today' > Retention
  BY <1>1, TrailAssumption
<1>6. Table'
  BY <1>1, <1>5, Zenon DEF Trail, Table
<1>7. QED
  BY <1>1, <1>2, <1>4, <1>6, Zenon DEF Trail, Effect

\* The daemon stops: the journal is reopened with every line in it.
LEMMA ReopenDoes ==
    ASSUME Trail, sink' = OpenSink(sink.files), UNCHANGED <<today, table, fate>>
    PROVE  Effect({})
<1>1. today \in 0..MaxDay /\ sink.files \in Seq(File)
  BY Zenon DEF Trail, TrailTypeOK, Sink
<1>2. /\ sink' \in Sink
      /\ \A x : x \in Lines(OpenSink(sink.files)) <=>
                  \E i \in 1..Len(sink.files) : x \in sink.files[i].lines
  BY <1>1, OpenSinkDoes, Zenon
<1>3. \A x : x \in Lines(sink) <=> \E i \in 1..Len(sink.files) : x \in sink.files[i].lines
  BY <1>1, LinesAre, Zenon
<1>4. \A x : x \in Lines(sink') <=> x \in Lines(sink)
  BY <1>2, <1>3, Zenon
<1>5. TrailTypeOK' /\ Table' /\ Lined'
  BY <1>2, <1>4, Zenon DEF Trail, TrailTypeOK, Table, Lined
<1>6. QED
  BY <1>5, Zenon DEF Trail, Effect

-----------------------------------------------------------------------------
(***************************************************************************)
(* The soundness of the journal.                                           *)
(***************************************************************************)

\* The files of the journal: names are unique, a line is in one file, and only a
\* single line makes a file larger than max_bytes.
SoundFiles(fs) ==
    /\ \A i, k \in 1..Len(fs) : fs[i].name = fs[k].name => i = k
    /\ \A i, k \in 1..Len(fs) : i # k => fs[i].lines \cap fs[k].lines = {}
    /\ \A i \in 1..Len(fs) :
         /\ fs[i].size = 0 => fs[i].lines = {}
         /\ fs[i].size > MaxBytes => \E x \in Event : fs[i].lines = {x}

\* File nm is there, with w bytes.
Holds(fs, nm, w) == \E i \in 1..Len(fs) : fs[i].name = nm /\ fs[i].size = w

\* The open file is there, as long as the sink believes.
Journal(s) == SoundFiles(s.files) /\ (s.file # None => Holds(s.files, s.file, s.written))

\* next_target finds a free name while there are fewer files than indexes.
TargetsAreFree ==
    \A fs \in Seq(File), d \in 0..MaxDay :
      Len(fs) <= MaxIndex => NextTarget(fs, d) \notin Names(fs)

\* A new file is empty, and its name is new.
LEMMA OpenedSound ==
    ASSUME NEW fs \in Seq(File), NEW gs, NEW nm, SoundFiles(fs), Opened(fs, nm, gs)
    PROVE  SoundFiles(gs) /\ Len(gs) <= Len(fs) + 1
<1>1. CASE gs = fs
  BY <1>1
<1>2. CASE gs # fs
  <2>1. /\ nm \notin Names(fs)
        /\ Len(gs) = Len(fs) + 1
        /\ \A i \in 1..Len(fs) : gs[i] = fs[i]
        /\ gs[Len(fs) + 1] = [name |-> nm, size |-> 0, lines |-> {}]
    BY <1>2, Zenon DEF Opened
  <2>2. /\ \A i \in 1..Len(fs) : fs[i].name # nm
        /\ gs[Len(fs) + 1].name = nm /\ gs[Len(fs) + 1].size = 0 /\ gs[Len(fs) + 1].lines = {}
    BY <2>1, FilesAre
  <2>3. Len(fs) \in Nat /\ 1..Len(gs) = 1..Len(fs) \cup {Len(fs) + 1} /\ ~(0 > MaxBytes)
    BY <2>1, TrailAssumption
  <2>4. \A i, k \in 1..Len(gs) : gs[i].name = gs[k].name => i = k
    BY <2>1, <2>2, <2>3, Zenon DEF SoundFiles
  <2>5. \A i, k \in 1..Len(gs) : i # k => gs[i].lines \cap gs[k].lines = {}
    BY <2>1, <2>2, <2>3 DEF SoundFiles
  <2>6. \A i \in 1..Len(gs) : /\ gs[i].size = 0 => gs[i].lines = {}
                              /\ gs[i].size > MaxBytes => \E x \in Event : gs[i].lines = {x}
    <3>1. ASSUME NEW i \in 1..Len(fs)
          PROVE  /\ gs[i].size = 0 => gs[i].lines = {}
                 /\ gs[i].size > MaxBytes => \E x \in Event : gs[i].lines = {x}
      BY <2>1, Zenon DEF SoundFiles
    <3>2. /\ gs[Len(fs) + 1].lines = {}
          /\ ~(gs[Len(fs) + 1].size > MaxBytes)
      BY <2>2, <2>3, Zenon
    <3>3. QED
      BY <2>3, <3>1, <3>2, Zenon
  <2>7. SoundFiles(gs)
    BY <2>4, <2>5, <2>6, Zenon DEF SoundFiles
  <2>8. QED
    BY <2>1, <2>3, <2>7
<1>3. QED
  BY <1>1, <1>2, Zenon

\* Fewer files are as sound.
LEMMA PrunedSound ==
    ASSUME NEW fs \in Seq(File), NEW gs, SoundFiles(fs), Pruned(fs, gs)
    PROVE  SoundFiles(gs)
<1>1. PICK o \in 0..Len(fs) :
            /\ Len(gs) = Len(fs) - o
            /\ \A i \in 1..(Len(fs) - o) : gs[i] = fs[i + o]
  BY Zenon DEF Pruned
<1>2. \A i \in 1..Len(gs) : i + o \in 1..Len(fs) /\ gs[i] = fs[i + o]
  BY <1>1
<1>3. \A i, k \in 1..Len(gs) : i + o = k + o => i = k
  BY <1>1
<1>4. ASSUME NEW i \in 1..Len(gs), NEW k \in 1..Len(gs)
      PROVE  /\ gs[i].name = gs[k].name => i = k
             /\ i # k => gs[i].lines \cap gs[k].lines = {}
             /\ gs[i].size = 0 => gs[i].lines = {}
             /\ gs[i].size > MaxBytes => \E x \in Event : gs[i].lines = {x}
  <2>1. PICK a \in 1..Len(fs) : a = i + o
    BY <1>2, Zenon
  <2>2. PICK b \in 1..Len(fs) : b = k + o
    BY <1>2, Zenon
  <2>3. gs[i] = fs[a] /\ gs[k] = fs[b] /\ (a = b <=> i = k)
    BY <1>2, <1>3, <2>1, <2>2, Zenon
  <2>4. QED
    BY <2>3, Zenon DEF SoundFiles
<1>5. QED
  BY <1>4, Zenon DEF SoundFiles

\* A line that is new goes to a file that has room for it, or is empty.
LEMMA WroteSound ==
    ASSUME NEW fs \in Seq(File), NEW gs, NEW nm \in FileName, NEW e \in Event, NEW w \in Nat,
           SoundFiles(fs), Wrote(fs, nm, e, gs), Holds(fs, nm, w),
           \A i \in 1..Len(fs) : e \notin fs[i].lines,
           w + LineSize[e] <= MaxBytes \/ w = 0
    PROVE  /\ SoundFiles(gs)
           /\ Holds(gs, nm, w + LineSize[e])
           /\ \E i \in 1..Len(gs) : e \in gs[i].lines
<1>1. PICK k \in 1..Len(fs) :
         /\ fs[k].name = nm
         /\ gs[Len(fs)] = [name |-> nm, size |-> fs[k].size + LineSize[e],
                           lines |-> fs[k].lines \cup {e}]
         /\ \A n \in 1..(Len(fs) - 1) : gs[n] = IF n < k THEN fs[n] ELSE fs[n + 1]
  BY Zenon DEF Wrote
<1>2. /\ Len(gs) = Len(fs) /\ Len(fs) \in Nat /\ Len(fs) \in 1..Len(fs)
      /\ LineSize[e] \in Nat \ {0} /\ MaxBytes \in Nat
  BY <1>1, TrailAssumption DEF Wrote
<1>3. fs[k].size = w
  BY <1>1, Zenon DEF Holds, SoundFiles
<1>4. PICK old \in [1..(Len(fs) - 1) -> 1..Len(fs)] :
         \A n \in 1..(Len(fs) - 1) : old[n] = IF n < k THEN n ELSE n + 1
  <2>1. \A n \in 1..(Len(fs) - 1) : (IF n < k THEN n ELSE n + 1) \in 1..Len(fs)
    BY <1>2
  <2>2. [n \in 1..(Len(fs) - 1) |-> IF n < k THEN n ELSE n + 1] \in [1..(Len(fs) - 1) -> 1..Len(fs)]
    BY <2>1, Zenon
  <2>3. QED
    BY <2>2, Zenon
<1>5. /\ \A n \in 1..(Len(fs) - 1) : gs[n] = fs[old[n]] /\ old[n] # k
      /\ \A n, m \in 1..(Len(fs) - 1) : old[n] = old[m] => n = m
  <2>1. ASSUME NEW n \in 1..(Len(fs) - 1) PROVE gs[n] = fs[old[n]] /\ old[n] # k
    <3>1. CASE n < k
      BY <1>1, <1>4, <3>1
    <3>2. CASE ~(n < k)
      BY <1>1, <1>4, <3>2
    <3>3. QED
      BY <3>1, <3>2, Zenon
  <2>2. ASSUME NEW n \in 1..(Len(fs) - 1), NEW m \in 1..(Len(fs) - 1), old[n] = old[m] PROVE n = m
    BY <1>4, <2>2
  <2>3. QED
    BY <2>1, <2>2, Zenon
<1>6. /\ gs[Len(fs)].name = nm /\ gs[Len(fs)].size = w + LineSize[e]
      /\ gs[Len(fs)].lines = fs[k].lines \cup {e}
  BY <1>1, <1>3
<1>7. 1..Len(gs) = 1..(Len(fs) - 1) \cup {Len(fs)} /\ Len(fs) \notin 1..(Len(fs) - 1)
  BY <1>2
<1>8. \A n \in 1..(Len(fs) - 1) : old[n] \in 1..Len(fs)
  BY <1>4, Zenon
<1>9. \A i, j \in 1..Len(gs) : gs[i].name = gs[j].name => i = j
  <2>1. ASSUME NEW n \in 1..(Len(fs) - 1)
        PROVE  gs[n].name # gs[Len(fs)].name
    <3>1. fs[old[n]].name # fs[k].name
      BY <1>5, <1>8, Zenon DEF SoundFiles
    <3>2. QED
      BY <1>1, <1>5, <1>6, <3>1, Zenon
  <2>2. ASSUME NEW n \in 1..(Len(fs) - 1), NEW m \in 1..(Len(fs) - 1), gs[n].name = gs[m].name
        PROVE  n = m
    <3>1. PICK a, b \in 1..Len(fs) : a = old[n] /\ b = old[m]
      BY <1>8, Zenon
    <3>2. gs[n] = fs[a] /\ gs[m] = fs[b] /\ (a = b => n = m)
      BY <1>5, <3>1, Zenon
    <3>3. QED
      BY <2>2, <3>2, Zenon DEF SoundFiles
  <2>3. QED
    BY <1>7, <2>1, <2>2, Zenon
<1>10. \A i, j \in 1..Len(gs) : i # j => gs[i].lines \cap gs[j].lines = {}
  <2>1. ASSUME NEW n \in 1..(Len(fs) - 1)
        PROVE  gs[n].lines \cap gs[Len(fs)].lines = {}
    <3>1. fs[old[n]].lines \cap fs[k].lines = {} /\ e \notin fs[old[n]].lines
      BY <1>5, <1>8, Zenon DEF SoundFiles
    <3>2. QED
      BY <1>5, <1>6, <3>1, Zenon
  <2>2. ASSUME NEW n \in 1..(Len(fs) - 1), NEW m \in 1..(Len(fs) - 1), n # m
        PROVE  gs[n].lines \cap gs[m].lines = {}
    <3>1. PICK a, b \in 1..Len(fs) : a = old[n] /\ b = old[m]
      BY <1>8, Zenon
    <3>2. gs[n] = fs[a] /\ gs[m] = fs[b] /\ a # b
      BY <1>5, <2>2, <3>1, Zenon
    <3>3. QED
      BY <3>2 DEF SoundFiles
  <2>3. QED
    BY <1>7, <2>1, <2>2, Zenon
<1>11. ASSUME NEW i \in 1..Len(gs)
       PROVE  /\ gs[i].size = 0 => gs[i].lines = {}
              /\ gs[i].size > MaxBytes => \E x \in Event : gs[i].lines = {x}
  <2>1. CASE i \in 1..(Len(fs) - 1)
    <3>1. PICK a \in 1..Len(fs) : gs[i] = fs[a]
      BY <1>5, <1>8, <2>1, Zenon
    <3>2. QED
      BY <3>1, Zenon DEF SoundFiles
  <2>2. CASE i = Len(fs)
    <3>1. gs[i].size # 0
      BY <1>2, <1>6, <2>2
    <3>2. ASSUME gs[i].size > MaxBytes PROVE \E x \in Event : gs[i].lines = {x}
      <4>1. w = 0
        BY <1>2, <1>6, <2>2, <3>2
      <4>2. gs[i].lines = {e}
        BY <1>3, <1>6, <2>2, <4>1, Zenon DEF SoundFiles
      <4>3. QED
        BY <4>2, Zenon
    <3>3. QED
      BY <3>1, <3>2, Zenon
  <2>3. QED
    BY <1>7, <2>1, <2>2, Zenon
<1>12. SoundFiles(gs)
  BY <1>9, <1>10, <1>11, Zenon DEF SoundFiles
<1>13. QED
  BY <1>2, <1>6, <1>12, Zenon DEF Holds

\* rotate_to leaves the sink with a new and empty file, or with none, and at most
\* keep_files files.
LEMMA RotateSound ==
    ASSUME TargetsAreFree, KeepFiles > 0,
           NEW s \in Sink, NEW d \in 0..MaxDay, NEW ok \in BOOLEAN,
           SoundFiles(s.files), Len(s.files) <= MaxIndex
    PROVE  /\ Journal(RotateTo(s, d, ok))
           /\ RotateTo(s, d, ok).written = 0
           /\ Len(RotateTo(s, d, ok).files) <= KeepFiles
<1>. DEFINE nm == NextTarget(s.files, d)
            fs == IF ok THEN Open(s.files, nm) ELSE s.files
            t == RotateTo(s, d, ok)
<1>1. s.files \in Seq(File) /\ nm \in FileName
  BY NextTargetDoes, Zenon DEF Sink
<1>2. nm \notin Names(s.files)
  BY <1>1, Zenon DEF TargetsAreFree
<1>3. t = [file    |-> IF ok THEN nm ELSE None,
           written |-> IF ok THEN Named(fs, nm).size ELSE 0,
           day     |-> d,
           files   |-> PruneOldest(fs)]
  BY Zenon DEF RotateTo
<1>4. (ok => fs = Open(s.files, nm)) /\ (~ok => fs = s.files)
  BY Zenon
<1>. HIDE DEF nm, fs, t
<1>5. ok => Opened(s.files, nm, fs)
  BY <1>1, <1>4, OpenDoes, Zenon
<1>6. fs \in Seq(File)
  BY <1>1, <1>4, <1>5, Zenon DEF Opened
<1>7. SoundFiles(fs)
  BY <1>1, <1>4, <1>5, OpenedSound, Zenon
<1>8. PICK gs : gs = PruneOldest(fs)
  BY Zenon
<1>9. Pruned(fs, gs)
  BY <1>6, <1>8, PruneDoes, Zenon
<1>10. SoundFiles(gs) /\ gs \in Seq(File) /\ Len(gs) <= KeepFiles
  <2>1. SoundFiles(gs)
    BY <1>6, <1>7, <1>9, PrunedSound, Zenon
  <2>2. QED
    BY <1>9, <2>1, Zenon DEF Pruned
<1>11. CASE ~ok
  <2>1. t.file = None /\ t.written = 0 /\ t.files = gs
    BY <1>3, <1>8, <1>11, Zenon
  <2>2. QED
    BY <1>10, <2>1, Zenon DEF Journal, t
<1>12. CASE ok
  <2>1. t.file = nm /\ t.written = Named(fs, nm).size /\ t.files = gs
    BY <1>3, <1>8, <1>12, Zenon
  <2>2. /\ Len(fs) = Len(s.files) + 1
        /\ fs[Len(s.files) + 1] = [name |-> nm, size |-> 0, lines |-> {}]
    <3>1. fs # s.files
      BY <1>1, <1>2, <1>5, <1>12, FilesAre, Zenon DEF Opened
    <3>2. QED
      BY <1>5, <1>12, <3>1, Zenon DEF Opened
  <2>3. Len(fs) \in 1..Len(fs) /\ fs[Len(fs)].name = nm /\ fs[Len(fs)].size = 0
    BY <1>1, <2>2
  <2>4. PICK i \in 1..Len(fs) : fs[i].name = nm /\ Named(fs, nm) = fs[i]
    <3>1. \E i \in 1..Len(fs) : fs[i].name = nm
      BY <2>3, Zenon
    <3>2. QED
      BY <1>6, <3>1, NamedDoes, Zenon
  <2>5. i = Len(fs)
    BY <1>7, <2>3, <2>4, Zenon DEF SoundFiles
  <2>6. t.written = 0
    BY <2>1, <2>3, <2>4, <2>5, Zenon
  <2>7. PICK o \in 0..Len(fs) :
              /\ Len(fs) > 0 => o < Len(fs)
              /\ Len(gs) = Len(fs) - o
              /\ \A n \in 1..(Len(fs) - o) : gs[n] = fs[n + o]
    BY <1>9, Zenon DEF Pruned
  <2>8. Len(gs) \in 1..Len(gs) /\ gs[Len(gs)] = fs[Len(fs)]
    <3>1. Len(fs) \in Nat /\ Len(fs) > 0
      BY <1>6, <2>3
    <3>2. Len(gs) \in 1..(Len(fs) - o) /\ Len(gs) + o = Len(fs)
      BY <2>7, <3>1
    <3>3. QED
      BY <2>7, <3>2, Zenon
  <2>9. Holds(gs, nm, 0)
    BY <2>3, <2>8, Zenon DEF Holds
  <2>10. QED
    BY <1>10, <2>1, <2>6, <2>9, Zenon DEF Journal, t
<1>13. QED
  BY <1>11, <1>12, Zenon

\* append writes its line to a file that is there and has room for it.
LEMMA AppendSound ==
    ASSUME TargetsAreFree, KeepFiles > 0,
           NEW s \in Sink, NEW e \in Event, NEW fails, today \in 0..MaxDay,
           Journal(s), e \notin Lines(s),
           NEW b \in Nat, KeepFiles <= b, b <= MaxIndex, Len(s.files) <= b
    PROVE  /\ Journal(AppendLine(s, e, fails))
           /\ Len(AppendLine(s, e, fails).files) <= b
           /\ AppendLine(s, e, fails).file # None => e \in Lines(AppendLine(s, e, fails))
<1>. DEFINE ok == fails # "open"
            day == IF s.day # today THEN RotateTo(s, today, ok) ELSE s
            room == IF Full(day, e) THEN RotateTo(day, today, ok) ELSE day
            t == AppendLine(s, e, fails)
<1>1. ok \in BOOLEAN
  BY Zenon
<1>2. t = IF room.file = None THEN room
          ELSE IF fails = "write" THEN [room EXCEPT !.file = None]
          ELSE [room EXCEPT !.written = @ + LineSize[e],
                            !.files = Write(@, room.file, e)]
  BY Zenon DEF AppendLine
<1>3. KeepFiles \in Nat /\ MaxIndex \in Nat /\ Len(s.files) \in Nat /\ LineSize[e] \in Nat
  BY TrailAssumption DEF Sink
<1>4. day = s \/ day = RotateTo(s, today, ok)
  BY Zenon
<1>5. (~Full(day, e) /\ room = day) \/ room = RotateTo(day, today, ok)
  BY Zenon
<1>. HIDE DEF ok, day, room, t
<1>6. day \in Sink /\ Lines(day) \subseteq Lines(s) /\ Journal(day) /\ Len(day.files) <= b
  <2>1. CASE day = s
    BY <2>1, Zenon
  <2>2. CASE day = RotateTo(s, today, ok)
    <3>1. SoundFiles(s.files) /\ Len(s.files) <= MaxIndex
      BY <1>3 DEF Journal
    <3>2. Journal(day) /\ Len(day.files) <= KeepFiles
      BY <1>1, <2>2, <3>1, RotateSound, Zenon
    <3>3. day \in Sink /\ Lines(day) \subseteq Lines(s)
      BY <1>1, <2>2, RotateDoes, Zenon
    <3>4. Len(day.files) \in Nat
      BY <3>3 DEF Sink
    <3>5. QED
      BY <1>3, <3>2, <3>3, <3>4
  <2>3. QED
    BY <1>4, <2>1, <2>2, Zenon
<1>7. /\ room \in Sink /\ Lines(room) \subseteq Lines(s) /\ Journal(room) /\ Len(room.files) <= b
      /\ room.written = 0 \/ room.written + LineSize[e] <= MaxBytes
  <2>1. CASE ~Full(day, e) /\ room = day
    <3>1. day.written \in Nat /\ MaxBytes \in Nat
      BY <1>6, TrailAssumption, Zenon DEF Sink
    <3>2. room.written = 0 \/ room.written + LineSize[e] <= MaxBytes
      BY <1>3, <2>1, <3>1 DEF Full
    <3>3. QED
      BY <1>6, <2>1, <3>2, Zenon
  <2>2. CASE room = RotateTo(day, today, ok)
    <3>1. SoundFiles(day.files) /\ Len(day.files) \in Nat /\ Len(day.files) <= MaxIndex
      BY <1>3, <1>6 DEF Journal, Sink
    <3>2. Journal(room) /\ room.written = 0 /\ Len(room.files) <= KeepFiles
      BY <1>1, <1>6, <2>2, <3>1, RotateSound, Zenon
    <3>3. room \in Sink /\ Lines(room) \subseteq Lines(day)
      BY <1>1, <1>6, <2>2, RotateDoes, Zenon
    <3>4. Len(room.files) \in Nat
      BY <3>3 DEF Sink
    <3>5. Len(room.files) <= b
      BY <1>3, <3>2, <3>4
    <3>6. QED
      BY <1>6, <3>2, <3>3, <3>5, Zenon
  <2>3. QED
    BY <1>5, <2>1, <2>2, Zenon
<1>8. CASE room.file = None
  <2>1. t = room
    BY <1>2, <1>8, Zenon
  <2>2. QED
    BY <1>7, <1>8, <2>1, Zenon DEF t
<1>9. CASE room.file # None /\ fails = "write"
  <2>1. t.file = None /\ t.files = room.files
    BY <1>2, <1>7, <1>9, Zenon DEF Sink
  <2>2. SoundFiles(t.files) /\ Len(t.files) <= b
    BY <1>7, <2>1, Zenon DEF Journal
  <2>3. QED
    BY <2>1, <2>2, Zenon DEF t, Journal
<1>10. CASE room.file # None /\ fails # "write"
  <2>1. PICK fs, nm, w : fs = room.files /\ nm = room.file /\ w = room.written
    BY Zenon
  <2>2. /\ fs \in Seq(File) /\ nm \in FileName /\ w \in Nat
        /\ SoundFiles(fs) /\ Holds(fs, nm, w)
        /\ w + LineSize[e] <= MaxBytes \/ w = 0
    BY <1>7, <1>10, <2>1, Zenon DEF Sink, Journal
  <2>3. PICK gs : gs = Write(fs, nm, e)
    BY Zenon
  <2>4. Wrote(fs, nm, e, gs)
    <3>1. \E i \in 1..Len(fs) : fs[i].name = nm
      BY <2>2, Zenon DEF Holds
    <3>2. QED
      BY <2>2, <2>3, <3>1, WriteDoes, Zenon
  <2>5. \A i \in 1..Len(fs) : e \notin fs[i].lines
    <3>1. e \notin Lines(room)
      BY <1>7, Zenon
    <3>2. QED
      BY <2>1, <2>2, <3>1, LinesAre, Zenon
  <2>6. /\ SoundFiles(gs)
        /\ Holds(gs, nm, w + LineSize[e])
        /\ \E i \in 1..Len(gs) : e \in gs[i].lines
    BY <2>2, <2>4, <2>5, WroteSound, Zenon
  <2>7. t.file = nm /\ t.written = w + LineSize[e] /\ t.files = gs
    BY <1>2, <1>7, <1>10, <2>1, <2>3, Zenon DEF Sink
  <2>8. Len(gs) = Len(fs) /\ gs \in Seq(File)
    BY <2>4, Zenon DEF Wrote
  <2>9. e \in Lines(t)
    BY <2>6, <2>7, <2>8, LinesAre, Zenon
  <2>10. Journal(t) /\ Len(t.files) <= b
    BY <1>7, <2>1, <2>6, <2>7, <2>8, Zenon DEF Journal
  <2>11. QED
    BY <2>9, <2>10, Zenon DEF t
<1>11. QED
  BY <1>8, <1>9, <1>10, Zenon

\* JsonlSink::new opens the file of the day, at the size it has.
LEMMA OpenSinkSound ==
    ASSUME NEW fs \in Seq(File), today \in 0..MaxDay, SoundFiles(fs)
    PROVE  Journal(OpenSink(fs)) /\ Len(OpenSink(fs).files) <= Len(fs) + 1
<1>1. PICK nm \in FileName : nm = <<today, 0>>
  <2>1. <<today, 0>> \in FileName
    BY TrailAssumption DEF FileName
  <2>2. QED
    BY <2>1, Zenon
<1>2. PICK gs : gs = Open(fs, nm)
  BY Zenon
<1>3. Opened(fs, nm, gs)
  BY <1>2, OpenDoes, Zenon
<1>4. SoundFiles(gs) /\ Len(gs) <= Len(fs) + 1
  BY <1>3, OpenedSound, Zenon
<1>5. /\ OpenSink(fs).file = nm /\ OpenSink(fs).files = gs
      /\ OpenSink(fs).written = Named(gs, nm).size
  BY <1>1, <1>2, Zenon DEF OpenSink
<1>6. \E i \in 1..Len(gs) : gs[i].name = nm /\ Named(gs, nm) = gs[i]
  <2>1. gs \in Seq(File) /\ \E i \in 1..Len(gs) : gs[i].name = nm
    BY <1>3, Zenon DEF Opened
  <2>2. QED
    BY <2>1, NamedDoes, Zenon
<1>7. Holds(gs, nm, Named(gs, nm).size)
  BY <1>6, Zenon DEF Holds
<1>8. QED
  BY <1>4, <1>5, <1>7, Zenon DEF Journal

-----------------------------------------------------------------------------
(***************************************************************************)
(* The queues of the operational log.                                      *)
(***************************************************************************)

\* What a queue holds after a push
LEMMA PushDoes ==
    ASSUME NEW s \in Seq(Record), NEW m \in Record
    PROVE  /\ Range(Append(s, m)) = Range(s) \cup {m}
           /\ IsInjective(s) /\ m \notin Range(s) => IsInjective(Append(s, m))
<1>. DEFINE t == Append(s, m)
<1>1. /\ Len(s) \in Nat /\ DOMAIN s = 1..Len(s) /\ DOMAIN t = 1..(Len(s) + 1)
      /\ \A i \in 1..Len(s) : t[i] = s[i]
      /\ t[Len(s) + 1] = m
  OBVIOUS
<1>. HIDE DEF t
<1>2. \A x : x \in Range(t) <=> x \in Range(s) \/ x = m
  BY <1>1 DEF Range
<1>3. ASSUME IsInjective(s), m \notin Range(s), NEW i \in DOMAIN t, NEW k \in DOMAIN t, t[i] = t[k]
      PROVE  i = k
  <2>1. \A j \in 1..Len(s) : s[j] # m
    BY <1>1, <1>3, Zenon DEF Range
  <2>2. \A a, b \in 1..Len(s) : s[a] = s[b] => a = b
    BY <1>1, <1>3, Zenon DEF IsInjective
  <2>3. QED
    BY <1>1, <1>3, <2>1, <2>2
<1>4. IsInjective(s) /\ m \notin Range(s) => IsInjective(t)
  BY <1>3, Zenon DEF IsInjective
<1>5. QED
  BY <1>2, <1>4, Zenon DEF t

\* What a queue holds after a pop
LEMMA PopDoes ==
    ASSUME NEW s \in Seq(Record), s # <<>>, IsInjective(s)
    PROVE  /\ Head(s) \in Record
           /\ Head(s) \in Range(s)
           /\ Range(Tail(s)) = Range(s) \ {Head(s)}
           /\ IsInjective(Tail(s))
<1>. DEFINE t == Tail(s)
<1>1. /\ Len(s) \in Nat /\ Len(s) > 0 /\ DOMAIN s = 1..Len(s) /\ DOMAIN t = 1..(Len(s) - 1)
      /\ \A i \in 1..(Len(s) - 1) : t[i] = s[i + 1]
      /\ Head(s) = s[1] /\ s[1] \in Record
  OBVIOUS
<1>. HIDE DEF t
<1>2. \A a, b \in 1..Len(s) : s[a] = s[b] => a = b
  BY <1>1, Zenon DEF IsInjective
<1>3. \A x : x \in Range(t) <=> x \in Range(s) /\ x # s[1]
  <2>1. ASSUME NEW x, x \in Range(t) PROVE x \in Range(s) /\ x # s[1]
    <3>1. PICK i \in 1..(Len(s) - 1) : x = s[i + 1]
      BY <1>1, <2>1, Zenon DEF Range
    <3>2. i + 1 \in 1..Len(s) /\ i + 1 # 1 /\ 1 \in 1..Len(s)
      BY <1>1
    <3>3. QED
      BY <1>1, <1>2, <3>1, <3>2, Zenon DEF Range
  <2>2. ASSUME NEW x \in Range(s), x # s[1] PROVE x \in Range(t)
    <3>1. PICK i \in 1..Len(s) : x = s[i]
      BY <1>1, Zenon DEF Range
    <3>2. i - 1 \in 1..(Len(s) - 1) /\ (i - 1) + 1 = i
      BY <1>1, <2>2, <3>1
    <3>3. t[i - 1] = x
      BY <1>1, <3>1, <3>2, Zenon
    <3>4. QED
      BY <1>1, <3>2, <3>3, Zenon DEF Range
  <2>3. QED
    BY <2>1, <2>2, Zenon
<1>4. IsInjective(t)
  BY <1>1, <1>2 DEF IsInjective
<1>5. s[1] \in Range(s)
  BY <1>1 DEF Range
<1>6. QED
  BY <1>1, <1>3, <1>4, <1>5, Zenon DEF t

-----------------------------------------------------------------------------
(***************************************************************************)
(* The pipeline.                                                           *)
(***************************************************************************)

Early == {"idle", "auth", "admit", "resolve", "body", "pool", "rebuild"}

Sent == {"response", "buffer"}

\* The rows that settle an outcome
Settles(end) == IF end = "rejected" THEN {"denied"} ELSE Verdicts[end]

\* Rows that remain to be written, the one in hand included
Settling(p) ==
    /\ p.end \in {"rejected", "refused", "failed", "withheld", "relayed", "stream"}
    /\ \E d \in Settles(p.end) :
         \/ p.rows = <<d>>
         \/ p.rows = <<"redaction", d>> /\ p.end = "relayed"
    /\ p.log => p.end = "refused"

\* What went upstream
Ours(j) ==
    /\ j.wire.cred = (j.from # "none")
    /\ j.wire.agent \cap {"authorization", "x-api-key"} = {}
    /\ j.wire.cred => "selected" \notin j.wire.agent
    /\ j.client = j.fp

\* How a handler's variables go together: it is at l, with plan p and job j.
Handler(l, p, j) ==
    /\ l \in {"body", "pool", "rebuild"} \cup Sent => j.from \in {"none", "held"}
    /\ l \in Sent => j.wire # None /\ Ours(j)
    /\ l \notin Sent => j.wire = None
    /\ l \in Early \cup Sent => p = NoPlan
    /\ l \in {"row", "mirror"} => j = NoJob /\ Settling(p)
    /\ l = "rejected" => p.end \in {"none", "rejected"}
    /\ l \in {"refused", "failed", "withheld", "stream"} => p.end = l
    /\ l = "relayed" => p.end \in {"relayed", "stream"}

Handlers == \A r \in Req : Handler(pc[r], plan[r], job[r])

Verdict == {"denied", "error", "allowed"}

\* The verdicts that have been given on r
Given(r) == {x \in Verdict : fate[<<r, x>>] # "none"}

\* What became of the rows of request r
Recorded(r) ==
    /\ pc[r] \in Early \cup Sent => \A d \in Decision : fate[<<r, d>>] = "none"
    /\ pc[r] = "row" =>
         /\ Given(r) = {}
         /\ Head(plan[r].rows) = "redaction" => fate[<<r, "redaction">>] = "none"
    /\ pc[r] = "mirror" =>
         /\ wired
         /\ fate[Current(r)] = "inserted"
         /\ Given(r) = {Head(plan[r].rows)} \ {"redaction"}
    /\ wired /\ pc[r] \in DOMAIN Verdicts =>
         \E d \in Verdicts[pc[r]] : Given(r) = {d}
    /\ fate[<<r, "truncated">>] # "none" =>
         /\ pc[r] \in {"stream", "relayed"}
         /\ pc[r] = "stream" => job[r].marker

Records == \A r \in Req : Recorded(r)

\* Detached tasks record a refused certificate or a truncation.
TaskOK(t) ==
    /\ t.event[2] \in {"denied", "truncated"}
    /\ t.event[2] = "denied" => pc[t.event[1]] = "rejected"
    /\ t.event[2] = "truncated" =>
         /\ pc[t.event[1]] \in {"stream", "relayed"}
         /\ pc[t.event[1]] = "stream" => job[t.event[1]].marker
    /\ t.at = "row" => fate[t.event] = "none"
    /\ t.at = "mirror" => fate[t.event] = "inserted"

Tasks == \A t \in spawned : TaskOK(t)

\* A body is passed on up to the cap.
Stream(r) ==
    LET j == job[r]
        over == "cap" \in controls /\ j.upstream > Cap IN
    pc[r] = "stream" => /\ j.got = IF over THEN Cap ELSE j.upstream
                        /\ j.marker = over

Streams == \A r \in Req : Stream(r)

IInv == TypeOK /\ Table /\ Lined /\ Handlers /\ Records /\ Streams /\ Tasks

-----------------------------------------------------------------------------
(***************************************************************************)
(* Steps of a handler.                                                     *)
(***************************************************************************)

\* Only the variables of request r change.
Only(r) ==
    /\ pc' \in [Req -> PC] /\ plan' \in [Req -> Plan] /\ job' \in [Req -> Job]
    /\ \A q \in Req \ {r} : pc'[q] = pc[q] /\ plan'[q] = plan[q] /\ job'[q] = job[q]

\* The invariant for request r, as it is after a step
After(r) == Handler(pc'[r], plan'[r], job'[r]) /\ Recorded(r)' /\ Stream(r)'

\* The types, one by one.
LEMMA Types ==
    ASSUME IInv
    PROVE  /\ Trail /\ LogTypeOK
           /\ wired \in BOOLEAN /\ controls \in ControlSets
           /\ pool \in Setting \cup {None} /\ spawned \subseteq Task
           /\ restarts \in 0..MaxRestarts
           /\ pc \in [Req -> PC] /\ plan \in [Req -> Plan] /\ job \in [Req -> Job]
  BY Zenon DEF IInv, TypeOK, Trail

\* A request has an event for every decision.
LEMMA Events ==
    ASSUME NEW r \in Req, NEW d \in Decision
    PROVE  <<r, d>> \in Event /\ <<r, d>>[1] = r /\ <<r, d>>[2] = d
  BY EventAssumption, Zenon

\* A handler's variables when it has none.
LEMMA NoJobIs ==
    /\ NoJob \in Job /\ NoJob.wire = None /\ NoJob.from = "none"
    /\ NoJob.upstream = 0 /\ NoJob.got = 0 /\ NoJob.marker = FALSE
  BY Zenon DEF NoJob, Job, Account

\* While rows are written, the first is one of the decisions.
LEMMA HeadIs ==
    ASSUME NEW p \in Plan, Settling(p)
    PROVE  \E d \in Settles(p.end) :
             /\ d \in Verdict
             /\ \/ p.rows = <<d>> /\ Head(p.rows) = d /\ Tail(p.rows) = <<>> /\ Len(p.rows) = 1
                \/ /\ p.rows = <<"redaction", d>> /\ Head(p.rows) = "redaction"
                   /\ Tail(p.rows) = <<d>> /\ Len(p.rows) = 2 /\ p.end = "relayed"
<1>1. PICK d \in Settles(p.end) :
         \/ p.rows = <<d>>
         \/ p.rows = <<"redaction", d>> /\ p.end = "relayed"
  BY Zenon DEF Settling
<1>2. d \in Verdict
  BY DEF Settling, Settles, Verdicts, Passed, Verdict
<1>3. Head(<<d>>) = d /\ Tail(<<d>>) = <<>> /\ Len(<<d>>) = 1
  OBVIOUS
<1>4. /\ Head(<<"redaction", d>>) = "redaction" /\ Tail(<<"redaction", d>>) = <<d>>
      /\ Len(<<"redaction", d>>) = 2
  OBVIOUS
<1>5. QED
  BY Zenon, <1>1, <1>2, <1>3, <1>4

\* What another request or a task records does not disturb request q.
LEMMA RecordedStays ==
    ASSUME NEW q \in Req, Recorded(q), NEW E, Effect(E),
           \A d \in Decision : <<q, d>> \notin E,
           pc'[q] = pc[q], plan'[q] = plan[q], job'[q] = job[q], wired' = wired,
           pc[q] = "mirror" => Head(plan[q].rows) \in Decision
    PROVE  Recorded(q)'
<1>1. \A d \in Decision : /\ fate[<<q, d>>] # "lined" => fate'[<<q, d>>] = fate[<<q, d>>]
                          /\ fate[<<q, d>>] = "lined" => fate'[<<q, d>>] \in {"lined", "inserted"}
  BY Events, Zenon DEF Effect
<1>2. \A d \in Decision : /\ fate'[<<q, d>>] = "none" <=> fate[<<q, d>>] = "none"
                          /\ fate[<<q, d>>] = "inserted" => fate'[<<q, d>>] = "inserted"
  BY <1>1, Zenon
<1>3. Verdict \subseteq Decision /\ "redaction" \in Decision /\ "truncated" \in Decision
  BY Zenon DEF Verdict, Decision
<1>4. Given(q)' = Given(q)
  BY <1>2, <1>3, Zenon DEF Given
<1>5. Current(q)' = Current(q)
  BY Zenon DEF Current
<1>6. pc[q] = "mirror" => (fate[Current(q)] = "inserted" => fate'[Current(q)] = "inserted")
  BY <1>2, Zenon DEF Current
<1>7. QED
  BY <1>2, <1>3, <1>4, <1>5, <1>6, Zenon DEF Recorded

\* A request the step is not about keeps its part of the invariant.
LEMMA RequestStays ==
    ASSUME IInv, NEW q \in Req, NEW E, Effect(E), \A d \in Decision : <<q, d>> \notin E,
           pc'[q] = pc[q], plan'[q] = plan[q], job'[q] = job[q],
           UNCHANGED <<wired, controls>>
    PROVE  After(q)
<1>1. Handler(pc[q], plan[q], job[q]) /\ Recorded(q) /\ Stream(q)
  BY Zenon DEF IInv, Handlers, Records, Streams
<1>2. pc[q] = "mirror" => Head(plan[q].rows) \in Decision
  <2>1. SUFFICES ASSUME pc[q] = "mirror" PROVE Head(plan[q].rows) \in Decision
    BY Zenon
  <2>2. plan[q] \in Plan /\ Settling(plan[q])
    BY <1>1, <2>1, Types, Zenon DEF Handler
  <2>3. Head(plan[q].rows) \in Verdict \cup {"redaction"}
    BY <2>2, HeadIs, Zenon
  <2>4. QED
    BY <2>3, Zenon DEF Verdict, Decision
<1>3. Recorded(q)'
  BY <1>1, <1>2, RecordedStays, Zenon
<1>4. Stream(q)'
  BY <1>1, Zenon DEF Stream
<1>5. QED
  BY <1>1, <1>3, <1>4, Zenon DEF After

\* A task whose event the step is not about keeps its part of the invariant.
LEMMA TaskStays ==
    ASSUME IInv, NEW t \in spawned, NEW E, Effect(E), t.event \notin E,
           pc'[t.event[1]] = pc[t.event[1]], job'[t.event[1]] = job[t.event[1]]
    PROVE  TaskOK(t)'
<1>1. TaskOK(t) /\ t.event \in Event
  BY Types, Zenon DEF IInv, Tasks, Task
<1>2. /\ fate[t.event] = "none" => fate'[t.event] = "none"
      /\ fate[t.event] = "inserted" => fate'[t.event] = "inserted"
  BY <1>1, Zenon DEF Effect
<1>3. QED
  BY <1>1, <1>2, Zenon DEF TaskOK

\* The invariant, from the request, the tasks and the rest.
LEMMA MoveKeeps ==
    ASSUME IInv, NEW r \in Req, Only(r), NEW E \in SUBSET ({r} \X Decision), Effect(E),
           UNCHANGED <<wired, controls, restarts>>, pool' \in Setting \cup {None},
           spawned' \subseteq Task, LogTypeOK', After(r), Tasks'
    PROVE  IInv'
<1>1. TypeOK'
  BY Types, Zenon DEF Only, TypeOK, Effect, Trail
<1>2. \A q \in Req : After(q)
  <2>1. SUFFICES ASSUME NEW q \in Req, q # r PROVE After(q)
    BY Zenon
  <2>2. \A d \in Decision : <<q, d>> \notin E
    BY <2>1, Zenon
  <2>3. pc'[q] = pc[q] /\ plan'[q] = plan[q] /\ job'[q] = job[q]
    BY <2>1, Zenon DEF Only
  <2>4. QED
    BY <2>2, <2>3, RequestStays, Zenon
<1>3. Handlers' /\ Records' /\ Streams'
  BY <1>2, Zenon DEF After, Handlers, Records, Streams
<1>4. QED
  BY <1>1, <1>3, Zenon DEF IInv, Effect, Trail

\* A request without a task: the tasks are of others.
LEMMA TasksStay ==
    ASSUME IInv, NEW r \in Req, Only(r), NEW E \in SUBSET ({r} \X Decision), Effect(E),
           pc[r] \notin {"rejected", "stream", "relayed"}, spawned' = spawned
    PROVE  Tasks'
<1>1. SUFFICES ASSUME NEW t \in spawned PROVE TaskOK(t)'
  BY Zenon DEF Tasks
<1>2. TaskOK(t) /\ t.event \in Event
  BY Types, Zenon DEF IInv, Tasks, Task
<1>3. t.event[1] \in Req /\ t.event[1] # r /\ t.event \notin E
  BY <1>2, EventAssumption, Zenon DEF TaskOK
<1>4. QED
  BY <1>3, TaskStays, Zenon DEF Only

\* A step on the way to the upstream, or from there, that settles nothing.
LEMMA EarlyKeeps ==
    ASSUME IInv, NEW r \in Req, NEW l \in Early \cup Sent, pc[r] \in Early \cup Sent,
           Goto(r, l), job' \in [Req -> Job], \A q \in Req \ {r} : job'[q] = job[q],
           Handler(l, NoPlan, job'[r]), pool' \in Setting \cup {None},
           UNCHANGED <<trailVars, logVars, wired, controls, spawned, restarts, plan>>
    PROVE  IInv'
<1>1. Effect({})
  BY Types, NoEffect, Zenon
<1>2. /\ pc \in [Req -> PC] /\ plan \in [Req -> Plan] /\ l \in PC
      /\ Handler(pc[r], plan[r], job[r]) /\ Recorded(r)
  BY Types, Zenon DEF IInv, Handlers, Records, Early, Sent, PC, Handling, Awaiting
<1>3. /\ pc' \in [Req -> PC] /\ pc'[r] = l
      /\ \A q \in Req \ {r} : pc'[q] = pc[q]
  BY <1>2, Zenon DEF Goto
<1>4. Only(r)
  BY <1>2, <1>3, Zenon DEF Only
<1>5. plan'[r] = NoPlan
  BY <1>2, Zenon DEF Handler
<1>6. Recorded(r)'
  <2>1. \A d \in Decision : fate'[<<r, d>>] = "none"
    BY <1>2, Zenon DEF Recorded, trailVars
  <2>2. "truncated" \in Decision
    BY Zenon DEF Decision
  <2>3. l \notin {"row", "mirror"} /\ l \notin DOMAIN Verdicts
    BY Zenon DEF Early, Sent, Verdicts
  <2>4. QED
    BY <1>3, <2>1, <2>2, <2>3, Zenon DEF Recorded
<1>7. Stream(r)'
  BY <1>3, Zenon DEF Stream, Early, Sent
<1>8. After(r)
  BY <1>3, <1>5, <1>6, <1>7, Zenon DEF After
<1>9. Tasks'
  <2>1. pc[r] \notin {"rejected", "stream", "relayed"}
    BY Zenon DEF Early, Sent
  <2>2. QED
    BY <1>1, <1>4, <2>1, TasksStay, Zenon
<1>10. LogTypeOK' /\ spawned' \subseteq Task
  BY Types, Zenon DEF LogTypeOK, logVars
<1>11. QED
  BY <1>1, <1>4, <1>8, <1>9, <1>10, MoveKeeps, Zenon

\* The outcome is settled: its rows are to be written.
LEMMA ConcludeKeeps ==
    ASSUME IInv, NEW r \in Req, pc[r] \in Early \cup Sent, NEW rows, NEW log, NEW end,
           [rows |-> rows, log |-> log, end |-> end] \in Plan,
           Settling([rows |-> rows, log |-> log, end |-> end]),
           Conclude(r, rows, log, end), UNCHANGED shared
    PROVE  IInv'
<1>1. UNCHANGED <<trailVars, logVars, wired, controls, pool, spawned, restarts>>
  BY Zenon DEF shared
<1>2. Effect({})
  BY <1>1, Types, NoEffect, Zenon
<1>3. PICK p \in Plan : p = [rows |-> rows, log |-> log, end |-> end]
  BY Zenon
<1>4. /\ pc \in [Req -> PC] /\ plan \in [Req -> Plan] /\ job \in [Req -> Job] /\ NoJob \in Job
      /\ Recorded(r)
  BY Types, ProxyAssumption, Zenon DEF IInv, Records, NoJob, Job, Account
<1>5. /\ pc' \in [Req -> PC] /\ plan' \in [Req -> Plan] /\ job' \in [Req -> Job]
      /\ pc'[r] = "row" /\ plan'[r] = p /\ job'[r] = NoJob
      /\ \A q \in Req \ {r} : pc'[q] = pc[q] /\ plan'[q] = plan[q] /\ job'[q] = job[q]
  BY <1>3, <1>4, Zenon DEF Conclude, Goto, PC, Handling, Awaiting
<1>6. Only(r)
  BY <1>5, Zenon DEF Only
<1>7. Handler(pc'[r], plan'[r], job'[r])
  BY <1>3, <1>5, NoJobIs, Zenon DEF Handler, Early, Sent
<1>8. Recorded(r)'
  <2>1. \A d \in Decision : fate'[<<r, d>>] = "none"
    BY <1>1, <1>4, Zenon DEF Recorded, trailVars
  <2>2. Given(r)' = {} /\ "redaction" \in Decision /\ "truncated" \in Decision
    BY <2>1, Zenon DEF Given, Verdict, Decision
  <2>3. QED
    BY <1>5, <2>1, <2>2, Zenon DEF Recorded, Early, Sent, Verdicts
<1>9. After(r)
  BY <1>5, <1>7, <1>8, Zenon DEF After, Stream
<1>10. Tasks'
  <2>1. pc[r] \notin {"rejected", "stream", "relayed"}
    BY Zenon DEF Early, Sent
  <2>2. QED
    BY <1>1, <1>2, <1>6, <2>1, TasksStay, Zenon
<1>11. LogTypeOK' /\ spawned' \subseteq Task /\ pool' \in Setting \cup {None}
  BY <1>1, Types, Zenon DEF LogTypeOK, logVars
<1>12. QED
  BY <1>1, <1>2, <1>6, <1>9, <1>10, <1>11, MoveKeeps, Zenon

\* A record is sent once a credential is held, or if none is needed.
LEMMA SendKeeps ==
    ASSUME IInv, NEW r \in Req, pc[r] \in {"pool", "rebuild"}, NEW c, c = job[r].fp, Send(r, c),
           pool' \in Setting \cup {None},
           UNCHANGED <<trailVars, logVars, wired, controls, spawned, restarts, plan>>
    PROVE  IInv'
<1>1. /\ job \in [Req -> Job] /\ job[r].from \in {"none", "held"}
      /\ pc[r] \in Early \cup Sent /\ "response" \in Early \cup Sent
  BY Types, Zenon DEF IInv, Handlers, Handler, Early, Sent
<1>2. PICK w : w = [cred |-> job[r].from = "held", agent |-> Header \ Stripped(r)]
  BY Zenon
<1>3. w \in Wire /\ w # None
  <2>1. (job[r].from = "held") \in BOOLEAN /\ Header \ Stripped(r) \in SUBSET Header
    BY Zenon
  <2>2. w \in Wire
    BY <1>2, <2>1, Zenon DEF Wire
  <2>3. QED
    BY <2>2, WireAssumption, Zenon
<1>4. job' = [job EXCEPT ![r].client = c, ![r].wire = w]
  BY <1>2, Zenon DEF Send
<1>5. /\ job' \in [Req -> Job] /\ \A q \in Req \ {r} : job'[q] = job[q]
      /\ job'[r].wire = w /\ job'[r].client = c /\ job'[r].from = job[r].from
      /\ job'[r].fp = job[r].fp
  <2>1. PICK k : k = [job[r] EXCEPT !.client = c, !.wire = w]
    BY Zenon
  <2>2. /\ k \in Job /\ k.wire = w /\ k.client = c /\ k.from = job[r].from
        /\ k.fp = job[r].fp
    BY Zenon, <1>1, <1>3, <2>1 DEF Job
  <2>3. job' = [job EXCEPT ![r] = k]
    BY Zenon, <1>4, <2>1
  <2>4. QED
    BY <1>1, <2>2, <2>3, Zenon
<1>6. /\ w.cred = (job[r].from = "held")
      /\ w.agent \cap {"authorization", "x-api-key"} = {}
      /\ job[r].from # "none" => "selected" \notin w.agent
  BY <1>2, Zenon DEF Stripped
<1>7. Ours(job'[r])
  BY Zenon, <1>1, <1>5, <1>6 DEF Ours
<1>8. Handler("response", NoPlan, job'[r])
  BY <1>1, <1>3, <1>5, <1>7, Zenon DEF Handler, Early, Sent
<1>9. Goto(r, "response")
  BY Zenon DEF Send
<1>10. QED
  BY <1>1, <1>5, <1>8, <1>9, EarlyKeeps, Zenon

\* The request is rejected, with a task for its row or without.
LEMMA RejectKeeps ==
    ASSUME IInv, NEW r \in Req, pc[r] = "auth", Goto(r, "rejected"),
           spawned' = spawned \/ Spawn(<<r, "denied">>),
           UNCHANGED <<trailVars, logVars, wired, controls, pool, restarts, plan, job>>
    PROVE  IInv'
<1>1. Effect({})
  BY Types, NoEffect, Zenon
<1>2. /\ pc \in [Req -> PC] /\ plan \in [Req -> Plan] /\ job \in [Req -> Job]
      /\ Handler(pc[r], plan[r], job[r]) /\ Recorded(r) /\ spawned \subseteq Task
  BY Types, Zenon DEF IInv, Handlers, Records
<1>3. /\ pc' \in [Req -> PC] /\ pc'[r] = "rejected"
      /\ \A q \in Req \ {r} : pc'[q] = pc[q]
  BY <1>2, Zenon DEF Goto, PC, Outcome
<1>4. Only(r)
  BY <1>2, <1>3, Zenon DEF Only
<1>5. fate' = fate /\ \A d \in Decision : fate[<<r, d>>] = "none"
  BY <1>2, Zenon DEF Recorded, Early, trailVars
<1>6. Recorded(r)'
  <2>1. "truncated" \in Decision
    BY Zenon DEF Decision
  <2>2. QED
    BY <1>3, <1>5, <2>1, Zenon DEF Recorded, Early, Sent, Verdicts
<1>7. Handler(pc'[r], plan'[r], job'[r])
  BY <1>2, <1>3 DEF Handler, Early, Sent, NoPlan
<1>8. After(r)
  BY <1>3, <1>6, <1>7, Zenon DEF After, Stream
<1>9. PICK u : u = [event |-> <<r, "denied">>, at |-> "row"]
  BY Zenon
<1>10. u \in Task /\ u.event = <<r, "denied">> /\ u.at = "row" /\ "denied" \in Decision
  BY Zenon, <1>9, Events DEF Task, Decision
<1>11. spawned' \subseteq spawned \cup {u}
  BY <1>9, Zenon DEF Spawn
<1>12. Tasks'
  <2>1. SUFFICES ASSUME NEW t \in spawned \cup {u} PROVE TaskOK(t)'
    BY <1>11, Zenon DEF Tasks
  <2>2. CASE t = u
    <3>1. t.event[1] = r /\ t.event[2] = "denied" /\ t.at = "row"
      BY <1>10, <2>2
    <3>2. fate'[t.event] = "none"
      BY <1>5, <1>10, <2>2, Zenon
    <3>3. QED
      BY <1>3, <3>1, <3>2, Zenon DEF TaskOK
  <2>3. CASE t \in spawned
    <3>1. TaskOK(t) /\ t.event \in Event
      BY <1>2, <2>3, Zenon DEF IInv, Tasks, Task
    <3>2. t.event[1] \in Req /\ t.event[1] # r
      BY <3>1, EventAssumption, Zenon DEF TaskOK
    <3>3. pc'[t.event[1]] = pc[t.event[1]] /\ job'[t.event[1]] = job[t.event[1]]
      BY <1>3, <3>2, Zenon
    <3>4. t.event \notin {}
      BY Zenon
    <3>5. QED
      BY <1>1, <2>3, <3>3, <3>4, TaskStays, Zenon
  <2>4. QED
    BY <2>1, <2>2, <2>3, Zenon
<1>13. LogTypeOK' /\ spawned' \subseteq Task /\ pool' \in Setting \cup {None}
  BY <1>2, <1>10, <1>11, Types, Zenon DEF LogTypeOK, logVars
<1>14. QED
  BY <1>1, <1>4, <1>8, <1>12, <1>13, MoveKeeps, Zenon

\* The plans of the record_* helpers: each writes the row of its outcome.
LEMMA PlansSettle ==
    /\ \A d \in {"denied", "error"} :
         LET p == [rows |-> <<d>>, log |-> FALSE, end |-> "refused"] IN
         p \in Plan /\ Settling(p)
    /\ LET p == [rows |-> <<"error">>, log |-> TRUE, end |-> "refused"] IN
       p \in Plan /\ Settling(p)
    /\ LET p == [rows |-> <<"denied">>, log |-> FALSE, end |-> "rejected"] IN
       p \in Plan /\ Settling(p)
    /\ LET p == [rows |-> <<"error">>, log |-> FALSE, end |-> "failed"] IN
       p \in Plan /\ Settling(p)
    /\ LET p == [rows |-> <<"denied">>, log |-> FALSE, end |-> "withheld"] IN
       p \in Plan /\ Settling(p)
    /\ \A d \in Passed :
         LET p == [rows |-> <<d>>, log |-> FALSE, end |-> "stream"] IN
         p \in Plan /\ Settling(p)
    /\ \A rows \in PassedRows :
         LET p == [rows |-> rows, log |-> FALSE, end |-> "relayed"] IN
         p \in Plan /\ Settling(p)
<1>1. ASSUME NEW d \in {"denied", "error", "allowed"}
      PROVE  <<d>> \in Seq(Decision) /\ <<"redaction", d>> \in Seq(Decision)
  BY DEF Decision
<1>2. Passed \subseteq {"denied", "error", "allowed"}
  BY Zenon DEF Passed
<1>3. \A rows \in PassedRows : \E d \in Passed : rows = <<d>> \/ rows = <<"redaction", d>>
  BY Zenon DEF PassedRows
<1>4. ASSUME NEW d \in {"denied", "error"}
      PROVE  LET p == [rows |-> <<d>>, log |-> FALSE, end |-> "refused"] IN
             p \in Plan /\ Settling(p)
  BY <1>1, Zenon DEF Plan, Outcome, Settling, Settles, Verdicts
<1>5. LET p == [rows |-> <<"error">>, log |-> TRUE, end |-> "refused"] IN
      p \in Plan /\ Settling(p)
  BY <1>1, Zenon DEF Plan, Outcome, Settling, Settles, Verdicts
<1>6. LET p == [rows |-> <<"denied">>, log |-> FALSE, end |-> "rejected"] IN
      p \in Plan /\ Settling(p)
  BY <1>1, Zenon DEF Plan, Outcome, Settling, Settles
<1>7. LET p == [rows |-> <<"error">>, log |-> FALSE, end |-> "failed"] IN
      p \in Plan /\ Settling(p)
  BY <1>1, Zenon DEF Plan, Outcome, Settling, Settles, Verdicts
<1>8. LET p == [rows |-> <<"denied">>, log |-> FALSE, end |-> "withheld"] IN
      p \in Plan /\ Settling(p)
  BY <1>1, Zenon DEF Plan, Outcome, Settling, Settles, Verdicts
<1>9. ASSUME NEW d \in Passed
      PROVE  LET p == [rows |-> <<d>>, log |-> FALSE, end |-> "stream"] IN
             p \in Plan /\ Settling(p)
  BY <1>1, <1>2, Zenon DEF Plan, Outcome, Settling, Settles, Verdicts
<1>10. ASSUME NEW rows \in PassedRows
       PROVE  LET p == [rows |-> rows, log |-> FALSE, end |-> "relayed"] IN
              p \in Plan /\ Settling(p)
  <2>1. PICK d \in Passed : rows = <<d>> \/ rows = <<"redaction", d>>
    BY <1>3, Zenon
  <2>2. rows \in Seq(Decision)
    BY Zenon, <1>1, <1>2, <2>1
  <2>3. d \in Settles("relayed")
    BY Zenon DEF Settles, Verdicts
  <2>4. QED
    BY <2>1, <2>2, <2>3, Zenon DEF Plan, Outcome, Settling
<1>11. QED
  BY <1>4, <1>5, <1>6, <1>7, <1>8, <1>9, <1>10, Zenon

\* proxy_handler up to the upstream.
LEMMA HandleKeeps ==
    ASSUME IInv, NEW r \in Req, Handle(r)
    PROVE  IInv'
<1>1. /\ job \in [Req -> Job] /\ plan \in [Req -> Plan] /\ pool \in Setting \cup {None}
      /\ Handler(pc[r], plan[r], job[r])
  BY Types, Zenon DEF IInv, Handlers
<1>2. CASE Accept(r)
  <2>1. /\ pc[r] \in Early /\ Goto(r, "auth") /\ "auth" \in Early \cup Sent
        /\ UNCHANGED <<trailVars, logVars, wired, controls, pool, spawned, restarts, plan, job>>
    BY <1>2, Zenon DEF Accept, shared, Early
  <2>2. Handler("auth", NoPlan, job[r])
    BY <1>1, <1>2, Zenon DEF Accept, Handler, Early, Sent
  <2>3. QED
    BY <1>1, <2>1, <2>2, EarlyKeeps, Zenon
<1>3. CASE CheckLists(r)
  <2>1. pc[r] = "auth" /\ UNCHANGED shared
    BY <1>3, Zenon DEF CheckLists
  <2>2. CASE Conclude(r, <<"denied">>, FALSE, "refused")
    <3>1. /\ [rows |-> <<"denied">>, log |-> FALSE, end |-> "refused"] \in Plan
          /\ Settling([rows |-> <<"denied">>, log |-> FALSE, end |-> "refused"])
      BY PlansSettle, Zenon
    <3>2. QED
      BY Zenon, <2>1, <2>2, <3>1, ConcludeKeeps DEF Early
  <2>3. CASE Goto(r, "admit") /\ UNCHANGED <<plan, job>>
    <3>1. /\ pc[r] \in Early /\ "admit" \in Early \cup Sent
          /\ UNCHANGED <<trailVars, logVars, wired, controls, pool, spawned, restarts>>
      BY <2>1, Zenon DEF shared, Early
    <3>2. Handler("admit", NoPlan, job[r])
      BY <1>1, <2>1, Zenon DEF Handler, Early, Sent
    <3>3. QED
      BY <1>1, <2>3, <3>1, <3>2, EarlyKeeps, Zenon
  <2>4. QED
    BY Zenon, <1>3, <2>2, <2>3 DEF CheckLists
<1>4. CASE BadBearer(r)
  BY Zenon, <1>4, PlansSettle, ConcludeKeeps DEF BadBearer, Early
<1>5. CASE BadCertificate(r)
  BY <1>5, RejectKeeps, Zenon DEF BadCertificate
<1>6. CASE RejectedUnaudited(r)
  BY <1>6, RejectKeeps, Zenon DEF RejectedUnaudited, shared
<1>7. ASSUME NEW d \in {"denied", "error"}, NotAdmitted(r, d) \/ BadBody(r, d)
      PROVE  IInv'
  BY Zenon, <1>7, PlansSettle, ConcludeKeeps DEF NotAdmitted, BadBody, Early
<1>8. ASSUME NEW a \in Account, NEW f \in Setting, Admit(r, a, f)
      PROVE  IInv'
  <2>1. /\ pc[r] \in Early /\ Goto(r, "resolve") /\ "resolve" \in Early \cup Sent
        /\ UNCHANGED <<trailVars, logVars, wired, controls, pool, spawned, restarts, plan>>
        /\ job' = [job EXCEPT ![r].from = a, ![r].fp = f]
    BY <1>8, Zenon DEF Admit, shared, Early
  <2>2. /\ job' \in [Req -> Job] /\ \A q \in Req \ {r} : job'[q] = job[q]
        /\ job'[r].wire = job[r].wire
    <3>1. PICK k : k = [job[r] EXCEPT !.from = a, !.fp = f]
      BY Zenon
    <3>2. k \in Job /\ k.wire = job[r].wire
      BY Zenon, <1>1, <3>1 DEF Job
    <3>3. job' = [job EXCEPT ![r] = k]
      BY Zenon, <2>1, <3>1
    <3>4. QED
      BY <1>1, <3>2, <3>3, Zenon
  <2>3. Handler("resolve", NoPlan, job'[r])
    BY <1>1, <1>8, <2>2, Zenon DEF Admit, Handler, Early, Sent
  <2>4. QED
    BY <1>1, <2>1, <2>2, <2>3, EarlyKeeps, Zenon
<1>9. CASE Unresolved(r)
  BY Zenon, <1>9, PlansSettle, ConcludeKeeps DEF Unresolved, Early
<1>10. CASE NoToken(r)
  BY Zenon, <1>10, PlansSettle, ConcludeKeeps DEF NoToken, Early
<1>11. CASE Resolve(r)
  <2>1. /\ pc[r] \in Early /\ Goto(r, "body") /\ "body" \in Early \cup Sent
        /\ UNCHANGED <<trailVars, logVars, wired, controls, pool, spawned, restarts, plan>>
        /\ job' = [job EXCEPT ![r].from = IF @ = "none" THEN "none" ELSE "held"]
    BY <1>11, Zenon DEF Resolve, shared, Early
  <2>2. /\ job' \in [Req -> Job] /\ \A q \in Req \ {r} : job'[q] = job[q]
        /\ job'[r].wire = job[r].wire /\ job'[r].from \in {"none", "held"}
    BY <1>1, <2>1 DEF Job, Account
  <2>3. Handler("body", NoPlan, job'[r])
    BY <1>1, <1>11, <2>2, Zenon DEF Resolve, Handler, Early, Sent
  <2>4. QED
    BY <1>1, <2>1, <2>2, <2>3, EarlyKeeps, Zenon
<1>12. CASE ReadBody(r)
  <2>1. /\ pc[r] \in Early /\ Goto(r, "pool") /\ "pool" \in Early \cup Sent
        /\ UNCHANGED <<trailVars, logVars, wired, controls, pool, spawned, restarts, plan, job>>
    BY <1>12, Zenon DEF ReadBody, shared, Early
  <2>2. Handler("pool", NoPlan, job[r])
    BY <1>1, <1>12, Zenon DEF ReadBody, Handler, Early, Sent
  <2>3. QED
    BY <1>1, <2>1, <2>2, EarlyKeeps, Zenon
<1>13. CASE LookUp(r)
  <2>1. pc[r] = "pool" /\ pc[r] \in Early
        /\ UNCHANGED <<trailVars, logVars, wired, controls, pool, spawned, restarts, plan>>
    BY <1>13, Zenon DEF LookUp, shared, Early
  <2>2. CASE pool = job[r].fp /\ Send(r, pool)
    BY <1>1, <2>1, <2>2, SendKeeps, Zenon
  <2>3. CASE Goto(r, "rebuild") /\ UNCHANGED job
    <3>1. Handler("rebuild", NoPlan, job[r]) /\ "rebuild" \in Early \cup Sent
      BY <1>1, <2>1, Zenon DEF Handler, Early, Sent
    <3>2. QED
      BY <1>1, <2>1, <2>3, <3>1, EarlyKeeps, Zenon
  <2>4. QED
    BY <1>13, <2>2, <2>3, Zenon DEF LookUp
<1>14. CASE Rebuild(r)
  <2>1. job[r].fp \in Setting \cup {None}
    BY <1>1, Zenon DEF Job
  <2>2. QED
    BY <1>14, <2>1, SendKeeps, Zenon DEF Rebuild
<1>15. QED
  BY <1>2, <1>3, <1>4, <1>5, <1>6, <1>7, <1>8, <1>9, <1>10, <1>11, <1>12, <1>13, <1>14,
    Zenon
  DEF Handle, Authenticate

\* emit keeps the channel within its slots.
LEMMA EmitType ==
    ASSUME LogTypeOK, NEW r \in Req, Emit(r)
    PROVE  LogTypeOK'
<1>1. r \in Record
  BY ProxyAssumption, Zenon
<1>2. CASE Room /\ channel' = Append(channel, r) /\ UNCHANGED <<dropped, taken, logged, missed>>
  <2>1. channel \in Seq(Record) /\ Len(channel) < Slots /\ Len(channel) \in Nat /\ Slots \in Nat
    BY <1>2, LogAssumption DEF LogTypeOK, Room, Slots
  <2>2. channel' \in Seq(Record) /\ Len(channel') = Len(channel) + 1
    BY <1>1, <1>2, <2>1
  <2>3. Len(channel') <= Slots
    BY <2>1, <2>2
  <2>4. QED
    BY <1>2, <2>2, <2>3, Zenon DEF LogTypeOK, Slots
<1>3. CASE dropped' = dropped + 1 /\ UNCHANGED <<channel, taken, logged, missed>>
  BY <1>3 DEF LogTypeOK, Slots
<1>4. QED
  BY <1>2, <1>3, Zenon DEF Emit

\* After a row: the next one, or the answer.
LEMMA ProceedDoes ==
    ASSUME IInv, NEW r \in Req, pc[r] \in {"row", "mirror"}, Proceed(r), UNCHANGED job
    PROVE  /\ Only(r) /\ LogTypeOK' /\ job[r] = NoJob
           /\ plan'[r].end = plan[r].end /\ plan'[r].log = plan[r].log
           /\ \E d \in Settles(plan[r].end) :
                \/ Head(plan[r].rows) = d /\ pc'[r] = plan[r].end
                \/ /\ Head(plan[r].rows) = "redaction" /\ pc'[r] = "row"
                   /\ plan'[r].rows = <<d>> /\ plan[r].end = "relayed"
<1>1. /\ pc \in [Req -> PC] /\ plan \in [Req -> Plan] /\ job \in [Req -> Job] /\ LogTypeOK
      /\ job[r] = NoJob /\ Settling(plan[r])
  BY Types, Zenon DEF IInv, Handlers, Handler
<1>2. PICK d \in Settles(plan[r].end) :
        /\ d \in Verdict
        /\ \/ /\ Head(plan[r].rows) = d /\ Tail(plan[r].rows) = <<>> /\ Len(plan[r].rows) = 1
           \/ /\ Head(plan[r].rows) = "redaction" /\ plan[r].end = "relayed"
              /\ Tail(plan[r].rows) = <<d>> /\ Len(plan[r].rows) = 2
  BY <1>1, HeadIs, Zenon
<1>3. plan[r].end \in PC
  BY <1>1, Zenon DEF Settling, PC, Outcome
<1>4. LogTypeOK'
  <2>1. CASE UNCHANGED logVars
    BY <1>1, <2>1, Zenon DEF LogTypeOK, logVars, Slots
  <2>2. QED
    BY <1>1, <2>1, EmitType, Zenon DEF Proceed
<1>5. PICK p : p = [plan[r] EXCEPT !.rows = Tail(plan[r].rows)]
  BY Zenon
<1>6. /\ p \in Plan /\ p.end = plan[r].end /\ p.log = plan[r].log
      /\ p.rows = Tail(plan[r].rows)
  <2>1. Tail(plan[r].rows) \in Seq(Decision)
    <3>1. <<>> \in Seq(Decision) /\ <<d>> \in Seq(Decision)
      BY <1>2 DEF Verdict, Decision
    <3>2. QED
      BY Zenon, <1>2, <3>1
  <2>2. QED
    BY Zenon, <1>1, <1>5, <2>1 DEF Plan
<1>7. plan' = [plan EXCEPT ![r] = p]
  BY <1>5, Zenon DEF Proceed
<1>8. /\ plan' \in [Req -> Plan] /\ plan'[r] = p
      /\ \A q \in Req \ {r} : plan'[q] = plan[q]
  BY <1>1, <1>6, <1>7, Zenon
<1>9. /\ pc' \in [Req -> PC] /\ \A q \in Req \ {r} : pc'[q] = pc[q]
      /\ Len(plan[r].rows) = 1 => pc'[r] = plan[r].end
      /\ Len(plan[r].rows) = 2 => pc'[r] = "row"
  <2>1. /\ Len(plan[r].rows) = 1 => Goto(r, plan[r].end)
        /\ Len(plan[r].rows) = 2 => Goto(r, "row")
    <3>1. /\ Len(plan[r].rows) > 1 => Goto(r, "row")
          /\ ~(Len(plan[r].rows) > 1) => Goto(r, plan[r].end)
      BY Zenon DEF Proceed
    <3>2. 2 > 1 /\ ~(1 > 1)
      OBVIOUS
    <3>3. QED
      BY <3>1, <3>2, Zenon
  <2>2. "row" \in PC
    BY Zenon DEF PC, Handling, Awaiting
  <2>3. PICK l \in PC : Goto(r, l) /\ (Len(plan[r].rows) = 1 => l = plan[r].end)
                              /\ (Len(plan[r].rows) = 2 => l = "row")
    <3>1. Len(plan[r].rows) = 1 \/ Len(plan[r].rows) = 2
      BY <1>2, Zenon
    <3>2. QED
      BY <1>3, <2>1, <2>2, <3>1
  <2>4. pc' = [pc EXCEPT ![r] = l]
    BY <2>3, Zenon DEF Goto
  <2>5. QED
    BY <1>1, <2>3, <2>4, Zenon
<1>10. Only(r)
  BY <1>1, <1>8, <1>9, Zenon DEF Only
<1>11. QED
  BY Zenon, <1>1, <1>2, <1>4, <1>6, <1>8, <1>9, <1>10

\* A row is done with: the outcome is answered once its verdict is recorded.
LEMMA ProceedKeeps ==
    ASSUME IInv, NEW r \in Req, pc[r] \in {"row", "mirror"}, Proceed(r),
           NEW E, E = (IF wired THEN {Current(r)} ELSE {}), Effect(E),
           UNCHANGED <<wired, controls, pool, spawned, restarts, job>>
    PROVE  IInv'
<1>1. /\ Only(r) /\ LogTypeOK' /\ job[r] = NoJob
      /\ plan'[r].end = plan[r].end /\ plan'[r].log = plan[r].log
  BY ProceedDoes, Zenon
<1>2. PICK d \in Settles(plan[r].end) :
        \/ Head(plan[r].rows) = d /\ pc'[r] = plan[r].end
        \/ /\ Head(plan[r].rows) = "redaction" /\ pc'[r] = "row"
           /\ plan'[r].rows = <<d>> /\ plan[r].end = "relayed"
  BY ProceedDoes, Zenon
<1>3. Handler(pc[r], plan[r], job[r]) /\ Recorded(r) /\ plan[r] \in Plan
  BY Types, Zenon DEF IInv, Handlers, Records
<1>4. Settling(plan[r])
  BY <1>3, Zenon DEF Handler
<1>5. d \in Verdict /\ Head(plan[r].rows) \in Verdict \cup {"redaction"}
  BY <1>2, <1>4 DEF Settling, Settles, Verdicts, Passed, Verdict
<1>6. E \in SUBSET ({r} \X Decision)
  BY <1>5 DEF Current, Verdict, Decision
<1>7. /\ \A x \in Decision :
           <<r, x>> \notin E => (fate'[<<r, x>>] = "none" <=> fate[<<r, x>>] = "none")
      /\ wired => fate'[Current(r)] # "none"
  <2>1. \A x \in Decision : <<r, x>> \in Event
    BY Events, Zenon
  <2>2. QED
    BY <2>1, Zenon DEF Effect
<1>8. Given(r) \subseteq {Head(plan[r].rows)} \ {"redaction"}
  BY <1>3, Zenon DEF Recorded
<1>9. fate'[<<r, "truncated">>] = "none"
  <2>1. fate[<<r, "truncated">>] = "none"
    BY <1>3, Zenon DEF Recorded
  <2>2. "truncated" \in Decision /\ <<r, "truncated">> \notin E
    BY <1>5, Zenon DEF Decision, Current, Verdict
  <2>3. QED
    BY <1>7, <2>1, <2>2, Zenon
<1>10. ASSUME After(r) PROVE IInv'
  <2>1. Tasks'
    BY <1>1, <1>6, TasksStay, Zenon
  <2>2. spawned' \subseteq Task /\ pool' \in Setting \cup {None}
    BY Types, Zenon
  <2>3. QED
    BY <1>1, <1>6, <1>10, <2>1, <2>2, MoveKeeps, Zenon
<1>11. CASE Head(plan[r].rows) = d /\ pc'[r] = plan[r].end
  <2>1. wired => Given(r)' = {d}
    <3>1. SUFFICES ASSUME wired PROVE Given(r)' = {d}
      BY Zenon
    <3>2. E = {<<r, d>>} /\ fate'[<<r, d>>] # "none"
      BY <1>7, <1>11, <3>1, Zenon DEF Current
    <3>3. \A x \in Verdict : x # d => fate'[<<r, x>>] = "none"
      <4>1. SUFFICES ASSUME NEW x \in Verdict, x # d PROVE fate'[<<r, x>>] = "none"
        BY Zenon
      <4>2. fate[<<r, x>>] = "none"
        BY <1>8, <1>11, <4>1, Zenon DEF Given
      <4>3. <<r, x>> \notin E /\ x \in Decision
        BY <3>2, <4>1, Zenon DEF Verdict, Decision
      <4>4. QED
        BY <1>7, <4>2, <4>3, Zenon
    <3>4. QED
      BY <1>5, <3>2, <3>3, Zenon DEF Given
  <2>2. pc'[r] \in {"rejected", "refused", "failed", "withheld", "relayed", "stream"}
    BY <1>4, <1>11, Zenon DEF Settling
  <2>3. wired /\ pc'[r] \in DOMAIN Verdicts => d \in Verdicts[pc'[r]]
    BY <1>11, Zenon DEF Settles, Verdicts
  <2>4. Recorded(r)'
    BY <1>9, <2>1, <2>2, <2>3, Zenon DEF Recorded, Early, Sent
  <2>5. Handler(pc'[r], plan'[r], job'[r])
    BY <1>1, <1>11, <2>2, NoJobIs, Zenon DEF Handler, Early, Sent
  <2>6. Stream(r)'
    <3>1. /\ job'[r].upstream = 0 /\ job'[r].got = 0 /\ job'[r].marker = FALSE
          /\ Cap \in Nat
      BY <1>1, NoJobIs, ProxyAssumption, Zenon
    <3>2. ~(job'[r].upstream > Cap) /\ job'[r].got = job'[r].upstream
      BY <3>1
    <3>3. QED
      BY <3>1, <3>2, Zenon DEF Stream
  <2>7. QED
    BY <1>10, <2>4, <2>5, <2>6, Zenon DEF After
<1>12. CASE /\ Head(plan[r].rows) = "redaction" /\ pc'[r] = "row"
            /\ plan'[r].rows = <<d>> /\ plan[r].end = "relayed"
  <2>1. Given(r)' = {}
    <3>1. SUFFICES ASSUME NEW x \in Verdict PROVE fate'[<<r, x>>] = "none"
      BY Zenon DEF Given
    <3>2. fate[<<r, x>>] = "none"
      BY <1>8, <1>12, Zenon DEF Given
    <3>3. <<r, x>> \notin E /\ x \in Decision
      BY <1>12, Zenon DEF Verdict, Decision, Current
    <3>4. QED
      BY <1>7, <3>2, <3>3, Zenon
  <2>2. Head(plan'[r].rows) = d /\ d # "redaction"
    BY <1>5, <1>12, SMTT(20) DEF Verdict
  <2>3. Recorded(r)'
    BY <1>9, <1>12, <2>1, <2>2, Zenon DEF Recorded, Early, Sent, Verdicts
  <2>4. Settling(plan'[r])
    BY <1>1, <1>4, <1>12, Zenon DEF Settling
  <2>5. Handler(pc'[r], plan'[r], job'[r])
    BY <1>1, <1>12, <2>4, NoJobIs, Zenon DEF Handler, Early, Sent
  <2>6. Stream(r)'
    BY <1>12, Zenon DEF Stream
  <2>7. QED
    BY <1>10, <2>3, <2>5, <2>6, Zenon DEF After
<1>13. QED
  BY <1>2, <1>11, <1>12, Zenon

\* audit_record: the INSERT, which succeeds, fails or is not made.
LEMMA WriteRowKeeps ==
    ASSUME IInv, NEW r \in Req, WriteRow(r)
    PROVE  IInv'
<1>1. /\ pc[r] = "row" /\ UNCHANGED <<wired, controls, pool, spawned, restarts, job>>
      /\ pc \in [Req -> PC] /\ plan \in [Req -> Plan] /\ job \in [Req -> Job]
      /\ Trail /\ LogTypeOK /\ Handler(pc[r], plan[r], job[r]) /\ Recorded(r)
  BY Types, Zenon DEF WriteRow, IInv, Handlers, Records
<1>2. PICK c : c = Head(plan[r].rows)
  BY Zenon
<1>3. Settling(plan[r]) /\ c \in Verdict \cup {"redaction"}
  BY <1>1, <1>2, HeadIs, Zenon DEF Handler
<1>4. c \in Decision /\ Current(r) = <<r, c>> /\ Current(r) \in Event /\ c # "truncated"
  BY Zenon, <1>2, <1>3, Events DEF Verdict, Decision, Current
<1>5. fate[Current(r)] = "none"
  BY <1>1, <1>2, <1>3, <1>4, Zenon DEF Recorded, Given
<1>6. CASE wired /\ InsertRow(Current(r)) /\ Goto(r, "mirror") /\ UNCHANGED <<logVars, plan>>
  <2>1. Effect({<<r, c>>}) /\ fate'[<<r, c>>] = "inserted"
    BY <1>1, <1>4, <1>5, <1>6, InsertDoes, Zenon
  <2>2. {<<r, c>>} \in SUBSET ({r} \X Decision)
    BY <1>4
  <2>3. /\ pc' \in [Req -> PC] /\ pc'[r] = "mirror" /\ \A q \in Req \ {r} : pc'[q] = pc[q]
    BY <1>1, <1>6, Zenon DEF Goto, PC, Handling, Awaiting
  <2>4. Only(r)
    BY <1>1, <1>6, <2>3, Zenon DEF Only
  <2>5. \A x \in Decision : x # c => (fate'[<<r, x>>] = "none" <=> fate[<<r, x>>] = "none")
    <3>1. \A x \in Decision : <<r, x>> \in Event
      BY Events, Zenon
    <3>2. QED
      BY <2>1, <3>1, Zenon DEF Effect
  <2>6. Given(r)' = {c} \ {"redaction"}
    <3>1. \A x \in Verdict : fate[<<r, x>>] = "none" /\ x \in Decision
      BY <1>1, Zenon DEF Recorded, Given, Verdict, Decision
    <3>2. \A x \in Verdict : fate'[<<r, x>>] # "none" <=> x = c
      BY <2>1, <2>5, <3>1, Zenon
    <3>3. "redaction" \notin Verdict
      BY Zenon DEF Verdict
    <3>4. QED
      BY <1>3, <3>2, <3>3, Zenon DEF Given
  <2>7. fate'[<<r, "truncated">>] = "none"
    BY <1>1, <1>4, <2>5, Zenon DEF Recorded, Decision
  <2>8. Recorded(r)'
    <3>1. Current(r)' = <<r, c>> /\ Head(plan'[r].rows) = c
      BY <1>2, <1>6, Zenon DEF Current
    <3>2. QED
      BY <1>1, <1>6, <2>1, <2>3, <2>6, <2>7, <3>1, Zenon
        DEF Recorded, Early, Sent, Verdicts
  <2>9. After(r)
    BY <1>1, <1>6, <2>3, <2>8, Zenon DEF After, Stream, Handler, Early, Sent
  <2>10. Tasks'
    BY <1>1, <2>1, <2>2, <2>4, TasksStay, Zenon
  <2>11. LogTypeOK' /\ spawned' \subseteq Task /\ pool' \in Setting \cup {None}
    BY <1>1, <1>6, Types, Zenon DEF LogTypeOK, logVars, Slots
  <2>12. QED
    BY <1>1, <2>1, <2>2, <2>4, <2>9, <2>10, <2>11, MoveKeeps, Zenon
<1>7. CASE wired /\ InsertFails(Current(r)) /\ Proceed(r)
  <2>1. Effect({Current(r)})
    BY <1>1, <1>4, <1>5, <1>7, FailDoes, Zenon
  <2>2. QED
    BY <1>1, <1>7, <2>1, ProceedKeeps, Zenon
<1>8. CASE ~wired /\ Proceed(r) /\ UNCHANGED trailVars
  <2>1. Effect({})
    BY <1>1, <1>8, NoEffect, Zenon
  <2>2. QED
    BY <1>1, <1>8, <2>1, ProceedKeeps, Zenon
<1>9. QED
  BY <1>6, <1>7, <1>8, Zenon DEF WriteRow

\* sink.append, and the next row or the answer.
LEMMA MirrorKeeps ==
    ASSUME IInv, NEW r \in Req, Mirror(r)
    PROVE  IInv'
<1>1. /\ pc[r] = "mirror" /\ Proceed(r)
      /\ UNCHANGED <<wired, controls, pool, spawned, restarts, job>>
      /\ plan \in [Req -> Plan] /\ Trail
      /\ Handler(pc[r], plan[r], job[r]) /\ Recorded(r)
  BY Types, Zenon DEF Mirror, IInv, Handlers, Records
<1>2. PICK fails \in Failures : MirrorRow(Current(r), fails)
  BY Zenon DEF Mirror
<1>3. Head(plan[r].rows) \in Verdict \cup {"redaction"}
  BY <1>1, HeadIs, Zenon DEF Handler
<1>4. Current(r) \in Event /\ fate[Current(r)] = "inserted"
  BY <1>1, <1>3, Events, Zenon DEF Verdict, Decision, Current, Recorded
<1>5. Effect({Current(r)})
  BY <1>1, <1>2, <1>4, MirrorDoes, Zenon
<1>6. wired
  BY <1>1, Zenon DEF Recorded
<1>7. QED
  BY <1>1, <1>5, <1>6, ProceedKeeps, Zenon

\* The first chunk past the cap is cut, and the stream ends with the marker.
LEMMA ChunkKeeps ==
    ASSUME IInv, NEW r \in Req, NEW n \in 0..MaxChunk, Chunk(r, n)
    PROVE  IInv'
<1>. DEFINE over == "cap" \in controls /\ job[r].got + n > Cap
<1>1. /\ pc[r] = "stream" /\ ~job[r].marker
      /\ UNCHANGED <<trailVars, logVars, wired, controls, pool, restarts, pc, plan>>
      /\ pc \in [Req -> PC] /\ plan \in [Req -> Plan] /\ job \in [Req -> Job]
      /\ Trail /\ Handler(pc[r], plan[r], job[r]) /\ Recorded(r) /\ Stream(r)
      /\ spawned \subseteq Task
  BY Types, Zenon DEF Chunk, IInv, Handlers, Records, Streams
<1>2. /\ job[r].upstream \in Nat /\ job[r].got \in Nat /\ n \in Nat /\ Cap \in Nat
  BY <1>1, ProxyAssumption DEF Job
<1>3. job[r].got = job[r].upstream /\ (over <=> "cap" \in controls /\ job[r].upstream + n > Cap)
  <2>1. ~("cap" \in controls /\ job[r].upstream > Cap)
    BY <1>1, Zenon DEF Stream
  <2>2. job[r].got = job[r].upstream
    BY <1>1, <2>1, Zenon DEF Stream
  <2>3. QED
    BY <2>2, Zenon
<1>4. PICK k : k = [job[r] EXCEPT !.upstream = job[r].upstream + n,
                                  !.got = Yielded(r, n), !.marker = over]
  BY Zenon
<1>5. /\ Yielded(r, n) \in Nat
      /\ Yielded(r, n) = IF over THEN Cap ELSE job[r].upstream + n
  BY <1>2, <1>3 DEF Yielded
<1>6. over \in BOOLEAN
  BY Zenon
<1>7. /\ job' = [job EXCEPT ![r] = k]
      /\ spawned' = spawned \/ (over /\ Spawn(<<r, "truncated">>))
  <2>1. /\ job' = [job EXCEPT ![r].upstream = @ + n, ![r].got = Yielded(r, n), ![r].marker = over]
        /\ IF over THEN Spawn(<<r, "truncated">>) ELSE UNCHANGED spawned
    BY Zenon DEF Chunk
  <2>. HIDE DEF over
  <2>2. PICK y, m : y = Yielded(r, n) /\ m = over
    BY Zenon
  <2>3. /\ job' = [job EXCEPT ![r].upstream = @ + n, ![r].got = y, ![r].marker = m]
        /\ k = [job[r] EXCEPT !.upstream = job[r].upstream + n, !.got = y, !.marker = m]
    BY <1>4, <2>1, <2>2, Zenon
  <2>4. job' = [job EXCEPT ![r] = k]
    BY Zenon, <2>3
  <2>5. QED
    BY <2>1, <2>4, Zenon
<1>8. PICK o \in BOOLEAN : o <=> over
  BY Zenon
<1>9. job[r].upstream + n \in Nat
  BY <1>2
<1>10. k = [job[r] EXCEPT !.upstream = job[r].upstream + n, !.got = Yielded(r, n), !.marker = o]
  BY <1>4, <1>6, <1>8, Zenon
<1>11. "cap" \in controls /\ job[r].upstream + n > Cap <=> o
  BY <1>3, <1>8, Zenon
<1>. HIDE DEF over
<1>12. /\ k \in Job /\ k.upstream = job[r].upstream + n /\ k.got = Yielded(r, n)
       /\ k.marker = o /\ k.wire = job[r].wire
  BY Zenon, <1>1, <1>5, <1>9, <1>10 DEF Job
<1>13. /\ job' \in [Req -> Job] /\ job'[r] = k /\ \A q \in Req \ {r} : job'[q] = job[q]
  BY <1>1, <1>7, <1>12, Zenon
<1>14. Only(r)
  BY <1>1, <1>13, Zenon DEF Only
<1>15. Effect({})
  BY <1>1, NoEffect, Zenon
<1>16. fate' = fate /\ fate[<<r, "truncated">>] = "none"
  BY <1>1, Zenon DEF Recorded, trailVars
<1>17. Recorded(r)'
  <2>1. Given(r)' = Given(r)
    BY <1>16, Zenon DEF Given
  <2>2. QED
    BY <1>1, <1>16, <2>1, Zenon DEF Recorded, Early, Sent
<1>18. Stream(r)'
  <2>1. job'[r].got = IF o THEN Cap ELSE job'[r].upstream
    BY <1>5, <1>8, <1>12, <1>13, Zenon
  <2>2. job'[r].marker = o /\ ("cap" \in controls /\ job'[r].upstream > Cap <=> o)
    BY <1>11, <1>12, <1>13, Zenon
  <2>3. controls' = controls
    BY <1>1, Zenon
  <2>4. CASE o = TRUE
    BY <2>1, <2>2, <2>3, <2>4, Zenon DEF Stream
  <2>5. CASE o = FALSE
    BY <2>1, <2>2, <2>3, <2>5, Zenon DEF Stream
  <2>6. QED
    BY Zenon, <2>4, <2>5
<1>19. Handler(pc'[r], plan'[r], job'[r])
  BY <1>1, <1>12, <1>13, Zenon DEF Handler, Early, Sent
<1>20. After(r)
  BY <1>17, <1>18, <1>19, Zenon DEF After
<1>21. PICK u : u = [event |-> <<r, "truncated">>, at |-> "row"]
  BY Zenon
<1>22. u \in Task /\ u.event = <<r, "truncated">> /\ u.at = "row" /\ "truncated" \in Decision
  BY Zenon, <1>21, Events DEF Task, Decision
<1>23. spawned' \subseteq spawned \cup {u} /\ (spawned' # spawned => o)
  BY <1>7, <1>8, <1>21, Zenon DEF Spawn
<1>24. Tasks'
  <2>1. SUFFICES ASSUME NEW t \in spawned' PROVE TaskOK(t)'
    BY Zenon DEF Tasks
  <2>2. CASE t \in spawned
    <3>1. TaskOK(t) /\ t.event \in Event
      BY <1>1, <2>2, Zenon DEF IInv, Tasks, Task
    <3>2. t.event[1] \in Req /\ t.event[1] # r
      BY <1>1, <3>1, EventAssumption, Zenon DEF TaskOK
    <3>3. pc'[t.event[1]] = pc[t.event[1]] /\ job'[t.event[1]] = job[t.event[1]]
      BY <1>1, <1>13, <3>2, Zenon
    <3>4. t.event \notin {}
      BY Zenon
    <3>5. QED
      BY <1>15, <2>2, <3>3, <3>4, TaskStays, Zenon
  <2>3. CASE t \notin spawned
    <3>1. t = u /\ o
      BY <1>23, <2>1, <2>3, Zenon
    <3>2. t.event[1] = r /\ t.event[2] = "truncated" /\ t.at = "row"
      BY <1>22, <3>1
    <3>3. fate'[t.event] = "none"
      BY <1>16, <1>22, <3>1, Zenon
    <3>4. pc'[r] = "stream" /\ job'[r].marker
      BY Zenon, <1>1, <1>12, <1>13, <3>1
    <3>5. QED
      BY <3>2, <3>3, <3>4, Zenon DEF TaskOK
  <2>4. QED
    BY <2>2, <2>3, Zenon
<1>25. LogTypeOK' /\ spawned' \subseteq Task /\ pool' \in Setting \cup {None}
  BY <1>1, <1>22, <1>23, Types, Zenon DEF LogTypeOK, logVars, Slots
<1>26. QED
  BY <1>1, <1>14, <1>15, <1>20, <1>24, <1>25, MoveKeeps, Zenon

\* The body ends.
LEMMA EndStreamKeeps ==
    ASSUME IInv, NEW r \in Req, EndStream(r)
    PROVE  IInv'
<1>1. /\ pc[r] = "stream" /\ Goto(r, "relayed") /\ job' = [job EXCEPT ![r] = NoJob]
      /\ UNCHANGED <<trailVars, logVars, wired, controls, pool, spawned, restarts, plan>>
      /\ pc \in [Req -> PC] /\ plan \in [Req -> Plan] /\ job \in [Req -> Job]
      /\ Trail /\ Handler(pc[r], plan[r], job[r]) /\ Recorded(r)
  BY Types, Zenon DEF EndStream, shared, IInv, Handlers, Records
<1>2. /\ pc' \in [Req -> PC] /\ pc'[r] = "relayed" /\ job' \in [Req -> Job] /\ job'[r] = NoJob
      /\ \A q \in Req \ {r} : pc'[q] = pc[q] /\ job'[q] = job[q]
  BY <1>1, NoJobIs, Zenon DEF Goto, PC, Outcome
<1>3. Only(r) /\ Effect({}) /\ fate' = fate
  BY <1>1, <1>2, NoEffect, Zenon DEF Only, trailVars
<1>4. Recorded(r)'
  <2>1. Given(r)' = Given(r)
    BY <1>3, Zenon DEF Given
  <2>2. Verdicts["stream"] = Verdicts["relayed"] /\ "stream" \in DOMAIN Verdicts
    BY Zenon DEF Verdicts
  <2>3. QED
    BY <1>1, <1>2, <2>1, <2>2, Zenon DEF Recorded, Early, Sent
<1>5. After(r)
  BY <1>1, <1>2, <1>4, NoJobIs, Zenon DEF After, Stream, Handler, Early, Sent
<1>6. Tasks'
  <2>1. SUFFICES ASSUME NEW t \in spawned PROVE TaskOK(t)'
    BY <1>1, Zenon DEF Tasks
  <2>2. TaskOK(t) /\ t.event \in Event
    BY Types, Zenon DEF IInv, Tasks, Task
  <2>3. t.event[1] \in Req
    BY <2>2, EventAssumption, Zenon
  <2>4. QED
    BY <1>1, <1>2, <1>3, <2>2, <2>3, Zenon DEF TaskOK
<1>7. LogTypeOK' /\ spawned' \subseteq Task /\ pool' \in Setting \cup {None}
  BY <1>1, Types, Zenon DEF LogTypeOK, logVars, Slots
<1>8. QED
  BY <1>1, <1>3, <1>5, <1>6, <1>7, MoveKeeps, Zenon

\* handle_upstream_response, and the rows.
LEMMA RespondKeeps ==
    ASSUME IInv, NEW r \in Req, Respond(r)
    PROVE  IInv'
<1>1. /\ job \in [Req -> Job] /\ plan \in [Req -> Plan] /\ pool \in Setting \cup {None}
      /\ Handler(pc[r], plan[r], job[r])
  BY Types, Zenon DEF IInv, Handlers
<1>2. CASE NoResponse(r)
  BY Zenon, <1>2, PlansSettle, ConcludeKeeps DEF NoResponse, Sent
<1>3. CASE Disallowed(r)
  BY Zenon, <1>3, PlansSettle, ConcludeKeeps DEF Disallowed, Sent
<1>4. CASE Buffer(r)
  <2>1. /\ pc[r] = "response" /\ Goto(r, "buffer") /\ {"response", "buffer"} \subseteq Sent
        /\ UNCHANGED <<trailVars, logVars, wired, controls, pool, spawned, restarts, plan, job>>
    BY <1>4, Zenon DEF Buffer, shared, Sent
  <2>2. Handler("buffer", NoPlan, job[r])
    BY <1>1, <2>1, Zenon DEF Handler, Early, Sent
  <2>3. QED
    BY <1>1, <2>1, <2>2, EarlyKeeps, Zenon
<1>5. ASSUME NEW d \in Passed, StartStream(r, d)
      PROVE  IInv'
  BY Zenon, <1>5, PlansSettle, ConcludeKeeps DEF StartStream, Sent
<1>6. CASE BufferFails(r)
  BY Zenon, <1>6, PlansSettle, ConcludeKeeps DEF BufferFails, Sent
<1>7. CASE TooLarge(r)
  BY Zenon, <1>7, PlansSettle, ConcludeKeeps DEF TooLarge, Sent
<1>8. ASSUME NEW rows \in PassedRows, Buffered(r, rows)
      PROVE  IInv'
  BY Zenon, <1>8, PlansSettle, ConcludeKeeps DEF Buffered, Sent
<1>9. QED
  BY <1>2, <1>3, <1>4, <1>5, <1>6, <1>7, <1>8, WriteRowKeeps, MirrorKeeps, ChunkKeeps,
    Zenon,
     EndStreamKeeps DEF Respond

-----------------------------------------------------------------------------
(***************************************************************************)
(* Detached tasks, hang-ups, restarts and the background.                  *)
(***************************************************************************)

\* A task of request r records its event: the handler has answered already.
LEMMA TaskKeeps ==
    ASSUME IInv, NEW t \in spawned, Effect({t.event}),
           NEW T, T = {} \/ (T = {[t EXCEPT !.at = "mirror"]} /\ fate'[t.event] = "inserted"),
           spawned' = (spawned \ {t}) \cup T,
           UNCHANGED <<logVars, wired, controls, pool, restarts, pc, plan, job>>
    PROVE  IInv'
<1>1. /\ t \in Task /\ spawned \subseteq Task /\ TaskOK(t) /\ t.event \in Event
      /\ pc \in [Req -> PC] /\ plan \in [Req -> Plan] /\ job \in [Req -> Job]
  BY Types, Zenon DEF IInv, Tasks, Task
<1>2. PICK r \in Req, d \in Decision : t.event = <<r, d>>
  BY <1>1, EventAssumption
<1>3. Handler(pc[r], plan[r], job[r]) /\ Recorded(r) /\ Stream(r)
  BY Zenon DEF IInv, Handlers, Records, Streams
<1>4. Only(r) /\ {t.event} \in SUBSET ({r} \X Decision)
  BY <1>1, <1>2 DEF Only
<1>5. /\ d = "denied" => pc[r] = "rejected"
      /\ d = "truncated" => pc[r] \in {"stream", "relayed"} /\ (pc[r] = "stream" => job[r].marker)
      /\ d \in {"denied", "truncated"}
  BY <1>1, <1>2 DEF TaskOK
<1>6. \A x \in Decision : x # d => (fate'[<<r, x>>] = "none" <=> fate[<<r, x>>] = "none")
  <2>1. \A x \in Decision : <<r, x>> \in Event
    BY Events, Zenon
  <2>2. QED
    BY <1>2, <2>1 DEF Effect
<1>7. Recorded(r)'
  <2>1. CASE d = "denied"
    <3>1. "truncated" \in Decision /\ "truncated" # d
      BY <2>1, Zenon DEF Decision
    <3>2. fate'[<<r, "truncated">>] = "none"
      BY <1>3, <1>5, <1>6, <2>1, <3>1, Zenon DEF Recorded
    <3>3. QED
      BY <1>5, <2>1, <3>2, Zenon DEF Recorded, Early, Sent, Verdicts
  <2>2. CASE d = "truncated"
    <3>1. Given(r)' = Given(r)
      BY <1>6, <2>2, Zenon DEF Given, Verdict, Decision
    <3>2. QED
      BY <1>3, <1>5, <2>2, <3>1, Zenon DEF Recorded, Early, Sent
  <2>3. QED
    BY <1>5, <2>1, <2>2, Zenon
<1>8. After(r)
  BY <1>3, <1>7, Zenon DEF After, Stream
<1>9. T \subseteq Task
  BY <1>1 DEF Task
<1>10. Tasks'
  <2>1. SUFFICES ASSUME NEW u \in spawned' PROVE TaskOK(u)'
    BY Zenon DEF Tasks
  <2>2. CASE u \in spawned \ {t}
    <3>1. u \in Task /\ TaskOK(u)
      BY <1>1, <2>2, Zenon DEF IInv, Tasks
    <3>2. u.event # t.event
      <4>1. SUFFICES ASSUME u.event = t.event PROVE u = t
        BY <2>2, Zenon
      <4>2. u.at = t.at
        BY <1>1, <3>1, <4>1, Zenon DEF TaskOK, Task
      <4>3. QED
        BY <1>1, <3>1, <4>1, <4>2 DEF Task
    <3>3. QED
      BY <2>2, <3>2, TaskStays, Zenon
  <2>3. CASE u \in T
    <3>1. u.event = t.event /\ u.at = "mirror" /\ fate'[t.event] = "inserted"
      BY <1>1, <2>3, Zenon DEF Task
    <3>2. QED
      BY <1>1, <3>1, Zenon DEF TaskOK
  <2>4. QED
    BY <2>2, <2>3, Zenon
<1>11. LogTypeOK' /\ spawned' \subseteq Task /\ pool' \in Setting \cup {None}
  BY <1>1, <1>9, Types, Zenon DEF LogTypeOK, logVars, Slots
<1>12. QED
  BY <1>4, <1>8, <1>10, <1>11, MoveKeeps, Zenon

\* The INSERT of a detached task.
LEMMA TaskRowKeeps ==
    ASSUME IInv, NEW t \in spawned, TaskRow(t)
    PROVE  IInv'
<1>1. /\ t \in Task /\ t.event \in Event /\ t.at = "row" /\ fate[t.event] = "none" /\ Trail
      /\ UNCHANGED <<logVars, wired, controls, pool, restarts, pc, plan, job>>
  BY Types, Zenon DEF TaskRow, IInv, Tasks, TaskOK, Task
<1>2. CASE InsertRow(t.event) /\ spawned' = (spawned \ {t}) \cup {[t EXCEPT !.at = "mirror"]}
  <2>1. Effect({t.event}) /\ fate'[t.event] = "inserted"
    BY <1>1, <1>2, InsertDoes, Zenon
  <2>2. QED
    BY Zenon, <1>1, <1>2, <2>1, TaskKeeps
<1>3. CASE InsertFails(t.event) /\ spawned' = spawned \ {t}
  <2>1. Effect({t.event})
    BY <1>1, <1>3, FailDoes, Zenon
  <2>2. PICK T : T = {}
    BY Zenon
  <2>3. spawned' = (spawned \ {t}) \cup T
    BY <1>3, <2>2, Zenon
  <2>4. QED
    BY <1>1, <2>1, <2>2, <2>3, TaskKeeps, Zenon
<1>4. QED
  BY <1>2, <1>3, Zenon DEF TaskRow

\* The line of a detached task.
LEMMA TaskMirrorKeeps ==
    ASSUME IInv, NEW t \in spawned, TaskMirror(t)
    PROVE  IInv'
<1>1. /\ t \in Task /\ t.event \in Event /\ fate[t.event] = "inserted" /\ Trail
      /\ UNCHANGED <<logVars, wired, controls, pool, restarts, pc, plan, job>>
      /\ spawned' = spawned \ {t}
  BY Types, Zenon DEF TaskMirror, IInv, Tasks, TaskOK, Task
<1>2. PICK fails \in Failures : MirrorRow(t.event, fails)
  BY Zenon DEF TaskMirror
<1>3. Effect({t.event})
  BY <1>1, <1>2, MirrorDoes, Zenon
<1>4. PICK T : T = {}
  BY Zenon
<1>5. spawned' = (spawned \ {t}) \cup T
  BY <1>1, <1>4, Zenon
<1>6. QED
  BY <1>1, <1>3, <1>4, <1>5, TaskKeeps, Zenon

\* A plan whose handler is gone is a plan, and keeps its outcome.
LEMMA AbandonedType ==
    ASSUME NEW p \in Plan
    PROVE  /\ Abandoned(p) \in Plan /\ Abandoned(p).end = p.end
           /\ ~Abandoned(p).log /\ Abandoned(p).rows = <<>>
<1>1. <<>> \in Seq(Decision)
  OBVIOUS
<1>2. QED
  BY Zenon, <1>1 DEF Abandoned, Plan

\* A handler is dropped where it awaits.
LEMMA HangUpKeeps ==
    ASSUME IInv, NEW r \in Req, HangUp(r)
    PROVE  IInv'
<1>1. /\ pc[r] \in Awaiting /\ Goto(r, "gone") /\ job' = [job EXCEPT ![r] = NoJob]
      /\ plan' = [plan EXCEPT ![r] = Abandoned(plan[r])]
      /\ UNCHANGED <<trailVars, logVars, wired, controls, pool, spawned, restarts>>
      /\ pc \in [Req -> PC] /\ plan \in [Req -> Plan] /\ job \in [Req -> Job]
      /\ Trail /\ Recorded(r)
  BY Types, Zenon DEF HangUp, shared, IInv, Records
<1>2. Abandoned(plan[r]) \in Plan
  BY <1>1, AbandonedType, Zenon
<1>3. /\ pc' \in [Req -> PC] /\ pc'[r] = "gone" /\ job' \in [Req -> Job] /\ job'[r] = NoJob
      /\ plan' \in [Req -> Plan]
      /\ \A q \in Req \ {r} : pc'[q] = pc[q] /\ job'[q] = job[q] /\ plan'[q] = plan[q]
  BY <1>1, <1>2, NoJobIs, Zenon DEF Goto, PC, Outcome
<1>4. Only(r) /\ Effect({}) /\ fate' = fate
  BY <1>1, <1>3, NoEffect, Zenon DEF Only, trailVars
<1>5. Recorded(r)'
  BY <1>1, <1>3, <1>4, Zenon DEF Recorded, Early, Sent, Verdicts, Awaiting
<1>6. After(r)
  BY <1>3, <1>5, NoJobIs, Zenon DEF After, Stream, Handler, Early, Sent
<1>7. Tasks'
  <2>1. pc[r] \notin {"rejected", "stream", "relayed"}
    BY <1>1, Zenon DEF Awaiting
  <2>2. QED
    BY <1>1, <1>4, <2>1, TasksStay, Zenon
<1>8. LogTypeOK' /\ spawned' \subseteq Task /\ pool' \in Setting \cup {None}
  BY <1>1, Types, Zenon DEF LogTypeOK, logVars, Slots
<1>9. QED
  BY <1>1, <1>4, <1>6, <1>7, <1>8, MoveKeeps, Zenon

\* The daemon stops and starts again.
LEMMA RestartKeeps ==
    ASSUME IInv, Restart
    PROVE  IInv'
<1>1. /\ pc \in [Req -> PC] /\ plan \in [Req -> Plan] /\ job \in [Req -> Job]
      /\ Trail /\ LogTypeOK /\ restarts \in 0..MaxRestarts
      /\ wired' = wired /\ controls' = controls /\ spawned' = {} /\ pool' = None
      /\ restarts' = restarts + 1 /\ restarts < MaxRestarts
      /\ wired \in BOOLEAN /\ controls \in ControlSets
  BY Types, Zenon DEF Restart
<1>2. Effect({}) /\ fate' = fate
  BY <1>1, ReopenDoes, Zenon DEF Restart
<1>3. ASSUME NEW q \in Req
      PROVE  /\ pc'[q] \in PC /\ plan'[q] \in Plan /\ job'[q] = NoJob
             /\ pc[q] \in Handling => pc'[q] = "gone"
             /\ pc[q] \notin Handling =>
                  /\ pc'[q] = IF pc[q] = "stream" THEN "relayed" ELSE pc[q]
                  /\ plan'[q] = plan[q]
  <2>1. plan[q] \in Plan /\ pc[q] \in PC
    BY <1>1, Zenon
  <2>2. Abandoned(plan[q]) \in Plan
    BY <2>1, AbandonedType, Zenon
  <2>3. /\ pc'[q] = IF pc[q] \in Handling THEN "gone"
                    ELSE IF pc[q] = "stream" THEN "relayed" ELSE pc[q]
        /\ plan'[q] = IF pc[q] \in Handling THEN Abandoned(plan[q]) ELSE plan[q]
        /\ job'[q] = NoJob
    BY Zenon DEF Restart
  <2>4. "gone" \in PC /\ "relayed" \in PC
    BY Zenon DEF PC, Outcome
  <2>5. QED
    BY <2>1, <2>2, <2>3, <2>4, Zenon
<1>4. pc' \in [Req -> PC] /\ plan' \in [Req -> Plan] /\ job' \in [Req -> Job]
  <2>1. /\ pc' = [q \in Req |-> pc'[q]] /\ plan' = [q \in Req |-> plan'[q]]
        /\ job' = [q \in Req |-> job'[q]]
    BY Zenon DEF Restart
  <2>2. QED
    BY <1>3, <2>1, NoJobIs, Zenon
<1>5. LogTypeOK'
  <2>1. /\ missed' = missed \cup {channel[i] : i \in DOMAIN channel} \cup ({taken} \ {Nobody})
        /\ channel' = <<>> /\ taken' = Nobody /\ logged' = logged /\ dropped' = dropped
    BY Zenon DEF Restart, LoseChannel
  <2>2. \A i \in DOMAIN channel : channel[i] \in Record
    BY <1>1 DEF LogTypeOK
  <2>3. missed' \subseteq Record
    BY <1>1, <2>1, <2>2, Zenon DEF LogTypeOK
  <2>4. channel' \in Seq(Record) /\ Len(channel') <= Slots
    BY <2>1, LogAssumption DEF Slots
  <2>5. QED
    BY <1>1, <2>1, <2>3, <2>4, Zenon DEF LogTypeOK
<1>6. TypeOK'
  <2>1. restarts' \in 0..MaxRestarts /\ pool' \in Setting \cup {None}
    BY <1>1, ProxyAssumption
  <2>2. QED
    BY <1>1, <1>2, <1>4, <1>5, <2>1, Zenon DEF TypeOK, Effect, Trail
<1>7. ASSUME NEW q \in Req PROVE After(q)
  <2>1. Handler(pc[q], plan[q], job[q]) /\ Recorded(q)
    BY Zenon DEF IInv, Handlers, Records
  <2>2. pc'[q] \notin {"stream", "row", "mirror"} /\ (pc'[q] \in Early \cup Sent => pc'[q] = "idle")
    BY <1>1, <1>3, Zenon DEF PC, Handling, Awaiting, Outcome, Early, Sent
  <2>3. Stream(q)'
    BY <2>2, Zenon DEF Stream
  <2>4. Handler(pc'[q], plan'[q], job'[q])
    <3>1. CASE pc[q] \in Handling
      BY <1>3, <3>1, NoJobIs, Zenon DEF Handler, Early, Sent
    <3>2. CASE pc[q] \notin Handling
      BY <1>3, <2>1, <2>2, <3>2, NoJobIs, Zenon DEF Handler, Early, Sent
    <3>3. QED
      BY <3>1, <3>2, Zenon
  <2>5. Recorded(q)'
    <3>1. Given(q)' = Given(q)
      BY <1>2, Zenon DEF Given
    <3>2. CASE pc[q] \in Handling
      <4>1. fate[<<q, "truncated">>] = "none"
        BY <2>1, <3>2, Zenon DEF Recorded, Handling, Awaiting
      <4>2. QED
        BY <1>2, <1>3, <3>2, <4>1, Zenon DEF Recorded, Early, Sent, Verdicts
    <3>3. CASE pc[q] = "stream"
      <4>1. Verdicts["stream"] = Verdicts["relayed"] /\ "stream" \in DOMAIN Verdicts
        BY Zenon DEF Verdicts
      <4>2. pc'[q] = "relayed"
        BY <1>3, <3>3, Zenon DEF Handling, Awaiting
      <4>3. QED
        BY <1>1, <1>2, <2>1, <3>1, <3>3, <4>1, <4>2, Zenon DEF Recorded, Early, Sent
    <3>4. CASE pc[q] \notin Handling /\ pc[q] # "stream"
      <4>1. pc'[q] = pc[q]
        BY <1>3, <3>4, Zenon
      <4>2. QED
        BY <1>1, <1>2, <2>1, <2>2, <3>1, <3>4, <4>1, Zenon DEF Recorded
    <3>5. QED
      BY <3>2, <3>3, <3>4, Zenon
  <2>6. QED
    BY <2>3, <2>4, <2>5, Zenon DEF After
<1>8. Handlers' /\ Records' /\ Streams'
  BY <1>7, Zenon DEF After, Handlers, Records, Streams
<1>9. Tasks'
  BY <1>1, Zenon DEF Tasks
<1>10. QED
  BY <1>2, <1>6, <1>8, <1>9, Zenon DEF IInv, Effect, Trail

\* A step of the sweeper, the calendar or the log concerns no request.
LEMMA QuietKeeps ==
    ASSUME IInv, Effect({}), LogTypeOK',
           UNCHANGED <<wired, controls, pool, spawned, restarts, pc, plan, job>>
    PROVE  IInv'
<1>1. TypeOK'
  BY Types, Zenon DEF TypeOK, Effect, Trail
<1>2. \A q \in Req : After(q)
  <2>1. TAKE q \in Req
  <2>2. PICK E : E = {}
    BY Zenon
  <2>3. Effect(E) /\ \A d \in Decision : <<q, d>> \notin E
    BY <2>2, Zenon
  <2>4. QED
    BY <2>3, RequestStays, Zenon
<1>3. Handlers' /\ Records' /\ Streams'
  BY <1>2, Zenon DEF After, Handlers, Records, Streams
<1>4. Tasks'
  <2>1. SUFFICES ASSUME NEW t \in spawned PROVE TaskOK(t)'
    BY Zenon DEF Tasks
  <2>2. PICK E : E = {}
    BY Zenon
  <2>3. Effect(E) /\ t.event \notin E
    BY <2>2, Zenon
  <2>4. QED
    BY <2>3, TaskStays, Zenon
<1>5. QED
  BY <1>1, <1>3, <1>4, Zenon DEF IInv, Effect, Trail

\* The drain task, the sweeper and the calendar.
LEMMA BackgroundKeeps ==
    ASSUME IInv, Background
    PROVE  IInv'
<1>1. Trail /\ LogTypeOK
  BY Types, Zenon
<1>2. CASE /\ SweepRows \/ NextDay
           /\ UNCHANGED <<logVars, wired, controls, pool, spawned, restarts, pc, plan, job>>
  <2>1. Effect({})
    BY <1>1, <1>2, SweepDoes, NextDayDoes, Zenon
  <2>2. LogTypeOK'
    BY <1>1, <1>2, Zenon DEF LogTypeOK, logVars, Slots
  <2>3. QED
    BY <1>2, <2>1, <2>2, QuietKeeps, Zenon
<1>3. ASSUME Take \/ \E ok \in BOOLEAN : Store(ok),
             UNCHANGED <<trailVars, wired, controls, pool, spawned, restarts, pc, plan, job>>
      PROVE  IInv'
  <2>1. Effect({})
    BY <1>1, <1>3, NoEffect, Zenon
  <2>2. CASE Take
    <3>1. channel \in Seq(Record) /\ channel # <<>> /\ Len(channel) <= Slots /\ Slots \in Nat
      BY <1>1, <2>2, LogAssumption, Zenon DEF LogTypeOK, Take, Slots
    <3>2. /\ Head(channel) \in Record /\ Tail(channel) \in Seq(Record)
          /\ Len(Tail(channel)) <= Slots
      BY <3>1
    <3>3. LogTypeOK'
      BY <1>1, <2>2, <3>2, Zenon DEF LogTypeOK, Take, Slots
    <3>4. QED
      BY <1>3, <2>1, <3>3, QuietKeeps, Zenon
  <2>3. ASSUME NEW ok \in BOOLEAN, Store(ok)
        PROVE  IInv'
    <3>1. taken \in Record
      BY <1>1, <2>3, Zenon DEF LogTypeOK, Store
    <3>2. Append(logged, taken) \in Seq(Record)
      BY <1>1, <3>1 DEF LogTypeOK
    <3>3. LogTypeOK'
      BY Zenon, <1>1, <2>3, <3>1, <3>2 DEF LogTypeOK, Store, Slots
    <3>4. QED
      BY <1>3, <2>1, <3>3, QuietKeeps, Zenon
  <2>4. QED
    BY <1>3, <2>2, <2>3, Zenon
<1>4. QED
  BY <1>2, <1>3, Zenon DEF Background

-----------------------------------------------------------------------------

\* The first states: no request, no row, one empty file of the journal.
LEMMA InitInv ==
    ASSUME Init
    PROVE  IInv
<1>1. /\ today = 0 /\ table = {} /\ sink = OpenSink(<<>>) /\ fate = [e \in Event |-> "none"]
      /\ pc = [r \in Req |-> "idle"] /\ plan = [r \in Req |-> NoPlan]
      /\ job = [r \in Req |-> NoJob] /\ spawned = {}
  BY Zenon DEF Init, TrailInit
<1>2. today \in 0..MaxDay /\ <<>> \in Seq(File)
  BY <1>1, TrailAssumption
<1>3. /\ sink \in Sink
      /\ \A x : x \in Lines(OpenSink(<<>>)) <=> \E i \in 1..Len(<<>>) : x \in <<>>[i].lines
  BY Zenon, <1>1, <1>2, OpenSinkDoes
<1>4. Lines(sink) = {}
  BY <1>1, <1>3
<1>5. TrailTypeOK
  BY <1>1, <1>2, <1>3, Zenon DEF TrailTypeOK, Fates
<1>6. LogTypeOK
  <2>1. <<>> \in Seq(Record) /\ Len(<<>>) <= Slots
    BY LogAssumption DEF Slots
  <2>2. QED
    BY <2>1, Zenon DEF Init, LogInit, LogTypeOK
<1>7. NoPlan \in Plan /\ "idle" \in PC
  BY DEF NoPlan, Plan, PC
<1>8. TypeOK
  <2>1. restarts \in 0..MaxRestarts
    BY ProxyAssumption DEF Init
  <2>2. pc \in [Req -> PC] /\ plan \in [Req -> Plan] /\ job \in [Req -> Job]
    BY <1>1, <1>7, NoJobIs, Zenon
  <2>3. QED
    BY <1>1, <1>5, <1>6, <2>1, <2>2, Zenon DEF Init, TypeOK
<1>9. Table /\ Lined
  BY <1>1, <1>4, Zenon DEF Table, Lined
<1>10. \A r \in Req : pc[r] = "idle" /\ plan[r] = NoPlan /\ job[r] = NoJob
  BY <1>1, Zenon
<1>11. Handlers
  BY <1>10, NoJobIs, Zenon DEF Handlers, Handler, Early, Sent
<1>12. Records
  <2>1. \A r \in Req, d \in Decision : fate[<<r, d>>] = "none"
    BY Zenon, <1>1, Events
  <2>2. "truncated" \in Decision
    BY Zenon DEF Decision
  <2>3. QED
    BY <1>10, <2>1, <2>2, Zenon DEF Records, Recorded, Verdicts
<1>13. Streams /\ Tasks
  BY <1>1, <1>10, Zenon DEF Streams, Stream, Tasks
<1>14. QED
  BY <1>8, <1>9, <1>11, <1>12, <1>13, Zenon DEF IInv

\* Every step keeps the invariant.
LEMMA StepInv ==
    ASSUME IInv, [Next]_vars
    PROVE  IInv'
<1>1. CASE UNCHANGED vars
  <2>1. UNCHANGED <<trailVars, logVars, wired, controls, pool, spawned, restarts, pc, plan, job>>
    BY <1>1, Zenon DEF vars, shared
  <2>2. Effect({}) /\ LogTypeOK'
    BY <2>1, Types, NoEffect, Zenon DEF LogTypeOK, logVars, Slots
  <2>3. QED
    BY <2>1, <2>2, QuietKeeps, Zenon
<1>2. CASE Next
  BY <1>2, HandleKeeps, RespondKeeps, HangUpKeeps, TaskRowKeeps, TaskMirrorKeeps,
     BackgroundKeeps, RestartKeeps, Zenon DEF Next
<1>3. QED
  BY <1>1, <1>2, Zenon

\* The inductive invariant: handlers, rows, tasks, streams, table and journal of
\* proxy_handler fit together, whatever fails and whoever hangs up.
THEOREM Invariant == Spec => []IInv
<1>1. Init => IInv
  BY InitInv, Zenon
<1>2. IInv /\ [Next]_vars => IInv'
  BY StepInv, Zenon
<1>3. QED
  BY <1>1, <1>2, PTL DEF Spec

\* build_upstream_request never passes on the agent's own credential, never goes
\* without the account's, and uses a client built for the request (WireIsOurs).
THEOREM WireStaysOurs == Spec => []WireIsOurs
<1>1. ASSUME IInv PROVE WireIsOurs
  <2>1. \A r \in Req : Handler(pc[r], plan[r], job[r])
    BY <1>1, Zenon DEF IInv, Handlers
  <2>2. \A r \in Req : job[r].wire # None => Ours(job[r])
    BY <2>1, Zenon DEF Handler
  <2>3. QED
    BY <1>1, <2>2, Zenon DEF IInv, WireIsOurs, Ours
<1>2. QED
  BY <1>1, Invariant, PTL

\* SizeCappedStream passes on every byte up to the cap and none past it, with the
\* marker exactly if there was more (StreamIsCapped), for every size of chunk.
THEOREM StreamStaysCapped == Spec => []StreamIsCapped
<1>1. ASSUME IInv PROVE StreamIsCapped
  <2>1. ASSUME NEW r \in Req, pc[r] = "stream"
        PROVE  /\ job[r].got = IF "cap" \in controls /\ job[r].upstream > Cap
                               THEN Cap ELSE job[r].upstream
               /\ job[r].marker = ("cap" \in controls /\ job[r].upstream > Cap)
               /\ fate[<<r, "truncated">>] # "none" => job[r].marker
    BY <1>1, <2>1, Zenon DEF IInv, Streams, Stream, Records, Recorded
  <2>2. QED
    BY <2>1, Zenon DEF StreamIsCapped
<1>2. QED
  BY <1>1, Invariant, PTL

\* audit_record: an answered request has exactly one verdict row, of its outcome, and
\* the sweeper takes no row before its time (AnswersAreAudited).
THEOREM AnswersStayAudited == Spec => []AnswersAreAudited
<1>1. ASSUME IInv PROVE AnswersAreAudited
  BY <1>1, Zenon DEF IInv, Records, Recorded, Given, Verdict, Table, AnswersAreAudited
<1>2. QED
  BY <1>1, Invariant, PTL
=============================================================================
