----------------------------- MODULE AuditTrail -----------------------------
(***************************************************************************)
(* Where audit events go: the table audit, which a sweeper prunes by age,  *)
(* and the JSONL journal that mirrors it, which rotates by day and by      *)
(* size and keeps a bounded number of files.  An append holds the sink's   *)
(* mutex throughout and awaits nothing after it has it: it is one step.    *)
(*                                                                         *)
(* A file is its name (the day and an overflow index), its size and the    *)
(* events in it; `files' lists the newest write last, the order of         *)
(* modification times.  `fate' is not kept by the code.                    *)
(***************************************************************************)
EXTENDS Integers, Sequences, Functions

CONSTANTS Event,        \* audit events
          LineSize,     \* LineSize[e]: bytes of the line of event e
          MaxBytes,     \* max_bytes
          KeepFiles,    \* keep_files
          MaxIndex,     \* the last overflow index of a day
          Retention,    \* days rows are kept
          MaxDay,       \* bound: the calendar ends here
          None

ASSUME TrailAssumption ==
    /\ LineSize \in [Event -> Nat \ {0}]
    /\ MaxBytes \in Nat /\ KeepFiles \in Nat /\ MaxIndex \in Nat
    /\ Retention \in Nat /\ MaxDay \in Nat
    /\ None \notin Event

VARIABLES today,        \* the UTC day
          table,        \* rows of audit
          sink,         \* SinkState and the directory
          fate          \* fate[e]: what became of event e

trailVars == <<today, table, sink, fate>>

FileName == (0..MaxDay) \X (0..MaxIndex)

File == [name : FileName, size : Nat, lines : SUBSET Event]

Sink == [file : FileName \cup {None}, written : Nat, day : 0..MaxDay,
         files : Seq(File)]

Row == [event : Event, day : 0..MaxDay]

\* "inserted": there is no line, or no longer; "lined": there is one; "lost": it was
\* written to a file that no longer exists.
Fates == {"none", "failed", "inserted", "lined", "lost"}

-----------------------------------------------------------------------------
(***************************************************************************)
(* The journal.                                                            *)
(***************************************************************************)

Names(fs) == {fs[i].name : i \in DOMAIN fs}

Named(fs, nm) == CHOOSE f \in Range(fs) : f.name = nm

\* OpenOptions: create, append.  Opening an old file does not touch it.
Open(fs, nm) ==
    IF nm \in Names(fs) THEN fs
    ELSE Append(fs, [name |-> nm, size |-> 0, lines |-> {}])

\* The file is written to and becomes the newest; one that was removed while open
\* takes the line with it.
Write(fs, nm, e) ==
    IF nm \notin Names(fs) THEN fs ELSE
    LET k == CHOOSE i \in DOMAIN fs : fs[i].name = nm IN
    [i \in 1..Len(fs) |->
        IF i = Len(fs) THEN [name |-> nm, size |-> fs[k].size + LineSize[e],
                             lines |-> fs[k].lines \cup {e}]
        ELSE IF i < k THEN fs[i] ELSE fs[i + 1]]

\* i is the first index of the day whose name is free.
FirstFree(fs, d, i) ==
    <<d, i>> \notin Names(fs) /\ \A k \in 0..(i - 1) : <<d, k>> \in Names(fs)

\* next_target: the first free name of the day, or the plain one.
NextTarget(fs, d) ==
    <<d, IF \E i \in 0..MaxIndex : FirstFree(fs, d, i)
         THEN CHOOSE i \in 0..MaxIndex : FirstFree(fs, d, i)
         ELSE 0>>

\* Mutant: the newest files go.
PruneNewest(fs) ==
    IF KeepFiles = 0 \/ Len(fs) <= KeepFiles THEN fs ELSE SubSeq(fs, 1, KeepFiles)

\* prune_oldest
PruneOldest(fs) ==
    IF KeepFiles = 0 \/ Len(fs) <= KeepFiles THEN fs
    ELSE SubSeq(fs, Len(fs) - KeepFiles + 1, Len(fs))

\* rotate_to; ok: the new file can be opened.
RotateTo(s, d, ok) ==
    LET nm == NextTarget(s.files, d)
        fs == IF ok THEN Open(s.files, nm) ELSE s.files IN
    [file    |-> IF ok THEN nm ELSE None,
     written |-> IF ok THEN Named(fs, nm).size ELSE 0,
     day     |-> d,
     files   |-> PruneOldest(fs)]

\* The cap would be crossed, and the file is not empty.
Full(s, e) == s.written + LineSize[e] > MaxBytes /\ s.written > 0

\* append; fails: "open", "write" or "nothing"
AppendLine(s, e, fails) ==
    LET ok   == fails # "open"
        day  == IF s.day # today THEN RotateTo(s, today, ok) ELSE s
        room == IF Full(day, e) THEN RotateTo(day, today, ok) ELSE day IN
    IF room.file = None THEN room
    ELSE IF fails = "write" THEN [room EXCEPT !.file = None]
    ELSE [room EXCEPT !.written = @ + LineSize[e],
                      !.files = Write(@, room.file, e)]

Lines(s) == UNION {f.lines : f \in Range(s.files)}

\* JsonlSink::new
OpenSink(fs) ==
    LET nm == <<today, 0>> IN
    [file    |-> nm,
     written |-> Named(Open(fs, nm), nm).size,
     day     |-> today,
     files   |-> Open(fs, nm)]

-----------------------------------------------------------------------------
(***************************************************************************)
(* AuditRepository::record, and what else changes the trail.               *)
(***************************************************************************)

TrailInit ==
    /\ today = 0
    /\ table = {}
    /\ sink = OpenSink(<<>>)
    /\ fate = [e \in Event |-> "none"]

\* The INSERT, of an event made a moment before
InsertRow(e) ==
    /\ table' = table \cup {[event |-> e, day |-> today]}
    /\ fate' = [fate EXCEPT ![e] = "inserted"]
    /\ UNCHANGED <<today, sink>>

InsertFails(e) ==
    /\ fate' = [fate EXCEPT ![e] = "failed"]
    /\ UNCHANGED <<today, table, sink>>

\* The line of an inserted row
MirrorRow(e, fails) ==
    LET s == AppendLine(sink, e, fails) IN
    /\ sink' = s
    /\ fate' = [x \in Event |->
                  IF x \in Lines(s) THEN "lined"
                  ELSE IF x = e /\ s.file # None THEN "lost"
                  ELSE IF fate[x] = "lined" THEN "inserted" ELSE fate[x]]
    /\ UNCHANGED <<today, table>>

\* Mutant: a day too many is swept.
OlderThanTooMuch(d) == d + Retention < today + 1

OlderThan(d) == d + Retention < today

\* sweep_older_than, called by audit_retention_sweeper
SweepRows ==
    /\ \E w \in table : OlderThan(w.day)
    /\ table' = {w \in table : ~OlderThan(w.day)}
    /\ UNCHANGED <<today, sink, fate>>

NextDay ==
    /\ today < MaxDay
    /\ today' = today + 1
    /\ UNCHANGED <<table, sink, fate>>

TrailTypeOK ==
    /\ today \in 0..MaxDay
    /\ table \subseteq Row
    /\ sink \in Sink
    /\ fate \in [Event -> Fates]
=============================================================================
