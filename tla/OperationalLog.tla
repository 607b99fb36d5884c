--------------------------- MODULE OperationalLog ---------------------------
(***************************************************************************)
(* The operational log: emitters hand records to a bounded channel and     *)
(* never wait; one task takes them out and inserts them into the table     *)
(* operational_logs.  A sweeper deletes old rows; it is that of AuditTrail *)
(* on another table, and is not modelled again.  What a record says is     *)
(* left out: a record is the request it is about.                          *)
(***************************************************************************)
EXTENDS Naturals, Sequences

CONSTANTS Record,       \* log records
          Capacity,     \* of the channel
          Nobody

ASSUME LogAssumption == Capacity \in Nat /\ Nobody \notin Record

VARIABLES channel,      \* records queued
          taken,        \* the record the drain task is inserting, or Nobody
          logged,       \* rows of operational_logs, in the order of insertion
          dropped,      \* the drop counter, summed over restarts
          missed        \* records lost in an INSERT or with the channel

logVars == <<channel, taken, logged, dropped, missed>>

LogInit ==
    /\ channel = <<>>
    /\ taken = Nobody
    /\ logged = <<>>
    /\ dropped = 0
    /\ missed = {}

\* capacity.max(1)
Slots == IF Capacity = 0 THEN 1 ELSE Capacity

Room == Len(channel) < Slots

\* Mutant: a full channel forgets the record without counting it.
EmitUncounted(m) ==
    /\ channel' = IF Room THEN Append(channel, m) ELSE channel
    /\ UNCHANGED <<taken, logged, dropped, missed>>

\* emit: try_send
Emit(m) ==
    /\ \/ /\ Room
          /\ channel' = Append(channel, m)
          /\ UNCHANGED dropped
       \/ /\ ~Room
          /\ dropped' = dropped + 1
          /\ UNCHANGED channel
    /\ UNCHANGED <<taken, logged, missed>>

\* drain_loop: recv
Take ==
    /\ taken = Nobody
    /\ channel # <<>>
    /\ taken' = Head(channel)
    /\ channel' = Tail(channel)
    /\ UNCHANGED <<logged, dropped, missed>>

\* drain_loop: insert; a record that cannot be inserted is gone.
Store(ok) ==
    /\ taken # Nobody
    /\ taken' = Nobody
    /\ IF ok THEN logged' = Append(logged, taken) /\ UNCHANGED missed
             ELSE missed' = missed \cup {taken} /\ UNCHANGED logged
    /\ UNCHANGED <<channel, dropped>>

\* The process ends: the channel goes with it.
LoseChannel ==
    /\ missed' = missed \cup {channel[i] : i \in DOMAIN channel}
                        \cup ({taken} \ {Nobody})
    /\ channel' = <<>>
    /\ taken' = Nobody
    /\ UNCHANGED <<logged, dropped>>

LogTypeOK ==
    /\ channel \in Seq(Record)
    /\ Len(channel) <= Slots
    /\ taken \in Record \cup {Nobody}
    /\ logged \in Seq(Record)
    /\ dropped \in Nat
    /\ missed \subseteq Record
=============================================================================
