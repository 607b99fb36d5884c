-------------------------- MODULE Connections_proofs --------------------------
(***************************************************************************)
(* Proofs about Connections, for any connections, agents and calls.        *)
(*                                                                         *)
(* The inductive invariant: the types; Ready: a call that is about to      *)
(* write knows its connection, and has read a row unless it puts one;      *)
(* Written: a row carries the last write to its name; Authority; and what  *)
(* a request read is of one moment since it began (Admission).             *)
(***************************************************************************)
EXTENDS Connections, TLAPS

Ready ==
    \A w \in Writer : pc[w] = "write" =>
        /\ job[w].conn \in Conn
        /\ job[w].op # "put" => job[w].old # None

Written ==
    \A c \in Conn : last[c] <= writes /\ (reg[c] # None => reg[c].write = last[c])

Authority ==
    \A a \in Agent, c \in Conn :
        /\ grant[a][c] # 0 => reg[c] # None /\ grant[a][c] = reg[c].epoch
        /\ account[a][c] # 0 => reg[c] # None /\ account[a][c] = reg[c].epoch

\* What the request read: a row no older than the request, and authority that
\* was given for it.
Justified(q) ==
    /\ q.row # None => q.row.write >= q.begin
    /\ q.grant # 0 => q.row # None /\ q.grant = q.row.epoch
    /\ q.account # 0 => q.row # None /\ q.account = q.row.epoch

\* What holds of a request that is at l and has read q.
Sound(l, q) ==
    /\ l # "idle" => q # None
    /\ l = "read" => q.begin <= last[q.conn]
    /\ l \in {"decide", "sent"} => Justified(q)
    /\ l = "sent" => q.row # None /\ q.grant # 0 /\ q.account # 0

Admission == \A r \in Request : Sound(step[r], req[r])

IInv == TypeOK /\ Ready /\ Written /\ Authority /\ Admission

-----------------------------------------------------------------------------
(***************************************************************************)
(* What the operations do.                                                 *)
(***************************************************************************)

\* The triggers of migration 0009 withdraw all authority for c, or none.
LEMMA WithdrawDoes ==
    ASSUME TypeOK, NEW c \in Conn, NEW new, Withdraw(c, new)
    PROVE  /\ grant' \in [Agent -> [Conn -> Nat]]
           /\ account' \in [Agent -> [Conn -> Nat]]
           /\ \A a \in Agent, d \in Conn \ {c} :
                grant'[a][d] = grant[a][d] /\ account'[a][d] = account[a][d]
           /\ \/ \A a \in Agent : grant'[a][c] = 0 /\ account'[a][c] = 0
              \/ /\ reg[c] # None /\ new # None /\ new.dest = reg[c].dest
                 /\ grant' = grant /\ account' = account
  <1>0. grant \in [Agent -> [Conn -> Nat]] /\ account \in [Agent -> [Conn -> Nat]]
    BY Zenon DEF TypeOK
  <1>1. CASE grant' = Forget(grant, c) /\ account' = Forget(account, c)
    BY <1>0, <1>1 DEF Forget
  <1>2. CASE /\ reg[c] # None /\ new # None /\ new.dest = reg[c].dest
             /\ grant' = grant /\ account' = account
    BY Zenon, <1>0, <1>2
  <1>. QED  BY Zenon, <1>1, <1>2 DEF Withdraw

\* One statement that makes c's row `new' keeps the rows whole, numbered by
\* their last write, and in step with the authority given for them (WriteRow,
\* the triggers of migration 0009).
LEMMA WriteRowDoes ==
    ASSUME TypeOK, Written, Authority,
           NEW c \in Conn, NEW new \in Row \cup {None}, WriteRow(c, new)
    PROVE  /\ reg' \in [Conn -> Row \cup {None}]
           /\ grant' \in [Agent -> [Conn -> Nat]]
           /\ account' \in [Agent -> [Conn -> Nat]]
           /\ writes' \in Nat
           /\ last' \in [Conn -> Nat]
           /\ Written' /\ Authority'
           /\ \A d \in Conn : last[d] <= last'[d]
           /\ \A d \in Conn \ {c} : reg'[d] = reg[d]
           /\ reg'[c] # None => new # None /\ reg'[c].disabled = new.disabled
  <1>. DEFINE n == writes + 1
              keeps == reg[c] # None /\ new # None /\ new.dest = reg[c].dest
              e == IF keeps THEN reg[c].epoch ELSE n
              r == [new EXCEPT !.write = n, !.epoch = e]
              row == IF new = None THEN None ELSE r
  <1>0. /\ reg \in [Conn -> Row \cup {None}]
        /\ last \in [Conn -> Nat]
        /\ writes \in Nat
    BY Zenon DEF TypeOK
  <1>1. /\ writes' = n
        /\ last' = [last EXCEPT ![c] = n]
        /\ reg' = [reg EXCEPT ![c] = row]
        /\ Withdraw(c, new)
    BY Zenon DEF WriteRow
  <1>2. n \in Nat /\ n > writes
    BY <1>0
  <1>3. e \in Nat
    <2>1. keeps => reg[c] \in Row
      BY <1>0
    <2>2. keeps => reg[c].epoch \in Nat
      BY <2>1 DEF Row
    <2>. QED  BY Zenon, <1>2, <2>2
  <1>4. new # None => /\ r \in Row /\ r.write = n /\ r.epoch = e
                      /\ r.disabled = new.disabled
    <2>. SUFFICES ASSUME new # None
                  PROVE  /\ r \in Row /\ r.write = n /\ r.epoch = e
                         /\ r.disabled = new.disabled
      OBVIOUS
    <2>. HIDE DEF n, e
    <2>1. new \in Row
      BY Zenon
    <2>. QED  BY <2>1, <1>2, <1>3, Zenon DEF Row
  <1>. HIDE DEF r, n, e
  <1>5. /\ row \in Row \cup {None}
        /\ row # None => new # None /\ row = r
        /\ new # None => row # None /\ row = r
    BY <1>4, RowsAssumption
  <1>. HIDE DEF row
  <1>6. /\ reg' \in [Conn -> Row \cup {None}]
        /\ reg'[c] = row
        /\ \A d \in Conn \ {c} : reg'[d] = reg[d]
    BY <1>0, <1>1, <1>5
  <1>7. /\ last' \in [Conn -> Nat]
        /\ last'[c] = n
        /\ \A d \in Conn \ {c} : last'[d] = last[d]
    BY <1>0, <1>1, <1>2
  <1>8. \A d \in Conn : last[d] \in Nat /\ last[d] <= writes
    BY <1>0 DEF Written
  <1>9. \A d \in Conn : last[d] <= last'[d] /\ last'[d] <= writes'
    BY <1>0, <1>1, <1>2, <1>7, <1>8
  <1>10. Written'
    <2>1. \A d \in Conn \ {c} : reg'[d] # None => reg'[d].write = last'[d]
      BY Zenon, <1>6, <1>7 DEF Written
    <2>2. reg'[c] # None => reg'[c].write = last'[c]
      BY Zenon, <1>4, <1>5, <1>6, <1>7
    <2>. QED  BY Zenon, <1>9, <2>1, <2>2 DEF Written
  <1>11. /\ grant' \in [Agent -> [Conn -> Nat]]
         /\ account' \in [Agent -> [Conn -> Nat]]
         /\ \A a \in Agent, d \in Conn \ {c} :
              grant'[a][d] = grant[a][d] /\ account'[a][d] = account[a][d]
         /\ \/ \A a \in Agent : grant'[a][c] = 0 /\ account'[a][c] = 0
            \/ /\ reg[c] # None /\ new # None /\ new.dest = reg[c].dest
               /\ grant' = grant /\ account' = account
    BY Zenon, <1>1, WithdrawDoes
  <1>12. Authority'
    <2>1. ASSUME NEW a \in Agent, NEW d \in Conn \ {c}
          PROVE  /\ grant'[a][d] # 0 => reg'[d] # None /\ grant'[a][d] = reg'[d].epoch
                 /\ account'[a][d] # 0 => reg'[d] # None /\ account'[a][d] = reg'[d].epoch
      BY <1>6, <1>11 DEF Authority
    <2>2. ASSUME NEW a \in Agent
          PROVE  /\ grant'[a][c] # 0 => reg'[c] # None /\ grant'[a][c] = reg'[c].epoch
                 /\ account'[a][c] # 0 => reg'[c] # None /\ account'[a][c] = reg'[c].epoch
      <3>1. CASE grant'[a][c] = 0 /\ account'[a][c] = 0
        BY Zenon, <3>1
      <3>2. CASE keeps /\ grant' = grant /\ account' = account
        <4>1. reg'[c] # None /\ reg'[c].epoch = reg[c].epoch
          BY Zenon, <3>2, <1>4, <1>5, <1>6 DEF e
        <4>. QED  BY Zenon, <3>2, <4>1 DEF Authority
      <3>. QED  BY Zenon, <1>11, <3>1, <3>2
    <2>. QED  BY Zenon, <2>1, <2>2 DEF Authority
  <1>13. reg'[c] # None => new # None /\ reg'[c].disabled = new.disabled
    BY Zenon, <1>4, <1>5, <1>6
  <1>14. writes' \in Nat
    BY Zenon, <1>1, <1>2
  <1>. QED  BY Zenon, <1>6, <1>7, <1>9, <1>10, <1>11, <1>12, <1>13, <1>14

\* A call moves on, and the others stay where they are.
LEMMA CallMoves ==
    ASSUME TypeOK, Ready, NEW w \in Writer,
           NEW l \in {"idle", "write", "list", "publish"}, NEW j \in Job,
           pc' = [pc EXCEPT ![w] = l], job' = [job EXCEPT ![w] = j],
           l = "write" => j.conn \in Conn /\ (j.op # "put" => j.old # None)
    PROVE  /\ pc' \in [Writer -> {"idle", "write", "list", "publish"}]
           /\ job' \in [Writer -> Job]
           /\ Ready'
  <1>1. /\ pc \in [Writer -> {"idle", "write", "list", "publish"}]
        /\ job \in [Writer -> Job]
    BY Zenon DEF TypeOK
  <1>2. /\ pc' \in [Writer -> {"idle", "write", "list", "publish"}]
        /\ job' \in [Writer -> Job]
        /\ pc'[w] = l /\ job'[w] = j
        /\ \A v \in Writer \ {w} : pc'[v] = pc[v] /\ job'[v] = job[v]
    BY <1>1
  <1>3. ASSUME NEW v \in Writer, pc'[v] = "write"
        PROVE  job'[v].conn \in Conn /\ (job'[v].op # "put" => job'[v].old # None)
    <2>1. CASE v = w
      BY Zenon, <1>2, <1>3, <2>1
    <2>2. CASE v # w
      <3>1. v \in Writer \ {w}
        BY Zenon, <2>2
      <3>2. pc'[v] = pc[v] /\ job'[v] = job[v]
        BY Zenon, <1>2, <3>1
      <3>. QED  BY Zenon, <1>3, <3>2 DEF Ready
    <2>. QED  BY Zenon, <2>1, <2>2
  <1>. QED  BY Zenon, <1>2, <1>3 DEF Ready

\* A call that has not begun holds nothing (NoJob).
LEMMA NoJobType == NoJob \in Job
  BY DestAssumption DEF NoJob, Job

\* A request moves on, and the others stay where they are.
LEMMA RequestMoves ==
    ASSUME TypeOK, Admission, NEW r \in Request, last' = last,
           NEW l \in {"idle", "read", "decide", "sent"}, NEW q \in Read \cup {None},
           step' = [step EXCEPT ![r] = l], req' = [req EXCEPT ![r] = q], Sound(l, q)
    PROVE  /\ step' \in [Request -> {"idle", "read", "decide", "sent"}]
           /\ req' \in [Request -> Read \cup {None}]
           /\ Admission'
  <1>1. /\ step \in [Request -> {"idle", "read", "decide", "sent"}]
        /\ req \in [Request -> Read \cup {None}]
    BY Zenon DEF TypeOK
  <1>2. /\ step' \in [Request -> {"idle", "read", "decide", "sent"}]
        /\ req' \in [Request -> Read \cup {None}]
        /\ step'[r] = l /\ req'[r] = q
        /\ \A t \in Request \ {r} : step'[t] = step[t] /\ req'[t] = req[t]
    BY <1>1
  <1>3. ASSUME NEW t \in Request
        PROVE  Sound(step'[t], req'[t])
    <2>1. CASE t = r
      BY Zenon, <1>2, <2>1
    <2>2. CASE t # r
      <3>1. t \in Request \ {r}
        BY Zenon, <2>2
      <3>2. step'[t] = step[t] /\ req'[t] = req[t]
        BY Zenon, <1>2, <3>1
      <3>. QED  BY Zenon, <3>2 DEF Admission
    <2>. QED  BY Zenon, <2>1, <2>2
  <1>4. \A t \in Request : Sound(step[t], req[t])'
    BY Zenon, <1>3 DEF Sound, Justified
  <1>. QED  BY Zenon, <1>2, <1>4 DEF Admission

\* What a request has read stays justified while the table moves on: only the
\* names' last writes grow.
LEMMA RequestsStay ==
    ASSUME TypeOK, Admission, UNCHANGED <<step, req>>, last' \in [Conn -> Nat],
           \A c \in Conn : last[c] <= last'[c]
    PROVE  Admission'
  <1>. SUFFICES ASSUME NEW r \in Request
                PROVE  Sound(step[r], req[r])'
    BY Zenon DEF Admission
  <1>1. Sound(step[r], req[r])
    BY Zenon DEF Admission
  <1>2. step'[r] = step[r] /\ req'[r] = req[r]
    OBVIOUS
  <1>3. ASSUME step[r] = "read"
        PROVE  req[r].begin <= last'[req[r].conn]
    <2>1. req[r] # None /\ req[r].begin <= last[req[r].conn]
      BY <1>1, <1>3 DEF Sound
    <2>2. req[r] \in Read
      BY <2>1 DEF TypeOK
    <2>3. req[r].begin \in Nat /\ req[r].conn \in Conn
      BY <2>2 DEF Read
    <2>4. last \in [Conn -> Nat]
      BY Zenon DEF TypeOK
    <2>. QED  BY <2>1, <2>3, <2>4
  <1>. QED  BY Zenon, <1>1, <1>2, <1>3 DEF Sound, Justified

-----------------------------------------------------------------------------
(***************************************************************************)
(* The steps of the operator's calls.                                      *)
(***************************************************************************)

\* A call that starts holds the row it has read (op_put and the others).
LEMMA StartKeeps ==
    ASSUME IInv, NEW w \in Writer, NEW c \in Conn,
           \/ \E d \in Dest : StartPut(w, c, d)
           \/ \E op \in Op \ {"put"} : Start(w, op, c)
    PROVE  IInv'
  <1>. USE DEF IInv
  <1>1. reg \in [Conn -> Row \cup {None}]
    BY Zenon DEF TypeOK
  <1>2. reg[c] \in Row \cup {None}
    BY Zenon, <1>1
  <1>3. UNCHANGED <<reg, catalog, grant, account, active, writes, last, step, req>>
    BY Zenon DEF StartPut, Start
  <1>4. PICK j \in Job :
          /\ pc' = [pc EXCEPT ![w] = "write"]
          /\ job' = [job EXCEPT ![w] = j]
          /\ j.conn \in Conn /\ (j.op # "put" => j.old # None)
    <2>1. ASSUME NEW d \in Dest, StartPut(w, c, d)
          PROVE  \E j \in Job :
                   /\ pc' = [pc EXCEPT ![w] = "write"]
                   /\ job' = [job EXCEPT ![w] = j]
                   /\ j.conn \in Conn /\ (j.op # "put" => j.old # None)
      <3>. DEFINE k == [NoJob EXCEPT !.op = "put", !.conn = c, !.dest = d, !.old = reg[c]]
      <3>1. k \in Job /\ k.conn = c /\ k.op = "put"
        BY <1>2, NoJobType, Zenon DEF Job, Op
      <3>2. pc' = [pc EXCEPT ![w] = "write"] /\ job' = [job EXCEPT ![w] = k]
        BY Zenon, <2>1 DEF StartPut, Goto
      <3>. HIDE DEF k
      <3>. QED  BY Zenon, <3>1, <3>2
    <2>2. ASSUME NEW op \in Op \ {"put"}, Start(w, op, c)
          PROVE  \E j \in Job :
                   /\ pc' = [pc EXCEPT ![w] = "write"]
                   /\ job' = [job EXCEPT ![w] = j]
                   /\ j.conn \in Conn /\ (j.op # "put" => j.old # None)
      <3>. DEFINE k == [NoJob EXCEPT !.op = op, !.conn = c, !.old = reg[c]]
      <3>1. k \in Job /\ k.conn = c /\ k.old = reg[c]
        BY <1>2, NoJobType, Zenon DEF Job
      <3>2. /\ pc' = [pc EXCEPT ![w] = "write"] /\ job' = [job EXCEPT ![w] = k]
            /\ reg[c] # None
        BY Zenon, <2>2 DEF Start, Goto
      <3>. HIDE DEF k
      <3>. QED  BY Zenon, <3>1, <3>2
    <2>. QED  BY Zenon, <2>1, <2>2
  <1>7. "write" \in {"idle", "write", "list", "publish"}
    OBVIOUS
  <1>8. /\ pc' \in [Writer -> {"idle", "write", "list", "publish"}]
        /\ job' \in [Writer -> Job]
        /\ Ready'
    BY Zenon, <1>4, <1>7, CallMoves
  <1>9. TypeOK'
    BY Zenon, <1>3, <1>8 DEF TypeOK
  <1>10. Written' /\ Authority' /\ Admission'
    BY Zenon, <1>3 DEF Written, Authority, Admission, Sound, Justified
  <1>. QED  BY Zenon, <1>8, <1>9, <1>10

\* What the statement of a call does to the table, and which rows it enables.
LEMMA StatementDoes ==
    ASSUME IInv, NEW w \in Writer, Write(w)
    PROVE  /\ reg' \in [Conn -> Row \cup {None}]
           /\ grant' \in [Agent -> [Conn -> Nat]]
           /\ account' \in [Agent -> [Conn -> Nat]]
           /\ writes' \in Nat
           /\ last' \in [Conn -> Nat]
           /\ Written' /\ Authority'
           /\ \A d \in Conn : last[d] <= last'[d]
           /\ \A d \in Conn :
                /\ reg[d] # None /\ reg[d].disabled
                /\ reg'[d] # None /\ ~reg'[d].disabled
                => /\ job[w].conn = d
                   /\ \/ job[w].op = "enable" \/ job[w].old = None
                      \/ ~job[w].old.disabled
  <1>. DEFINE j == job[w]
              c == j.conn
              Wrote(new) == new \in Row \cup {None} /\ WriteRow(c, new)
              Told(new) == \/ new = None \/ (new # None /\ new.disabled)
                           \/ j.op = "enable" \/ j.old = None \/ ~j.old.disabled
  <1>0. TypeOK /\ Written /\ Authority /\ Ready /\ pc[w] = "write"
    BY Zenon DEF IInv, Write
  <1>1. /\ reg \in [Conn -> Row \cup {None}]
        /\ job \in [Writer -> Job]
        /\ last \in [Conn -> Nat]
        /\ writes \in Nat
        /\ grant \in [Agent -> [Conn -> Nat]]
        /\ account \in [Agent -> [Conn -> Nat]]
    BY Zenon, <1>0 DEF TypeOK
  <1>2. j \in Job
    BY Zenon, <1>1
  <1>3. c \in Conn /\ (j.op # "put" => j.old # None)
    BY Zenon, <1>0 DEF Ready
  <1>4. reg[c] \in Row \cup {None}
    BY Zenon, <1>1, <1>3
  <1>5. \/ UNCHANGED <<reg, grant, account, writes, last>>
        \/ \E new : Wrote(new) /\ Told(new)
    <2>1. CASE j.op = "put" /\ WriteRow(c, PutRow(j))
      <3>1. /\ PutRow(j) \in Row
            /\ PutRow(j).disabled \/ j.old = None \/ ~j.old.disabled
        <4>1. j.old \in Row \cup {None} /\ j.dest \in Dest
          BY <1>2 DEF Job
        <4>2. j.old # None => j.old.disabled \in BOOLEAN
          BY <4>1 DEF Row
        <4>. QED  BY <4>1, <4>2, Zenon DEF PutRow, Row
      <3>2. Told(PutRow(j))
        BY Zenon, <3>1
      <3>3. Wrote(PutRow(j))
        BY Zenon, <2>1, <3>1
      <3>. QED  BY Zenon, <3>2, <3>3
    <2>2. ASSUME NEW b \in BOOLEAN, j.op # "put", WriteRow(c, CredentialRow(j, b))
          PROVE  \E new : Wrote(new) /\ Told(new)
      <3>1. j.old \in Row
        BY <1>2, <1>3, <2>2 DEF Job
      <3>2. CredentialRow(j, b) \in Row /\ CredentialRow(j, b).disabled = j.old.disabled
        BY <3>1, Zenon DEF CredentialRow, Row
      <3>3. Told(CredentialRow(j, b))
        BY Zenon, <3>2
      <3>4. Wrote(CredentialRow(j, b))
        BY Zenon, <2>2, <3>2
      <3>. QED  BY Zenon, <3>3, <3>4
    <2>3. ASSUME reg[c] # None, NEW b \in BOOLEAN, b \/ j.op = "enable",
                 WriteRow(c, [reg[c] EXCEPT !.disabled = b])
          PROVE  \E new : Wrote(new) /\ Told(new)
      <3>1. reg[c] \in Row
        BY <1>4, <2>3
      <3>2. /\ [reg[c] EXCEPT !.disabled = b] \in Row
            /\ [reg[c] EXCEPT !.disabled = b].disabled = b
        BY <3>1 DEF Row
      <3>3. Told([reg[c] EXCEPT !.disabled = b])
        BY Zenon, <3>2, <2>3
      <3>4. Wrote([reg[c] EXCEPT !.disabled = b])
        BY Zenon, <2>3, <3>2
      <3>. QED  BY Zenon, <3>3, <3>4
    <2>4. CASE j.op = "delete" /\ DeleteRow(w)
      <3>1. CASE reg[c] # None /\ WriteRow(c, [reg[c] EXCEPT !.disabled = TRUE])
        BY Zenon, <3>1, <2>3
      <3>2. CASE WriteRow(c, None)
        BY Zenon, <3>2
      <3>. QED  BY Zenon, <2>4, <3>1, <3>2 DEF DeleteRow
    <2>5. CASE j.op = "enable" /\ EnableRow(w)
      BY Zenon, <2>5, <2>3 DEF EnableRow
    <2>6. "credential" # "put" /\ "clear" # "put"
      OBVIOUS
    <2>. QED  BY Zenon, <2>1, <2>2, <2>4, <2>5, <2>6 DEF Write
  <1>6. CASE UNCHANGED <<reg, grant, account, writes, last>>
    <2>1. Written' /\ Authority'
      BY Zenon, <1>0, <1>6 DEF Written, Authority
    <2>2. \A d \in Conn : last[d] <= last'[d]
      BY <1>1, <1>6
    <2>. QED  BY Zenon, <1>1, <1>6, <2>1, <2>2
  <1>7. ASSUME NEW new, Wrote(new), Told(new)
        PROVE  /\ reg' \in [Conn -> Row \cup {None}]
               /\ grant' \in [Agent -> [Conn -> Nat]]
               /\ account' \in [Agent -> [Conn -> Nat]]
               /\ writes' \in Nat
               /\ last' \in [Conn -> Nat]
               /\ Written' /\ Authority'
               /\ \A d \in Conn : last[d] <= last'[d]
               /\ \A d \in Conn \ {c} : reg'[d] = reg[d]
               /\ reg'[c] # None => new # None /\ reg'[c].disabled = new.disabled
    BY Zenon, <1>0, <1>3, <1>7, WriteRowDoes
  <1>8. ASSUME NEW new, Wrote(new), Told(new), NEW d \in Conn,
               reg[d] # None, reg[d].disabled, reg'[d] # None, ~reg'[d].disabled
        PROVE  /\ c = d
               /\ j.op = "enable" \/ j.old = None \/ ~j.old.disabled
    <2>1. /\ \A e \in Conn \ {c} : reg'[e] = reg[e]
          /\ reg'[c] # None => new # None /\ reg'[c].disabled = new.disabled
      BY Zenon, <1>7, <1>8
    <2>2. c = d
      <3>1. SUFFICES ASSUME c # d PROVE FALSE
        BY Zenon
      <3>2. d \in Conn \ {c}
        BY Zenon, <3>1
      <3>3. reg'[d] = reg[d]
        BY Zenon, <2>1, <3>2
      <3>. QED  BY Zenon, <1>8, <3>3
    <2>3. new # None /\ ~new.disabled
      BY Zenon, <1>8, <2>1, <2>2
    <2>. QED  BY Zenon, <1>8, <2>2, <2>3
  <1>. QED  BY Zenon, <1>5, <1>6, <1>7, <1>8

\* The statement of a call leaves the rest of the invariant as it was (Write).
LEMMA WriteKeeps ==
    ASSUME IInv, NEW w \in Writer, Write(w)
    PROVE  IInv'
  <1>1. /\ reg' \in [Conn -> Row \cup {None}]
        /\ grant' \in [Agent -> [Conn -> Nat]]
        /\ account' \in [Agent -> [Conn -> Nat]]
        /\ writes' \in Nat
        /\ last' \in [Conn -> Nat]
        /\ Written' /\ Authority'
        /\ \A d \in Conn : last[d] <= last'[d]
    BY Zenon, StatementDoes
  <1>2. /\ pc' = [pc EXCEPT ![w] = "list"]
        /\ job' = [job EXCEPT ![w] = NoJob]
        /\ UNCHANGED <<catalog, active, step, req>>
    BY Zenon DEF Write, Goto
  <1>3. "list" \in {"idle", "write", "list", "publish"} /\ "list" # "write"
    OBVIOUS
  <1>4. /\ pc' \in [Writer -> {"idle", "write", "list", "publish"}]
        /\ job' \in [Writer -> Job]
        /\ Ready'
    BY Zenon, <1>2, <1>3, NoJobType, CallMoves DEF IInv
  <1>5. Admission'
    BY Zenon, <1>1, <1>2, RequestsStay DEF IInv
  <1>6. TypeOK'
    BY Zenon, <1>1, <1>2, <1>4 DEF IInv, TypeOK
  <1>. QED  BY Zenon, <1>1, <1>4, <1>5, <1>6 DEF IInv

\* Listing the table, publishing the list, and giving up change no row and no
\* authority (refresh_runtime).
LEMMA RefreshKeeps ==
    ASSUME IInv, NEW w \in Writer, List(w) \/ Publish(w) \/ Abort(w)
    PROVE  IInv'
  <1>0. TypeOK /\ Ready /\ Written /\ Authority /\ Admission
    BY Zenon DEF IInv
  <1>1. /\ reg \in [Conn -> Row \cup {None}]
        /\ catalog \in [Conn -> Row \cup {None}]
        /\ job \in [Writer -> Job]
    BY Zenon, <1>0 DEF TypeOK
  <1>2. job[w] \in Job
    BY Zenon, <1>1
  <1>3. UNCHANGED <<reg, grant, account, active, writes, last, step, req>>
    BY Zenon DEF List, Publish, Abort
  <1>4. catalog' \in [Conn -> Row \cup {None}]
    <2>1. job[w].snap \in [Conn -> Row \cup {None}]
      BY <1>2 DEF Job
    <2>. QED  BY Zenon, <1>1, <2>1 DEF List, Publish, Abort
  <1>5. \E l \in {"idle", "publish"}, j \in Job :
          pc' = [pc EXCEPT ![w] = l] /\ job' = [job EXCEPT ![w] = j]
    <2>1. [job[w] EXCEPT !.snap = reg] \in Job
      BY <1>1, <1>2 DEF Job
    <2>2. CASE List(w)
      <3>1. pc' = [pc EXCEPT ![w] = "publish"]
        BY Zenon, <2>2 DEF List, Goto
      <3>2. job' = [job EXCEPT ![w] = [job[w] EXCEPT !.snap = reg]]
        BY <2>2, <1>1 DEF List
      <3>. QED  BY Zenon, <2>1, <3>1, <3>2
    <2>3. CASE Publish(w) \/ Abort(w)
      BY Zenon, <2>3, NoJobType DEF Publish, Abort, Done, Goto
    <2>. QED  BY Zenon, <2>2, <2>3
  <1>6. \A l \in {"idle", "publish"} :
          l \in {"idle", "write", "list", "publish"} /\ l # "write"
    OBVIOUS
  <1>7. /\ pc' \in [Writer -> {"idle", "write", "list", "publish"}]
        /\ job' \in [Writer -> Job]
        /\ Ready'
    BY Zenon, <1>0, <1>5, <1>6, CallMoves
  <1>8. TypeOK'
    BY Zenon, <1>0, <1>3, <1>4, <1>7 DEF TypeOK
  <1>9. Written' /\ Authority' /\ Admission'
    BY Zenon, <1>0, <1>3 DEF Written, Authority, Admission, Sound, Justified
  <1>. QED  BY Zenon, <1>7, <1>8, <1>9 DEF IInv

\* Authority is given for the row as it is, or taken away (modify_agent,
\* AgentCredentialRepository::set, op_unset_agent_credential).
LEMMA AuthorityKeeps ==
    ASSUME IInv, NEW a \in Agent, NEW c \in Conn,
           Allow(a, c) \/ Bind(a, c) \/ Disallow(a, c) \/ Unbind(a, c)
    PROVE  IInv'
  <1>0. TypeOK /\ Ready /\ Written /\ Authority /\ Admission
    BY Zenon DEF IInv
  <1>1. /\ reg \in [Conn -> Row \cup {None}]
        /\ grant \in [Agent -> [Conn -> Nat]]
        /\ account \in [Agent -> [Conn -> Nat]]
    BY Zenon, <1>0 DEF TypeOK
  <1>2. UNCHANGED <<reg, catalog, active, writes, last, pc, job, step, req>>
    BY Zenon DEF Allow, Bind, Disallow, Unbind
  <1>3. PICK n \in Nat :
          /\ n # 0 => reg[c] # None /\ n = reg[c].epoch
          /\ \/ grant' = [grant EXCEPT ![a][c] = n] /\ account' = account
             \/ account' = [account EXCEPT ![a][c] = n] /\ grant' = grant
    <2>1. reg[c] # None => reg[c].epoch \in Nat
      <3>1. reg[c] # None => reg[c] \in Row
        BY <1>1
      <3>. QED  BY <3>1 DEF Row
    <2>2. 0 \in Nat
      OBVIOUS
    <2>. QED  BY Zenon, <2>1, <2>2 DEF Allow, Bind, Disallow, Unbind
  <1>4. Ready' /\ Written' /\ Admission'
    BY Zenon, <1>0, <1>2 DEF Ready, Written, Admission, Sound, Justified
  <1>5. n # 0 => reg[c] # None /\ n = reg[c].epoch
    BY Zenon, <1>3
  <1>6. CASE grant' = [grant EXCEPT ![a][c] = n] /\ account' = account
    <2>1. /\ grant' \in [Agent -> [Conn -> Nat]]
          /\ grant'[a][c] = n
          /\ \A b \in Agent, d \in Conn : b # a \/ d # c => grant'[b][d] = grant[b][d]
      BY <1>1, <1>6
    <2>2. account' = account
      BY Zenon, <1>6
    <2>3. Authority'
      <3>. SUFFICES ASSUME NEW b \in Agent, NEW d \in Conn
                    PROVE  grant'[b][d] # 0 => reg[d] # None /\ grant'[b][d] = reg[d].epoch
        BY <1>0, <1>2, <2>2 DEF Authority
      <3>1. CASE b = a /\ d = c
        BY Zenon, <1>5, <2>1, <3>1
      <3>2. CASE b # a \/ d # c
        BY <1>0, <2>1, <3>2 DEF Authority
      <3>. QED  BY Zenon, <3>1, <3>2
    <2>4. TypeOK'
      BY Zenon, <1>0, <1>2, <2>1, <2>2 DEF TypeOK
    <2>. QED  BY Zenon, <1>4, <2>3, <2>4 DEF IInv
  <1>7. CASE account' = [account EXCEPT ![a][c] = n] /\ grant' = grant
    <2>1. /\ account' \in [Agent -> [Conn -> Nat]]
          /\ account'[a][c] = n
          /\ \A b \in Agent, d \in Conn : b # a \/ d # c => account'[b][d] = account[b][d]
      BY <1>1, <1>7
    <2>2. grant' = grant
      BY Zenon, <1>7
    <2>3. Authority'
      <3>. SUFFICES ASSUME NEW b \in Agent, NEW d \in Conn
                    PROVE  account'[b][d] # 0 => reg[d] # None /\ account'[b][d] = reg[d].epoch
        BY <1>0, <1>2, <2>2 DEF Authority
      <3>1. CASE b = a /\ d = c
        BY Zenon, <1>5, <2>1, <3>1
      <3>2. CASE b # a \/ d # c
        BY <1>0, <2>1, <3>2 DEF Authority
      <3>. QED  BY Zenon, <3>1, <3>2
    <2>4. TypeOK'
      BY Zenon, <1>0, <1>2, <2>1, <2>2 DEF TypeOK
    <2>. QED  BY Zenon, <1>4, <2>3, <2>4 DEF IInv
  <1>. QED  BY Zenon, <1>3, <1>6, <1>7

-----------------------------------------------------------------------------
(***************************************************************************)
(* The steps of a proxied request.                                         *)
(***************************************************************************)

\* A request that has been authenticated begins with the last write to the name
\* it asks for.
LEMMA AuthenticateDoes ==
    ASSUME IInv, NEW r \in Request, NEW a \in Agent, NEW c \in Conn,
           Authenticate(r, a, c)
    PROVE  \E q \in Read \cup {None} :
             /\ step' = [step EXCEPT ![r] = "read"]
             /\ req' = [req EXCEPT ![r] = q]
             /\ Sound("read", q)
  <1>. DEFINE q == [agent |-> a, conn |-> c, begin |-> last[c], row |-> None,
                    grant |-> grant[a][c], account |-> 0, active |-> TRUE]
  <1>1. last \in [Conn -> Nat] /\ grant \in [Agent -> [Conn -> Nat]]
    BY Zenon DEF IInv, TypeOK
  <1>2. last[c] \in Nat /\ grant[a][c] \in Nat /\ last[c] <= last[c]
    BY <1>1
  <1>3. q \in Read /\ q.begin = last[c] /\ q.conn = c
    BY <1>2 DEF Read
  <1>4. /\ step' = [step EXCEPT ![r] = "read"]
        /\ req' = [req EXCEPT ![r] = q]
    BY Zenon DEF Authenticate
  <1>. HIDE DEF q
  <1>5. Sound("read", q)
    BY <1>2, <1>3, RowsAssumption DEF Sound
  <1>. QED  BY Zenon, <1>3, <1>4, <1>5

\* One statement reads a row with the authority that was given for it, and the
\* row carries the last write to its name (http_admissions).
LEMMA ReadAdmissionDoes ==
    ASSUME IInv, NEW r \in Request, ReadAdmission(r)
    PROVE  \E q \in Read \cup {None} :
             /\ step' = [step EXCEPT ![r] = "decide"]
             /\ req' = [req EXCEPT ![r] = q]
             /\ Sound("decide", q)
  <1>. DEFINE p == req[r]
              q == Admissions(p)
  <1>0. TypeOK /\ Written /\ Authority /\ Admission
    BY Zenon DEF IInv
  <1>1. /\ reg \in [Conn -> Row \cup {None}]
        /\ grant \in [Agent -> [Conn -> Nat]]
        /\ account \in [Agent -> [Conn -> Nat]]
        /\ active \in [Agent -> BOOLEAN]
        /\ req \in [Request -> Read \cup {None}]
    BY Zenon, <1>0 DEF TypeOK
  <1>2. /\ step[r] = "read"
        /\ step' = [step EXCEPT ![r] = "decide"]
        /\ req' = [req EXCEPT ![r] = q]
    BY Zenon DEF ReadAdmission
  <1>3. p # None /\ p.begin <= last[p.conn]
    <2>1. Sound(step[r], req[r])
      BY Zenon, <1>0 DEF Admission
    <2>. QED  BY <1>2, <2>1 DEF Sound
  <1>4. p \in Read
    BY <1>1, <1>3
  <1>. HIDE DEF p
  <1>5. p.agent \in Agent /\ p.conn \in Conn
    BY <1>4 DEF Read
  <1>6. /\ reg[p.conn] \in Row \cup {None}
        /\ grant[p.agent][p.conn] \in Nat
        /\ account[p.agent][p.conn] \in Nat
        /\ active[p.agent] \in BOOLEAN
    BY Zenon, <1>1, <1>5
  <1>7. /\ q \in Read
        /\ q.row = reg[p.conn]
        /\ q.grant = grant[p.agent][p.conn]
        /\ q.account = account[p.agent][p.conn]
        /\ q.begin = p.begin
    BY <1>4, <1>6, Zenon DEF Read, Admissions
  <1>. HIDE DEF q
  <1>8. q.row # None => q.row.write >= q.begin
    <2>1. q.row # None => q.row.write = last[p.conn]
      BY Zenon, <1>0, <1>5, <1>7 DEF Written
    <2>2. last[p.conn] \in Nat /\ p.begin \in Nat
      BY <1>0, <1>4, <1>5 DEF TypeOK, Read
    <2>. QED  BY <1>3, <1>7, <2>1, <2>2
  <1>9. /\ q.grant # 0 => q.row # None /\ q.grant = q.row.epoch
        /\ q.account # 0 => q.row # None /\ q.account = q.row.epoch
    BY Zenon, <1>0, <1>5, <1>7 DEF Authority
  <1>10. Sound("decide", q)
    <2>1. Justified(q)
      BY Zenon, <1>8, <1>9 DEF Justified
    <2>2. q # None
      BY <1>7, RowsAssumption
    <2>. QED  BY <2>1, <2>2 DEF Sound
  <1>. QED  BY Zenon, <1>2, <1>7, <1>10

\* Only a request that was admitted is sent, with what it has read
\* (admission::target).
LEMMA DecideDoes ==
    ASSUME IInv, NEW r \in Request, Decide(r) \/ Respond(r)
    PROVE  \E l \in {"idle", "sent"}, q \in Read \cup {None} :
             /\ step' = [step EXCEPT ![r] = l]
             /\ req' = [req EXCEPT ![r] = q]
             /\ Sound(l, q)
  <1>1. req \in [Request -> Read \cup {None}]
    BY Zenon DEF IInv, TypeOK
  <1>2. req[r] \in Read \cup {None} /\ req = [req EXCEPT ![r] = req[r]]
    BY <1>1
  <1>3. Sound("idle", None)
    BY DEF Sound
  <1>4. CASE Decide(r) /\ Admitted(req[r])
    <2>1. step[r] = "decide" /\ step' = [step EXCEPT ![r] = "sent"] /\ req' = req
      BY Zenon, <1>4 DEF Decide
    <2>2. Sound("decide", req[r])
      BY Zenon, <2>1 DEF IInv, Admission
    <2>3. req[r].row # None /\ req[r].grant # 0 /\ req[r].account # 0
      BY Zenon, <1>4 DEF Admitted
    <2>4. Sound("sent", req[r])
      BY <2>2, <2>3 DEF Sound
    <2>5. req' = [req EXCEPT ![r] = req[r]]
      BY <1>2, <2>1
    <2>. QED  BY Zenon, <1>2, <2>1, <2>4, <2>5
  <1>5. CASE /\ step' = [step EXCEPT ![r] = "idle"]
             /\ req' = [req EXCEPT ![r] = None]
    BY Zenon, <1>3, <1>5
  <1>. QED  BY Zenon, <1>4, <1>5 DEF Decide, Respond

\* A step of a request changes nothing but the request.
LEMMA RequestKeeps ==
    ASSUME IInv, NEW r \in Request,
           \/ \E a \in Agent, c \in Conn : Authenticate(r, a, c)
           \/ ReadAdmission(r) \/ Decide(r) \/ Respond(r)
    PROVE  IInv'
  <1>0. TypeOK /\ Ready /\ Written /\ Authority /\ Admission
    BY Zenon DEF IInv
  <1>1. UNCHANGED <<reg, catalog, grant, account, active, writes, last, pc, job>>
    BY Zenon DEF Authenticate, ReadAdmission, Decide, Respond
  <1>2. \E l \in {"idle", "read", "decide", "sent"}, q \in Read \cup {None} :
             /\ step' = [step EXCEPT ![r] = l]
             /\ req' = [req EXCEPT ![r] = q]
             /\ Sound(l, q)
    <2>1. CASE \E a \in Agent, c \in Conn : Authenticate(r, a, c)
      BY Zenon, <2>1, AuthenticateDoes
    <2>2. CASE ReadAdmission(r)
      BY Zenon, <2>2, ReadAdmissionDoes
    <2>3. CASE Decide(r) \/ Respond(r)
      BY <2>3, DecideDoes
    <2>. QED  BY Zenon, <2>1, <2>2, <2>3
  <1>3. /\ step' \in [Request -> {"idle", "read", "decide", "sent"}]
        /\ req' \in [Request -> Read \cup {None}]
        /\ Admission'
    BY Zenon, <1>0, <1>1, <1>2, RequestMoves
  <1>4. TypeOK'
    BY Zenon, <1>0, <1>1, <1>3 DEF TypeOK
  <1>5. Ready' /\ Written' /\ Authority'
    BY Zenon, <1>0, <1>1 DEF Ready, Written, Authority
  <1>. QED  BY Zenon, <1>3, <1>4, <1>5 DEF IInv

\* A restart ends every call and every request, and builds the catalog from the
\* table (Catalog::from_repo).
LEMMA RestartKeeps ==
    ASSUME IInv, Restart
    PROVE  IInv'
  <1>0. TypeOK /\ Written /\ Authority
    BY Zenon DEF IInv
  <1>1. UNCHANGED <<reg, grant, account, active, writes, last>>
    BY Zenon DEF Restart
  <1>2. /\ pc' = [w \in Writer |-> "idle"]
        /\ job' = [w \in Writer |-> NoJob]
        /\ step' = [r \in Request |-> "idle"]
        /\ req' = [r \in Request |-> None]
        /\ catalog' = reg
    BY Zenon DEF Restart
  <1>3. /\ pc' \in [Writer -> {"idle", "write", "list", "publish"}]
        /\ job' \in [Writer -> Job]
        /\ step' \in [Request -> {"idle", "read", "decide", "sent"}]
        /\ req' \in [Request -> Read \cup {None}]
    BY <1>2, NoJobType
  <1>4. catalog' \in [Conn -> Row \cup {None}]
    BY Zenon, <1>0, <1>2 DEF TypeOK
  <1>5. TypeOK'
    BY Zenon, <1>0, <1>1, <1>3, <1>4 DEF TypeOK
  <1>6. Ready'
    BY <1>2 DEF Ready
  <1>7. Admission'
    BY <1>2 DEF Admission, Sound
  <1>8. Written' /\ Authority'
    BY Zenon, <1>0, <1>1 DEF Written, Authority
  <1>. QED  BY Zenon, <1>5, <1>6, <1>7, <1>8 DEF IInv

\* An agent that is revoked keeps its lists; they are of no use to it.
LEMMA RevokeKeeps ==
    ASSUME IInv, NEW a \in Agent, Revoke(a)
    PROVE  IInv'
  <1>0. TypeOK /\ Ready /\ Written /\ Authority /\ Admission
    BY Zenon DEF IInv
  <1>1. UNCHANGED <<reg, catalog, grant, account, writes, last, pc, job, step, req>>
    BY Zenon DEF Revoke
  <1>2. active' \in [Agent -> BOOLEAN]
    BY <1>0 DEF TypeOK, Revoke
  <1>3. TypeOK'
    BY Zenon, <1>0, <1>1, <1>2 DEF TypeOK
  <1>4. Ready' /\ Written' /\ Authority' /\ Admission'
    BY Zenon, <1>0, <1>1 DEF Ready, Written, Authority, Admission, Sound, Justified
  <1>. QED  BY Zenon, <1>3, <1>4 DEF IInv

-----------------------------------------------------------------------------
(***************************************************************************)
(* The invariant, and what follows from it.                                *)
(***************************************************************************)

\* A daemon that has just been installed has the rows of the image's catalog, no
\* authority and no calls.
LEMMA InitInv ==
    ASSUME Init
    PROVE  IInv
  <1>1. SeedRow \in Row /\ SeedRow.write = 1
    BY DestAssumption DEF SeedRow, Row
  <1>2. reg \in [Conn -> Row \cup {None}] /\ catalog = reg
    BY <1>1 DEF Init
  <1>3. /\ grant = [a \in Agent |-> [c \in Conn |-> 0]]
        /\ account = [a \in Agent |-> [c \in Conn |-> 0]]
        /\ active = [a \in Agent |-> TRUE]
        /\ writes = 1
        /\ last = [c \in Conn |-> 1]
    BY Zenon DEF Init
  <1>4. /\ pc = [w \in Writer |-> "idle"]
        /\ job = [w \in Writer |-> NoJob]
        /\ step = [r \in Request |-> "idle"]
        /\ req = [r \in Request |-> None]
    BY Zenon DEF Init
  <1>5. /\ grant \in [Agent -> [Conn -> Nat]]
        /\ account \in [Agent -> [Conn -> Nat]]
        /\ active \in [Agent -> BOOLEAN]
        /\ writes \in Nat
        /\ last \in [Conn -> Nat]
    BY <1>3
  <1>6. /\ pc \in [Writer -> {"idle", "write", "list", "publish"}]
        /\ job \in [Writer -> Job]
        /\ step \in [Request -> {"idle", "read", "decide", "sent"}]
        /\ req \in [Request -> Read \cup {None}]
    BY <1>4, NoJobType
  <1>7. TypeOK
    BY Zenon, <1>2, <1>5, <1>6 DEF TypeOK
  <1>8. Ready
    BY <1>4 DEF Ready
  <1>9. Written
    <2>1. \A c \in Conn : reg[c] # None => reg[c] = SeedRow
      BY DEF Init
    <2>2. 1 <= writes
      BY <1>3
    <2>3. \A c \in Conn : last[c] = 1
      BY Zenon, <1>3
    <2>. QED  BY <1>1, <2>1, <2>2, <2>3, Zenon DEF Written
  <1>10. Authority
    BY <1>3, Zenon DEF Authority
  <1>11. Admission
    BY <1>4 DEF Admission, Sound
  <1>. QED  BY Zenon, <1>7, <1>8, <1>9, <1>10, <1>11 DEF IInv

\* Every step keeps the invariant.
LEMMA StepInv ==
    ASSUME IInv, [Next]_vars
    PROVE  IInv'
  <1>1. CASE \E w \in Writer, c \in Conn, d \in Dest : StartPut(w, c, d)
    BY Zenon, <1>1, StartKeeps
  <1>2. CASE \E w \in Writer, op \in Op \ {"put"}, c \in Conn : Start(w, op, c)
    BY Zenon, <1>2, StartKeeps
  <1>3. CASE \E w \in Writer : Operate(w) \/ Abort(w)
    BY Zenon, <1>3, WriteKeeps, RefreshKeeps DEF Operate
  <1>4. CASE \E a \in Agent, c \in Conn :
               Allow(a, c) \/ Bind(a, c) \/ Disallow(a, c) \/ Unbind(a, c)
    BY Zenon, <1>4, AuthorityKeeps
  <1>5. CASE \E a \in Agent : Revoke(a)
    BY Zenon, <1>5, RevokeKeeps
  <1>6. CASE \E r \in Request, a \in Agent, c \in Conn : Authenticate(r, a, c)
    BY Zenon, <1>6, RequestKeeps
  <1>7. CASE \E r \in Request : ReadAdmission(r) \/ Decide(r) \/ Respond(r)
    BY Zenon, <1>7, RequestKeeps
  <1>8. CASE Restart
    BY Zenon, <1>8, RestartKeeps
  <1>9. CASE UNCHANGED vars
    BY Zenon, <1>9 DEF vars, IInv, TypeOK, Ready, Written, Authority, Admission,
                       Sound, Justified
  <1>. QED  BY Zenon, <1>1, <1>2, <1>3, <1>4, <1>5, <1>6, <1>7, <1>8, <1>9 DEF Next

\* The rows are whole and numbered, authority is for what is there, and what a
\* request has read belongs together, in every reachable state.
THEOREM Invariant == Spec => []IInv
  <1>1. Init => IInv
    BY InitInv
  <1>2. IInv /\ [Next]_vars => IInv'
    BY StepInv
  <1>. QED  BY <1>1, <1>2, PTL DEF Spec

\* Whatever calls race with PUT, DELETE, enable and credential calls, a grant and
\* an account binding are only ever held for the destination the connection has
\* (triggers of migration 0009).
THEOREM AuthorityFollows == Spec => []AuthorityIsCurrent
  <1>1. IInv => AuthorityIsCurrent
    BY Zenon DEF IInv, Authority, AuthorityIsCurrent
  <1>. QED  BY <1>1, Invariant, PTL

\* However stale the catalog, a request is forwarded by a row no older than the
\* request, which its grant and its account were both given for (http_admissions,
\* admission::target).
THEOREM ForwardsFresh == Spec => []SentIsFresh
  <1>1. IInv => SentIsFresh
    <2>. SUFFICES ASSUME IInv, NEW r \in Request, step[r] = "sent"
                  PROVE  /\ req[r].row.write >= req[r].begin
                         /\ req[r].grant = req[r].row.epoch
                         /\ req[r].account = req[r].row.epoch
      BY Zenon DEF SentIsFresh
    <2>1. Sound(step[r], req[r])
      BY Zenon DEF IInv, Admission
    <2>. QED  BY <2>1 DEF Sound, Justified
  <1>. QED  BY <1>1, Invariant, PTL

\* A disabled connection comes back only through a call that asks for it, or that
\* writes back a row it read when there was none or an enabled one (op_put,
\* op_set_credential, op_enable).
THEOREM DisabledStays == Spec => DisabledUntilTold
  <1>. DEFINE Told ==
         \A c \in Conn :
           /\ reg[c] # None /\ reg[c].disabled
           /\ reg'[c] # None /\ ~reg'[c].disabled
           => \E w \in Writer :
                /\ pc[w] = "write" /\ pc'[w] = "list" /\ job[w].conn = c
                /\ job[w].op = "enable" \/ job[w].old = None \/ ~job[w].old.disabled
  <1>1. IInv /\ [Next]_vars => [Told]_vars
    <2>. SUFFICES ASSUME IInv, Next PROVE Told
      BY Zenon
    <2>1. ASSUME NEW w \in Writer, Write(w)
          PROVE  Told
      <3>1. pc[w] = "write" /\ pc'[w] = "list"
        BY <2>1 DEF Write, Goto, IInv, TypeOK
      <3>. QED  BY Zenon, <2>1, <3>1, StatementDoes
    <2>2. CASE reg' = reg
      BY Zenon, <2>2
    <2>3. reg' = reg \/ \E w \in Writer : Write(w)
      BY Zenon DEF Next, StartPut, Start, Operate, List, Publish, Abort, Allow, Bind,
                   Disallow, Unbind, Revoke, Authenticate, ReadAdmission, Decide,
                   Respond, Restart
    <2>. QED  BY Zenon, <2>1, <2>2, <2>3
  <1>. QED  BY <1>1, Invariant, PTL DEF Spec, DisabledUntilTold
=============================================================================
