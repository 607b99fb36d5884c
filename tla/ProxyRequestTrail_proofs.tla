---------------------- MODULE ProxyRequestTrail_proofs ----------------------
(***************************************************************************)
(* What a request shows and what it leaves behind: its steps are those of  *)
(* Gateway, its refusals are in the operational log, its rows in the       *)
(* journal.  Proved from the invariant of ProxyRequest_proofs, for any     *)
(* requests, settings, controls and bounds, with every fault and any       *)
(* number of restarts.                                                     *)
(***************************************************************************)
EXTENDS ProxyRequest_proofs

-----------------------------------------------------------------------------
(***************************************************************************)
(* The handler implements Gateway.                                         *)
(***************************************************************************)

\* A step of Gateway, or none, for one request: its phase and outcome, before and
\* after.
Allowed(p, t, p2, t2) ==
    \/ p2 = p /\ t2 = t
    \/ p = "idle" /\ p2 = "open" /\ t2 = t
    \/ p = "open" /\ t = "nothing" /\ p2 \in {"rejected", "sent"} /\ t2 = t
    \/ p = "open" /\ t = "nothing" /\ p2 = p /\ t2 = "refused"
    \/ p = "sent" /\ t = "nothing" /\ p2 = p /\ t2 \in {"failed", "withheld", "relayed"}
    \/ p \in {"open", "sent"} /\ t # "nothing" /\ p2 = t /\ t2 = t
    \/ p \in {"open", "sent"} /\ p2 = "gone" /\ t2 = t

\* A step of one request is a step of Gateway.
LEMMA OneMoves ==
    ASSUME NEW r \in Req,
           \A q \in Req \ {r} : PhaseOf(q)' = PhaseOf(q) /\ ToldOf(q)' = ToldOf(q),
           Allowed(PhaseOf(r), ToldOf(r), PhaseOf(r)', ToldOf(r)')
    PROVE  [GW!Next]_(GW!vars)
<1>. DEFINE phase == [q \in Req |-> PhaseOf(q)]
            told == [q \in Req |-> ToldOf(q)]
            p == PhaseOf(r)
            t == ToldOf(r)
            p2 == PhaseOf(r)'
            t2 == ToldOf(r)'
<1>1. /\ phase' = [phase EXCEPT ![r] = p2] /\ told' = [told EXCEPT ![r] = t2]
      /\ phase[r] = p /\ told[r] = t
  BY Zenon
<1>2. (p2 = p => phase' = phase) /\ (t2 = t => told' = told)
  BY <1>1, Zenon
<1>. HIDE DEF p, t, p2, t2, phase, told
<1>3. CASE p2 = p /\ t2 = t
  BY <1>2, <1>3, Zenon DEF GW!vars, phase, told
<1>4. CASE p = "idle" /\ p2 = "open" /\ t2 = t
  <2>1. GW!Arrive(r)
    BY <1>1, <1>2, <1>4, Zenon DEF GW!Arrive, phase, told
  <2>2. QED
    BY <2>1, Zenon DEF GW!Next
<1>5. CASE p = "open" /\ t = "nothing" /\ p2 \in {"rejected", "sent"} /\ t2 = t
  <2>1. GW!Reject(r) \/ GW!Send(r)
    BY Zenon, <1>1, <1>2, <1>5 DEF GW!Reject, GW!Send, phase, told
  <2>2. QED
    BY <2>1, Zenon DEF GW!Next
<1>6. CASE \/ p = "open" /\ t = "nothing" /\ p2 = p /\ t2 = "refused"
           \/ p = "sent" /\ t = "nothing" /\ p2 = p /\ t2 \in {"failed", "withheld", "relayed"}
  <2>1. GW!Tell(r, t2) /\ t2 \in GW!Early \cup GW!Late
    BY <1>1, <1>2, <1>6, Zenon DEF GW!Tell, GW!Early, GW!Late, phase, told
  <2>2. QED
    BY <2>1, Zenon DEF GW!Next
<1>7. CASE p \in {"open", "sent"} /\ t # "nothing" /\ p2 = t /\ t2 = t
  <2>1. GW!Answer(r)
    BY <1>1, <1>2, <1>7, Zenon DEF GW!Answer, GW!Pending, phase, told
  <2>2. QED
    BY <2>1, Zenon DEF GW!Next
<1>8. CASE p \in {"open", "sent"} /\ p2 = "gone" /\ t2 = t
  <2>1. GW!Abandon({r})
    BY <1>1, <1>2, <1>8, Zenon DEF GW!Abandon, GW!Pending, phase, told
  <2>2. {r} \in (SUBSET Req) \ {{}}
    <3>1. r \in {r}
      BY Zenon
    <3>2. {r} # {}
      BY <3>1, Zenon
    <3>3. QED
      BY <3>2, Zenon
  <2>3. QED
    BY <2>1, <2>2, Zenon DEF GW!Next
<1>9. QED
  BY <1>3, <1>4, <1>5, <1>6, <1>7, <1>8 DEF Allowed, p, t, p2, t2

\* Nothing a request shows changes.
LEMMA ShowsNothing ==
    ASSUME NEW q \in Req, pc'[q] = pc[q], plan'[q].end = plan[q].end,
           job'[q].wire = job[q].wire
    PROVE  PhaseOf(q)' = PhaseOf(q) /\ ToldOf(q)' = ToldOf(q)
  BY Zenon DEF PhaseOf, ToldOf

\* Before an outcome is settled: the call upstream is the only thing that shows.
LEMMA EarlyShows ==
    ASSUME IInv, IInv', NEW r \in Req,
           \A q \in Req \ {r} : pc'[q] = pc[q] /\ plan'[q] = plan[q] /\ job'[q] = job[q],
           pc[r] \in Early \cup Sent, pc'[r] \in (Early \cup Sent) \ {"idle"},
           pc[r] \in Sent => pc'[r] \in Sent, pc[r] = "idle" => pc'[r] \notin Sent
    PROVE  [GW!Next]_(GW!vars)
<1>1. Handler(pc[r], plan[r], job[r]) /\ Handler(pc'[r], plan'[r], job'[r])
  BY Zenon DEF IInv, Handlers
<1>2. plan[r] = NoPlan /\ plan'[r] = NoPlan
  BY <1>1, Zenon DEF Handler
<1>3. ToldOf(r) = "nothing" /\ ToldOf(r)' = "nothing"
  BY <1>2 DEF ToldOf, NoPlan
<1>4. /\ job[r].wire # None <=> pc[r] \in Sent
      /\ job'[r].wire # None <=> pc'[r] \in Sent
  BY <1>1, Zenon DEF Handler
<1>5. NoPlan.end \notin Called
  BY Zenon DEF NoPlan, Called
<1>6. /\ pc[r] = "idle" => PhaseOf(r) = "idle"
      /\ pc[r] \in Sent => PhaseOf(r) = "sent"
      /\ pc[r] \in Early \ {"idle"} => PhaseOf(r) = "open"
  BY <1>2, <1>4, <1>5, Zenon DEF PhaseOf, Shown, Early, Sent, Handling, Awaiting
<1>7. /\ pc'[r] \in Sent => PhaseOf(r)' = "sent"
      /\ pc'[r] \in Early \ {"idle"} => PhaseOf(r)' = "open"
  BY <1>2, <1>4, <1>5, Zenon DEF PhaseOf, Early, Sent, Handling, Awaiting
<1>8. Allowed(PhaseOf(r), ToldOf(r), PhaseOf(r)', ToldOf(r)')
  BY <1>3, <1>6, <1>7, Zenon DEF Allowed, Early, Sent
<1>9. QED
  BY <1>8, ShowsNothing, OneMoves, Zenon

\* An outcome is settled, which fits whether the upstream was called.
LEMMA ConcludeShows ==
    ASSUME IInv, IInv', NEW r \in Req, pc[r] \in (Early \cup Sent) \ {"idle"},
           NEW rows, NEW log, NEW end, Conclude(r, rows, log, end),
           pc[r] \in Sent => end \in Called, pc[r] \notin Sent => end \in {"rejected", "refused"}
    PROVE  [GW!Next]_(GW!vars)
<1>1. /\ pc \in [Req -> PC] /\ plan \in [Req -> Plan] /\ job \in [Req -> Job]
      /\ Handler(pc[r], plan[r], job[r])
  BY Types, Zenon DEF IInv, Handlers
<1>2. /\ pc'[r] = "row" /\ plan'[r].end = end /\ job'[r] = NoJob
      /\ \A q \in Req \ {r} : pc'[q] = pc[q] /\ plan'[q] = plan[q] /\ job'[q] = job[q]
  BY <1>1, Zenon DEF Conclude, Goto
<1>3. plan[r] = NoPlan /\ (job[r].wire # None <=> pc[r] \in Sent)
  BY <1>1, Zenon DEF Handler
<1>4. ToldOf(r) = "nothing" /\ NoPlan.end \notin Called
  BY <1>3 DEF ToldOf, NoPlan, Called
<1>5. /\ pc[r] \in Sent => PhaseOf(r) = "sent"
      /\ pc[r] \notin Sent => PhaseOf(r) = "open"
  BY <1>3, <1>4, Zenon DEF PhaseOf, Early, Sent, Handling, Awaiting
<1>6. /\ job'[r].wire = None /\ "row" \in Handling
  BY <1>2 DEF NoJob, Handling, Awaiting
<1>7. /\ end \in Called => PhaseOf(r)' = "sent"
      /\ end \notin Called => PhaseOf(r)' = "open"
  BY <1>2, <1>6, Zenon DEF PhaseOf
<1>8. /\ end = "rejected" => ToldOf(r)' = "nothing"
      /\ end = "refused" => ToldOf(r)' = "refused"
      /\ end \in Called => ToldOf(r)' \in {"failed", "withheld", "relayed"}
  BY <1>2, Zenon DEF ToldOf, Shown, Called
<1>9. "rejected" \notin Called /\ "refused" \notin Called
  BY Zenon DEF Called
<1>10. Allowed(PhaseOf(r), ToldOf(r), PhaseOf(r)', ToldOf(r)')
  BY <1>4, <1>5, <1>7, <1>8, <1>9, Zenon DEF Allowed
<1>11. QED
  BY <1>2, <1>10, ShowsNothing, OneMoves, Zenon

\* The answer is the outcome that was settled.
LEMMA ProceedShows ==
    ASSUME IInv, NEW r \in Req, pc[r] \in {"row", "mirror"}, Proceed(r), UNCHANGED job
    PROVE  [GW!Next]_(GW!vars)
<1>1. /\ job[r] = NoJob /\ plan'[r].end = plan[r].end
      /\ pc'[r] = plan[r].end \/ pc'[r] = "row"
      /\ \A q \in Req \ {r} : pc'[q] = pc[q] /\ plan'[q] = plan[q] /\ job'[q] = job[q]
  BY ProceedDoes, Zenon DEF Only
<1>2. plan[r].end \in {"rejected", "refused", "failed", "withheld", "relayed", "stream"}
  BY Zenon DEF IInv, Handlers, Handler, Settling
<1>3. job[r].wire = None /\ pc[r] \in Handling /\ "row" \in Handling
  BY <1>1 DEF NoJob, Handling, Awaiting
<1>4. ToldOf(r)' = ToldOf(r)
  BY <1>1, Zenon DEF ToldOf
<1>5. /\ plan[r].end \in Called => PhaseOf(r) = "sent"
      /\ plan[r].end \notin Called => PhaseOf(r) = "open"
  BY <1>3, Zenon DEF PhaseOf
<1>6. CASE pc'[r] = "row"
  <2>1. PhaseOf(r)' = PhaseOf(r)
    BY <1>1, <1>3, <1>6, Zenon DEF PhaseOf
  <2>2. QED
    BY <1>1, <1>4, <2>1, ShowsNothing, OneMoves, Zenon DEF Allowed
<1>7. CASE pc'[r] = plan[r].end
  <2>1. PhaseOf(r)' = Shown(plan[r].end)
    <3>1. plan[r].end \notin Handling
      BY <1>2, Zenon DEF Handling, Awaiting
    <3>2. QED
      BY <1>7, <3>1, Zenon DEF PhaseOf
  <2>2. Allowed(PhaseOf(r), ToldOf(r), PhaseOf(r)', ToldOf(r)')
    BY <1>2, <1>4, <1>5, <2>1, Zenon DEF Allowed, ToldOf, Shown, Called
  <2>3. QED
    BY <1>1, <2>2, ShowsNothing, OneMoves, Zenon
<1>8. QED
  BY <1>1, <1>6, <1>7, Zenon

\* A step of proxy_handler up to the upstream is one of Gateway.
LEMMA HandleShows ==
    ASSUME IInv, IInv', NEW r \in Req, Handle(r)
    PROVE  [GW!Next]_(GW!vars)
<1>. DEFINE Rest == \A q \in Req \ {r} : pc'[q] = pc[q] /\ plan'[q] = plan[q] /\ job'[q] = job[q]
<1>1. /\ pc \in [Req -> PC] /\ plan \in [Req -> Plan] /\ job \in [Req -> Job]
      /\ Handler(pc[r], plan[r], job[r])
  BY Types, Zenon DEF IInv, Handlers
<1>2. CASE Accept(r)
  <2>1. Rest /\ pc[r] = "idle" /\ pc'[r] = "auth"
    BY <1>1, <1>2, Zenon DEF Accept, Goto
  <2>2. QED
    BY <2>1, EarlyShows, Zenon DEF Early, Sent
<1>3. CASE \/ CheckLists(r) /\ Goto(r, "admit") /\ UNCHANGED <<plan, job>>
           \/ Resolve(r) \/ ReadBody(r)
           \/ \E a \in Account, f \in Setting : Admit(r, a, f)
  <2>1. /\ \A q \in Req \ {r} : pc'[q] = pc[q] /\ plan'[q] = plan[q]
        /\ pc[r] \in {"auth", "admit", "resolve", "body"}
        /\ pc'[r] \in {"admit", "resolve", "body", "pool"}
    BY Zenon, <1>1, <1>3 DEF CheckLists, Resolve, ReadBody, Admit, Goto
  <2>2. \A q \in Req \ {r} : job'[q] = job[q]
    BY Zenon, <1>1, <1>3 DEF Resolve, ReadBody, Admit
  <2>3. QED
    BY <2>1, <2>2, EarlyShows DEF Early, Sent
<1>4. CASE LookUp(r) \/ Rebuild(r)
  <2>1. /\ \A q \in Req \ {r} : pc'[q] = pc[q] /\ plan'[q] = plan[q]
        /\ pc[r] \in {"pool", "rebuild"} /\ pc'[r] \in {"rebuild", "response"}
    BY <1>1, <1>4, Zenon DEF LookUp, Rebuild, Send, Goto
  <2>2. \A q \in Req \ {r} : job'[q] = job[q]
    BY <1>1, <1>4, Zenon DEF LookUp, Rebuild, Send
  <2>3. QED
    BY <2>1, <2>2, EarlyShows DEF Early, Sent
<1>5. CASE BadCertificate(r) \/ RejectedUnaudited(r)
  <2>1. Rest /\ pc[r] = "auth" /\ pc'[r] = "rejected" /\ plan'[r] = plan[r]
    BY <1>1, <1>5, Zenon DEF BadCertificate, RejectedUnaudited, Goto
  <2>2. plan[r] = NoPlan /\ job[r].wire = None
    BY <1>1, <2>1, Zenon DEF Handler, Early, Sent
  <2>3. /\ PhaseOf(r) = "open" /\ PhaseOf(r)' = "rejected"
        /\ ToldOf(r) = "nothing" /\ ToldOf(r)' = "nothing"
    BY <2>1, <2>2 DEF PhaseOf, ToldOf, Shown, NoPlan, Handling, Awaiting, Called
  <2>4. QED
    BY <2>1, <2>3, ShowsNothing, OneMoves, Zenon DEF Allowed
<1>6. CASE \E rows, log : \E end \in {"rejected", "refused"} :
             /\ pc[r] \in {"auth", "admit", "resolve", "body"}
             /\ Conclude(r, rows, log, end)
  <2>1. PICK rows, log, end : /\ end \in {"rejected", "refused"}
                              /\ pc[r] \in {"auth", "admit", "resolve", "body"}
                              /\ Conclude(r, rows, log, end)
    BY <1>6, Zenon
  <2>2. pc[r] \in (Early \cup Sent) \ {"idle"} /\ pc[r] \notin Sent
    BY <2>1, Zenon DEF Early, Sent
  <2>3. QED
    BY <2>1, <2>2, ConcludeShows, Zenon
<1>7. CASE \/ CheckLists(r) /\ Conclude(r, <<"denied">>, FALSE, "refused")
           \/ BadBearer(r) \/ Unresolved(r) \/ NoToken(r)
           \/ \E d \in {"denied", "error"} : NotAdmitted(r, d) \/ BadBody(r, d)
  <2>1. pc[r] \in {"auth", "admit", "resolve", "body"}
    BY <1>7, Zenon DEF CheckLists, BadBearer, Unresolved, NoToken, NotAdmitted, BadBody
  <2>2. "rejected" \in {"rejected", "refused"} /\ "refused" \in {"rejected", "refused"}
    BY Zenon
  <2>3. \E rows, log : \E end \in {"rejected", "refused"} : Conclude(r, rows, log, end)
    BY <1>7, <2>2, Zenon
      DEF CheckLists, BadBearer, Unresolved, NoToken, NotAdmitted, BadBody
  <2>4. QED
    BY <1>6, <2>1, <2>3, Zenon
<1>8. CheckLists(r) => \/ Goto(r, "admit") /\ UNCHANGED <<plan, job>>
                       \/ Conclude(r, <<"denied">>, FALSE, "refused")
  BY Zenon DEF CheckLists
<1>9. QED
  BY <1>2, <1>3, <1>4, <1>5, <1>7, <1>8, Zenon DEF Handle, Authenticate

\* A step from the upstream to the answer is one of Gateway.
LEMMA RespondShows ==
    ASSUME IInv, IInv', NEW r \in Req, Respond(r)
    PROVE  [GW!Next]_(GW!vars)
<1>1. /\ pc \in [Req -> PC] /\ plan \in [Req -> Plan] /\ job \in [Req -> Job]
      /\ Handler(pc[r], plan[r], job[r])
  BY Types, Zenon DEF IInv, Handlers
<1>2. CASE Buffer(r)
  <2>1. /\ \A q \in Req \ {r} : pc'[q] = pc[q] /\ plan'[q] = plan[q] /\ job'[q] = job[q]
        /\ pc[r] = "response" /\ pc'[r] = "buffer"
    BY <1>1, <1>2, Zenon DEF Buffer, Goto
  <2>2. QED
    BY <2>1, EarlyShows, Zenon DEF Early, Sent
<1>3. CASE \E rows, log : \E end \in Called :
             pc[r] \in {"response", "buffer"} /\ Conclude(r, rows, log, end)
  <2>1. PICK rows, log, end : /\ end \in Called
                              /\ pc[r] \in {"response", "buffer"}
                              /\ Conclude(r, rows, log, end)
    BY <1>3, Zenon
  <2>2. pc[r] \in (Early \cup Sent) \ {"idle"} /\ pc[r] \in Sent
    BY <2>1, Zenon DEF Early, Sent
  <2>3. QED
    BY <2>1, <2>2, ConcludeShows, Zenon
<1>4. CASE \/ NoResponse(r) \/ Disallowed(r) \/ BufferFails(r) \/ TooLarge(r)
           \/ \E d \in Passed : StartStream(r, d)
           \/ \E rows \in PassedRows : Buffered(r, rows)
  <2>1. pc[r] \in {"response", "buffer"}
    BY <1>4, Zenon
    DEF NoResponse, Disallowed, BufferFails, TooLarge, StartStream, Buffered
  <2>2. /\ "failed" \in Called /\ "withheld" \in Called /\ "stream" \in Called
        /\ "relayed" \in Called
    BY Zenon DEF Called
  <2>3. \E rows, log : \E end \in Called : Conclude(r, rows, log, end)
    BY <1>4, <2>2, Zenon
    DEF NoResponse, Disallowed, BufferFails, TooLarge, StartStream, Buffered
  <2>4. QED
    BY <1>3, <2>1, <2>3, Zenon
<1>5. CASE WriteRow(r) \/ Mirror(r)
  <2>1. UNCHANGED job
    BY <1>5, Zenon DEF WriteRow, Mirror
  <2>2. CASE pc[r] \in {"row", "mirror"} /\ Proceed(r)
    BY <2>1, <2>2, ProceedShows, Zenon
  <2>3. CASE pc[r] = "row" /\ Goto(r, "mirror") /\ UNCHANGED plan
    <3>1. /\ pc'[r] = "mirror" /\ plan'[r] = plan[r] /\ job'[r] = job[r]
          /\ \A q \in Req \ {r} : pc'[q] = pc[q] /\ plan'[q] = plan[q] /\ job'[q] = job[q]
      BY <1>1, <2>1, <2>3, Zenon DEF Goto
    <3>2. PhaseOf(r)' = PhaseOf(r) /\ ToldOf(r)' = ToldOf(r)
      BY <2>3, <3>1, Zenon DEF PhaseOf, ToldOf, Handling, Awaiting
    <3>3. QED
      BY <3>1, <3>2, ShowsNothing, OneMoves, Zenon DEF Allowed
  <2>4. \/ pc[r] \in {"row", "mirror"} /\ Proceed(r)
        \/ pc[r] = "row" /\ Goto(r, "mirror") /\ UNCHANGED plan
    <3>1. CASE WriteRow(r)
      BY <3>1, Zenon DEF WriteRow
    <3>2. CASE Mirror(r)
      BY <3>2, Zenon DEF Mirror
    <3>3. QED
      BY <1>5, <3>1, <3>2, Zenon
  <2>5. QED
    BY <2>2, <2>3, <2>4, Zenon
<1>6. CASE EndStream(r) \/ \E n \in 0..MaxChunk : Chunk(r, n)
  <2>1. /\ \A q \in Req \ {r} : pc'[q] = pc[q] /\ plan'[q] = plan[q]
        /\ plan'[r] = plan[r] /\ pc[r] = "stream" /\ pc'[r] \in {"stream", "relayed"}
    BY Zenon, <1>1, <1>6 DEF EndStream, Chunk, Goto
  <2>2. \A q \in Req \ {r} : job'[q] = job[q]
    BY Zenon, <1>1, <1>6 DEF EndStream, Chunk
  <2>3. PhaseOf(r)' = PhaseOf(r) /\ ToldOf(r)' = ToldOf(r)
    BY <2>1, Zenon DEF PhaseOf, ToldOf, Shown, Handling, Awaiting
  <2>4. QED
    BY <2>1, <2>2, <2>3, ShowsNothing, OneMoves, Zenon DEF Allowed
<1>7. QED
  BY <1>2, <1>4, <1>5, <1>6, Zenon DEF Respond

\* A hang-up abandons a request that is pending.
LEMMA HangUpShows ==
    ASSUME IInv, NEW r \in Req, HangUp(r)
    PROVE  [GW!Next]_(GW!vars)
<1>1. /\ pc \in [Req -> PC] /\ plan \in [Req -> Plan] /\ job \in [Req -> Job]
  BY Types, Zenon
<1>2. /\ \A q \in Req \ {r} : pc'[q] = pc[q] /\ plan'[q] = plan[q] /\ job'[q] = job[q]
      /\ pc'[r] = "gone" /\ pc[r] \in Handling /\ plan'[r] = Abandoned(plan[r])
  BY <1>1, Zenon DEF HangUp, Goto, Handling
<1>3. plan'[r].end = plan[r].end
  BY <1>1, <1>2, AbandonedType, Zenon
<1>4. /\ PhaseOf(r) \in {"open", "sent"} /\ PhaseOf(r)' = "gone" /\ ToldOf(r)' = ToldOf(r)
  BY <1>2, <1>3, Zenon DEF PhaseOf, ToldOf, Shown, Handling, Awaiting
<1>5. QED
  BY <1>2, <1>4, ShowsNothing, OneMoves, Zenon DEF Allowed

\* A restart abandons all that are pending.
LEMMA RestartShows ==
    ASSUME IInv, Restart
    PROVE  [GW!Next]_(GW!vars)
<1>. DEFINE phase == [q \in Req |-> PhaseOf(q)]
            told == [q \in Req |-> ToldOf(q)]
            R == {q \in Req : pc[q] \in Handling}
<1>1. pc \in [Req -> PC] /\ plan \in [Req -> Plan]
  BY Types, Zenon
<1>2. ASSUME NEW q \in Req
      PROVE  /\ ToldOf(q)' = ToldOf(q)
             /\ PhaseOf(q)' = IF q \in R THEN "gone" ELSE PhaseOf(q)
             /\ q \in R => PhaseOf(q) \in {"open", "sent"}
  <2>1. /\ pc'[q] = IF pc[q] \in Handling THEN "gone"
                    ELSE IF pc[q] = "stream" THEN "relayed" ELSE pc[q]
        /\ plan'[q] = IF pc[q] \in Handling THEN Abandoned(plan[q]) ELSE plan[q]
    BY Zenon DEF Restart
  <2>2. plan'[q].end = plan[q].end
    BY <1>1, <2>1, AbandonedType, Zenon
  <2>3. "gone" \notin Handling /\ "stream" \notin Handling /\ "relayed" \notin Handling
    BY Zenon DEF Handling, Awaiting
  <2>4. QED
    BY <2>1, <2>2, <2>3, Zenon DEF PhaseOf, ToldOf, Shown
<1>3. told' = told /\ phase' = [q \in Req |-> IF q \in R THEN "gone" ELSE phase[q]]
  BY <1>2, Zenon
<1>4. \A q \in R : phase[q] \in {"open", "sent"}
  BY <1>2, Zenon
<1>5. R \subseteq Req
  BY Zenon
<1>. HIDE DEF R, phase, told
<1>6. CASE R = {}
  <2>1. phase' = [q \in Req |-> phase[q]]
    BY <1>3, <1>6, Zenon
  <2>2. phase' = phase
    BY <2>1, Zenon DEF phase
  <2>3. QED
    BY <1>3, <2>2, Zenon DEF GW!vars, phase, told
<1>7. CASE R # {}
  <2>1. GW!Abandon(R)
    BY <1>3, <1>4, Zenon DEF GW!Abandon, GW!Pending, phase, told
  <2>2. R \in (SUBSET Req) \ {{}}
    BY <1>5, <1>7, Zenon
  <2>3. QED
    BY <2>1, <2>2, Zenon DEF GW!Next
<1>8. QED
  BY <1>6, <1>7, Zenon

\* Steps that concern no request show nothing.
LEMMA QuietShows ==
    ASSUME UNCHANGED <<pc, plan, job>>
    PROVE  [GW!Next]_(GW!vars)
<1>1. \A q \in Req : PhaseOf(q)' = PhaseOf(q) /\ ToldOf(q)' = ToldOf(q)
  BY Zenon DEF PhaseOf, ToldOf
<1>2. QED
  BY <1>1, Zenon DEF GW!vars

\* The proxy keeps the promises of Gateway (ImplementsGateway): at most one call
\* upstream, never after the outcome is settled, and an answer that is the outcome,
\* for any number of requests, with hang-ups, failures and restarts.
THEOREM KeepsPromises == Spec => ImplementsGateway
<1>1. Init => GW!Init
  <2>1. SUFFICES ASSUME Init PROVE GW!Init
    BY Zenon
  <2>2. \A q \in Req : pc[q] = "idle" /\ plan[q] = NoPlan
    BY <2>1, Zenon DEF Init
  <2>3. \A q \in Req : PhaseOf(q) = "idle" /\ ToldOf(q) = "nothing"
    BY <2>2 DEF PhaseOf, ToldOf, Shown, NoPlan, Handling, Awaiting
  <2>4. QED
    BY <2>3, Zenon DEF GW!Init
<1>2. IInv /\ IInv' /\ [Next]_vars => [GW!Next]_(GW!vars)
  <2>1. SUFFICES ASSUME IInv, IInv', [Next]_vars PROVE [GW!Next]_(GW!vars)
    BY Zenon
  <2>2. CASE \E r \in Req : Handle(r) \/ Respond(r) \/ HangUp(r)
    BY <2>1, <2>2, HandleShows, RespondShows, HangUpShows, Zenon
  <2>3. CASE Restart
    BY <2>1, <2>3, RestartShows, Zenon
  <2>4. CASE (\E t \in spawned : TaskRow(t) \/ TaskMirror(t)) \/ Background \/ UNCHANGED vars
    <3>1. UNCHANGED <<pc, plan, job>>
      BY Zenon, <2>4 DEF TaskRow, TaskMirror, Background, vars
    <3>2. QED
      BY <3>1, QuietShows, Zenon
  <2>5. QED
    BY <2>1, <2>2, <2>3, <2>4, Zenon DEF Next
<1>3. QED
  BY <1>1, <1>2, Invariant, PTL DEF Spec, GW!Spec, ImplementsGateway

-----------------------------------------------------------------------------
(***************************************************************************)
(* What steps do to the log.                                               *)
(***************************************************************************)

Refusals == {r \in Req : pc[r] = "refused" /\ plan[r].log}

\* The set of refusals is that of the requests refused and to be logged.
LEMMA RefusalsAre ==
    /\ \A q : q \in Refusals <=> q \in Req /\ pc[q] = "refused" /\ plan[q].log
    /\ \A q : q \in Refusals' <=> q \in Req /\ pc'[q] = "refused" /\ plan'[q].log
  BY Zenon DEF Refusals

\* Refusals are the same if no request becomes one or ceases to be one.
LEMMA RefusalsSame ==
    ASSUME \A q \in Req : (pc'[q] = "refused" /\ plan'[q].log)
                           <=> (pc[q] = "refused" /\ plan[q].log)
    PROVE  Refusals' = Refusals
  BY Zenon DEF Refusals

\* What a handler does before its rows leaves the log and the refusals alone.
LEMMA HandleLogs ==
    ASSUME IInv, NEW r \in Req, Handle(r)
    PROVE  UNCHANGED logVars /\ Refusals' = Refusals
<1>1. pc \in [Req -> PC] /\ plan \in [Req -> Plan]
  BY Types, Zenon
<1>2. UNCHANGED logVars
  BY Zenon DEF Handle, Authenticate, Accept, CheckLists, BadBearer, BadCertificate,
     RejectedUnaudited, NotAdmitted, BadBody, Admit, Unresolved, NoToken, Resolve, ReadBody,
     LookUp, Rebuild, shared
<1>3. \E l \in PC \ {"refused"} : Goto(r, l)
  BY Zenon DEF Handle, Authenticate, Accept, CheckLists, BadBearer, BadCertificate,
     RejectedUnaudited, NotAdmitted, BadBody, Admit, Unresolved, NoToken, Resolve, ReadBody,
     LookUp, Rebuild, Send, Conclude, PC, Handling, Awaiting, Outcome
<1>4. pc[r] # "refused" /\ \A q \in Req \ {r} : plan'[q] = plan[q]
  BY Zenon, <1>1 DEF Handle, Authenticate, Accept, CheckLists, BadBearer, BadCertificate,
     RejectedUnaudited, NotAdmitted, BadBody, Admit, Unresolved, NoToken, Resolve, ReadBody,
     LookUp, Rebuild, Conclude
<1>5. pc'[r] # "refused" /\ \A q \in Req \ {r} : pc'[q] = pc[q]
  BY <1>1, <1>3, Zenon DEF Goto
<1>6. QED
  BY <1>2, <1>4, <1>5, RefusalsSame, Zenon

\* A refusal is emitted when it is answered, and not before.
LEMMA ProceedLogs ==
    ASSUME IInv, NEW r \in Req, pc[r] \in {"row", "mirror"}, Proceed(r), UNCHANGED job
    PROVE  \/ UNCHANGED logVars /\ Refusals' = Refusals
           \/ Emit(r) /\ r \notin Refusals /\ Refusals' = Refusals \cup {r}
<1>1. /\ plan'[r].log = plan[r].log
      /\ \A q \in Req \ {r} : pc'[q] = pc[q] /\ plan'[q] = plan[q]
  BY ProceedDoes DEF Only
<1>2. /\ pc \in [Req -> PC] /\ Settling(plan[r]) /\ plan[r] \in Plan
  BY Types, Zenon DEF IInv, Handlers, Handler
<1>3. plan[r].log => plan[r].end = "refused"
  BY <1>2, Zenon DEF Settling
<1>4. pc[r] # "refused"
  BY Zenon
<1>5. CASE Len(plan[r].rows) > 1
  <2>1. Goto(r, "row") /\ UNCHANGED logVars
    BY <1>5, Zenon DEF Proceed
  <2>2. pc'[r] = "row"
    BY <1>2, <2>1, Zenon DEF Goto
  <2>3. QED
    BY <1>1, <1>4, <2>1, <2>2, RefusalsSame, Zenon
<1>6. CASE ~(Len(plan[r].rows) > 1)
  <2>1. /\ Goto(r, plan[r].end)
        /\ plan[r].log => Emit(r)
        /\ ~plan[r].log => UNCHANGED logVars
    BY <1>6, Zenon DEF Proceed
  <2>2. pc'[r] = plan[r].end
    BY <1>2, <2>1, Zenon DEF Goto
  <2>3. CASE plan[r].log
    <3>1. r \notin Refusals /\ \A q : q \in Refusals' <=> q \in Refusals \/ q = r
      BY Zenon, <1>1, <1>3, <1>4, <2>2, <2>3, RefusalsAre
    <3>2. QED
      BY <2>1, <2>3, <3>1, Zenon
  <2>4. CASE ~plan[r].log
    BY <1>1, <1>4, <2>1, <2>4, RefusalsSame, Zenon
  <2>5. QED
    BY <2>3, <2>4, Zenon
<1>7. QED
  BY <1>5, <1>6, Zenon

\* From the upstream to the answer.
LEMMA RespondLogs ==
    ASSUME IInv, NEW r \in Req, Respond(r)
    PROVE  \/ UNCHANGED logVars /\ Refusals' = Refusals
           \/ Emit(r) /\ r \notin Refusals /\ Refusals' = Refusals \cup {r}
<1>1. pc \in [Req -> PC] /\ plan \in [Req -> Plan]
  BY Types, Zenon
<1>2. CASE \/ NoResponse(r) \/ Disallowed(r) \/ BufferFails(r) \/ TooLarge(r) \/ Buffer(r)
           \/ \E d \in Passed : StartStream(r, d)
           \/ \E rows \in PassedRows : Buffered(r, rows)
           \/ EndStream(r)
           \/ \E n \in 0..MaxChunk : Chunk(r, n)
  <2>1. UNCHANGED logVars
    BY Zenon, <1>2
      DEF NoResponse, Disallowed, BufferFails, TooLarge, Buffer, StartStream, Buffered,
       EndStream, Chunk, shared
  <2>2. pc[r] # "refused" /\ \A q \in Req \ {r} : plan'[q] = plan[q]
    BY Zenon, <1>1, <1>2
      DEF NoResponse, Disallowed, BufferFails, TooLarge, Buffer, StartStream,
       Buffered, EndStream, Chunk, Conclude
  <2>3. pc' = pc \/ \E l \in PC \ {"refused"} : Goto(r, l)
    BY Zenon, <1>2 DEF NoResponse, Disallowed, BufferFails, TooLarge, Buffer, StartStream,
       Buffered, EndStream, Chunk, Conclude, PC, Handling, Awaiting, Outcome
  <2>4. pc'[r] # "refused" /\ \A q \in Req \ {r} : pc'[q] = pc[q]
    BY <1>1, <2>2, <2>3, Zenon DEF Goto
  <2>5. QED
    BY <2>1, <2>2, <2>4, RefusalsSame, Zenon
<1>3. CASE WriteRow(r) \/ Mirror(r)
  <2>1. UNCHANGED job
    BY <1>3, Zenon DEF WriteRow, Mirror
  <2>2. CASE pc[r] \in {"row", "mirror"} /\ Proceed(r)
    BY <2>1, <2>2, ProceedLogs, Zenon
  <2>3. CASE pc[r] = "row" /\ Goto(r, "mirror") /\ UNCHANGED <<logVars, plan>>
    <3>1. pc'[r] = "mirror" /\ \A q \in Req \ {r} : pc'[q] = pc[q]
      BY <1>1, <2>3, Zenon DEF Goto
    <3>2. QED
      BY <2>3, <3>1, RefusalsSame, Zenon
  <2>4. \/ pc[r] \in {"row", "mirror"} /\ Proceed(r)
        \/ pc[r] = "row" /\ Goto(r, "mirror") /\ UNCHANGED <<logVars, plan>>
    <3>1. CASE WriteRow(r)
      BY <3>1, Zenon DEF WriteRow
    <3>2. CASE Mirror(r)
      BY <3>2, Zenon DEF Mirror
    <3>3. QED
      BY <1>3, <3>1, <3>2, Zenon
  <2>5. QED
    BY <2>2, <2>3, <2>4, Zenon
<1>4. QED
  BY <1>2, <1>3, Zenon DEF Respond

\* A hang-up leaves the log and the refusals alone.
LEMMA HangUpLogs ==
    ASSUME IInv, NEW r \in Req, HangUp(r)
    PROVE  UNCHANGED logVars /\ Refusals' = Refusals
<1>1. pc \in [Req -> PC] /\ plan \in [Req -> Plan]
  BY Types, Zenon
<1>2. /\ UNCHANGED logVars
      /\ \A q \in Req \ {r} : pc'[q] = pc[q] /\ plan'[q] = plan[q]
      /\ pc'[r] = "gone" /\ pc[r] # "refused"
  BY <1>1, Zenon DEF HangUp, Goto, Awaiting, shared
<1>3. QED
  BY <1>2, RefusalsSame, Zenon

\* A restart loses what is queued; what was refused stays refused.
LEMMA RestartLogs ==
    ASSUME IInv, Restart
    PROVE  LoseChannel /\ Refusals' = Refusals
<1>1. ASSUME NEW q \in Req
      PROVE  (pc'[q] = "refused" /\ plan'[q].log) <=> (pc[q] = "refused" /\ plan[q].log)
  <2>1. /\ pc'[q] = IF pc[q] \in Handling THEN "gone"
                    ELSE IF pc[q] = "stream" THEN "relayed" ELSE pc[q]
        /\ plan'[q] = IF pc[q] \in Handling THEN Abandoned(plan[q]) ELSE plan[q]
    BY Zenon DEF Restart
  <2>2. "refused" \notin Handling
    BY Zenon DEF Handling, Awaiting
  <2>3. QED
    BY <2>1, <2>2, Zenon
<1>2. LoseChannel
  BY Zenon DEF Restart
<1>3. QED
  BY <1>1, <1>2, RefusalsSame, Zenon

\* What a step does to the log goes with what it does to the refusals.
LEMMA LogSteps ==
    ASSUME IInv, [Next]_vars
    PROVE  \/ UNCHANGED logVars /\ Refusals' = Refusals
           \/ \E r \in Req : Emit(r) /\ r \notin Refusals /\ Refusals' = Refusals \cup {r}
           \/ (Take \/ LoseChannel \/ \E ok \in BOOLEAN : Store(ok)) /\ Refusals' = Refusals
<1>1. CASE UNCHANGED vars
  <2>1. UNCHANGED logVars /\ UNCHANGED <<pc, plan>>
    BY <1>1, Zenon DEF vars, shared
  <2>2. QED
    BY <2>1, RefusalsSame, Zenon
<1>2. CASE \E r \in Req : Handle(r) \/ Respond(r) \/ HangUp(r)
  BY <1>2, HandleLogs, RespondLogs, HangUpLogs, Zenon
<1>3. CASE \E t \in spawned : TaskRow(t) \/ TaskMirror(t)
  <2>1. UNCHANGED logVars /\ UNCHANGED <<pc, plan>>
    BY <1>3, Zenon DEF TaskRow, TaskMirror
  <2>2. QED
    BY <2>1, RefusalsSame, Zenon
<1>4. CASE Background
  <2>1. /\ UNCHANGED <<pc, plan>>
        /\ UNCHANGED logVars \/ Take \/ \E ok \in BOOLEAN : Store(ok)
    BY Zenon, <1>4 DEF Background
  <2>2. Refusals' = Refusals
    BY <2>1, RefusalsSame, Zenon
  <2>3. QED
    BY <2>1, <2>2, Zenon
<1>5. CASE Restart
  BY <1>5, RestartLogs, Zenon
<1>6. QED
  BY <1>1, <1>2, <1>3, <1>4, <1>5, Zenon DEF Next

-----------------------------------------------------------------------------
(***************************************************************************)
(* What steps do to the journal.                                           *)
(***************************************************************************)

\* Files are pruned, and a day has more indexes than there can be files.
Spacious == KeepFiles > 0 /\ KeepFiles + MaxRestarts <= MaxIndex

JournalInv ==
    /\ Journal(sink)
    /\ \A e \in Event : fate[e] # "lost"
    /\ Len(sink.files) <= KeepFiles + restarts

\* What a step does to the journal
LEMMA JournalSteps ==
    ASSUME IInv, [Next]_vars
    PROVE  \/ /\ UNCHANGED <<sink, restarts>>
              /\ \A x \in Event : fate'[x] \in {fate[x], "inserted", "failed"}
           \/ /\ \E e \in Event, fails \in Failures : fate[e] = "inserted" /\ MirrorRow(e, fails)
              /\ UNCHANGED restarts
           \/ Restart
<1>1. fate \in [Event -> Fates]
  BY Types, Zenon DEF Trail, TrailTypeOK
<1>2. CASE UNCHANGED <<trailVars, restarts>>
  BY <1>2, Zenon DEF trailVars
<1>3. ASSUME NEW e, InsertRow(e) \/ InsertFails(e), UNCHANGED restarts
      PROVE  /\ UNCHANGED <<sink, restarts>>
             /\ \A x \in Event : fate'[x] \in {fate[x], "inserted", "failed"}
  BY <1>1, <1>3, Zenon DEF InsertRow, InsertFails
<1>4. CASE UNCHANGED vars
  <2>1. UNCHANGED <<trailVars, restarts>>
    BY <1>4, Zenon DEF vars, shared
  <2>2. QED
    BY <1>2, <2>1, Zenon
<1>5. ASSUME NEW r \in Req, Handle(r)
      PROVE  UNCHANGED <<trailVars, restarts>>
  BY <1>5, Zenon DEF Handle, Authenticate, Accept, CheckLists, BadBearer, BadCertificate,
     RejectedUnaudited, NotAdmitted, BadBody, Admit, Unresolved, NoToken, Resolve, ReadBody,
     LookUp, Rebuild, shared
<1>6. ASSUME NEW r \in Req, HangUp(r)
      PROVE  UNCHANGED <<trailVars, restarts>>
  BY <1>6, Zenon DEF HangUp, shared
<1>7. ASSUME NEW r \in Req, Respond(r), ~WriteRow(r), ~Mirror(r)
      PROVE  UNCHANGED <<trailVars, restarts>>
  BY <1>7, Zenon DEF Respond, NoResponse, Disallowed, BufferFails, TooLarge, Buffer,
     StartStream, Buffered, EndStream, Chunk, shared
<1>8. ASSUME NEW r \in Req, WriteRow(r)
      PROVE  \/ UNCHANGED <<trailVars, restarts>>
             \/ (InsertRow(Current(r)) \/ InsertFails(Current(r))) /\ UNCHANGED restarts
  BY <1>8, Zenon DEF WriteRow
<1>9. ASSUME NEW r \in Req, Mirror(r)
      PROVE  /\ \E e \in Event, fails \in Failures : fate[e] = "inserted" /\ MirrorRow(e, fails)
             /\ UNCHANGED restarts
  <2>1. /\ pc[r] = "mirror" /\ UNCHANGED restarts /\ plan \in [Req -> Plan]
        /\ Handler(pc[r], plan[r], job[r]) /\ Recorded(r)
    BY <1>9, Types, Zenon DEF Mirror, IInv, Handlers, Records
  <2>2. Head(plan[r].rows) \in Verdict \cup {"redaction"}
    BY <2>1, HeadIs, Zenon DEF Handler
  <2>3. Current(r) \in Event /\ fate[Current(r)] = "inserted"
    BY <2>1, <2>2, Events DEF Verdict, Decision, Current, Recorded
  <2>4. \E fails \in Failures : MirrorRow(Current(r), fails)
    BY <1>9, Zenon DEF Mirror
  <2>5. QED
    BY <2>1, <2>3, <2>4, Zenon
<1>10. ASSUME NEW t \in spawned, TaskRow(t)
       PROVE  (InsertRow(t.event) \/ InsertFails(t.event)) /\ UNCHANGED restarts
  BY <1>10, Zenon DEF TaskRow
<1>11. ASSUME NEW t \in spawned, TaskMirror(t)
       PROVE  /\ \E e \in Event, fails \in Failures : fate[e] = "inserted" /\ MirrorRow(e, fails)
              /\ UNCHANGED restarts
  <2>1. t.event \in Event /\ fate[t.event] = "inserted" /\ UNCHANGED restarts
    BY <1>11, Types, Zenon DEF TaskMirror, IInv, Tasks, TaskOK, Task
  <2>2. \E fails \in Failures : MirrorRow(t.event, fails)
    BY <1>11, Zenon DEF TaskMirror
  <2>3. QED
    BY <2>1, <2>2, Zenon
<1>12. CASE Background
  <2>1. UNCHANGED <<sink, restarts, fate>>
    BY <1>12, Zenon DEF Background, SweepRows, NextDay, trailVars
  <2>2. QED
    BY <2>1, Zenon
<1>13. QED
  BY <1>2, <1>3, <1>4, <1>5, <1>6, <1>7, <1>8, <1>9, <1>10, <1>11, <1>12, Zenon DEF Next

\* The journal of a first start has one empty file.
LEMMA InitJournal ==
    ASSUME Spacious, Init
    PROVE  JournalInv
<1>1. /\ today \in 0..MaxDay /\ sink = OpenSink(<<>>) /\ restarts = 0
      /\ \A e \in Event : fate[e] = "none"
  BY TrailAssumption DEF Init, TrailInit
<1>2. PICK fs \in Seq(File) : fs = <<>>
  <2>1. <<>> \in Seq(File)
    OBVIOUS
  <2>2. QED
    BY <2>1, Zenon
<1>3. SoundFiles(fs) /\ Len(fs) = 0
  BY <1>2 DEF SoundFiles
<1>4. Journal(OpenSink(fs)) /\ Len(OpenSink(fs).files) <= Len(fs) + 1
  BY <1>1, <1>3, OpenSinkSound, Zenon
<1>5. OpenSink(fs) \in Sink
  BY <1>1, OpenSinkDoes, Zenon
<1>6. Len(OpenSink(fs).files) \in Nat /\ Len(OpenSink(fs).files) <= KeepFiles + restarts
  BY <1>1, <1>3, <1>4, <1>5, TrailAssumption DEF Spacious, Sink
<1>7. QED
  BY <1>1, <1>2, <1>4, <1>6, Zenon DEF JournalInv

\* Every step keeps the journal sound.
LEMMA StepJournal ==
    ASSUME TargetsAreFree, Spacious, IInv, JournalInv, [Next]_vars
    PROVE  JournalInv'
<1>1. /\ sink \in Sink /\ sink.files \in Seq(File) /\ today \in 0..MaxDay /\ Lined
      /\ restarts \in 0..MaxRestarts /\ MaxRestarts \in Nat /\ KeepFiles \in Nat /\ MaxIndex \in Nat
  BY Types, TrailAssumption, ProxyAssumption, Zenon
    DEF Trail, TrailTypeOK, IInv, TypeOK, Sink
<1>2. CASE /\ UNCHANGED <<sink, restarts>>
           /\ \A x \in Event : fate'[x] \in {fate[x], "inserted", "failed"}
  <2>1. Journal(sink)' /\ Len(sink.files)' <= KeepFiles + restarts'
    BY <1>2, Zenon DEF JournalInv
  <2>2. \A x \in Event : fate'[x] # "lost"
    BY <1>2, Zenon DEF JournalInv
  <2>3. QED
    BY <2>1, <2>2, Zenon DEF JournalInv
<1>3. ASSUME NEW e \in Event, NEW fails \in Failures, fate[e] = "inserted", MirrorRow(e, fails),
             UNCHANGED restarts
      PROVE  JournalInv'
  <2>1. PICK t : t = AppendLine(sink, e, fails)
    BY Zenon
  <2>2. /\ sink' = t
        /\ \A x \in Event : fate'[x] = IF x \in Lines(t) THEN "lined"
                                       ELSE IF x = e /\ t.file # None THEN "lost"
                                       ELSE IF fate[x] = "lined" THEN "inserted" ELSE fate[x]
    BY <1>3, <2>1, Zenon DEF MirrorRow
  <2>3. PICK b \in Nat : b = KeepFiles + restarts
    BY <1>1
  <2>4. /\ KeepFiles <= b /\ b <= MaxIndex /\ Len(sink.files) <= b
        /\ Journal(sink) /\ e \notin Lines(sink)
    BY <1>1, <1>3, <2>3 DEF JournalInv, Spacious, Lined
  <2>5. Journal(t) /\ Len(t.files) <= b /\ (t.file # None => e \in Lines(t))
    BY <1>1, <2>1, <2>3, <2>4, AppendSound, Zenon DEF Spacious
  <2>6. \A x \in Event : fate'[x] # "lost"
    BY <2>2, <2>5, Zenon DEF JournalInv
  <2>7. QED
    BY <1>3, <2>2, <2>3, <2>5, <2>6, Zenon DEF JournalInv
<1>4. CASE Restart
  <2>1. sink' = OpenSink(sink.files) /\ restarts' = restarts + 1 /\ fate' = fate
    BY <1>4, Zenon DEF Restart
  <2>2. PICK fs \in Seq(File) : fs = sink.files
    BY <1>1, Zenon
  <2>3. SoundFiles(fs) /\ Len(fs) <= KeepFiles + restarts
    BY <2>2, Zenon DEF JournalInv, Journal
  <2>4. Journal(OpenSink(fs)) /\ Len(OpenSink(fs).files) <= Len(fs) + 1
    BY <1>1, <2>3, OpenSinkSound, Zenon
  <2>5. Len(OpenSink(fs).files) \in Nat /\ Len(fs) \in Nat
    <3>1. OpenSink(fs) \in Sink
      BY <1>1, OpenSinkDoes, Zenon
    <3>2. QED
      BY <3>1 DEF Sink
  <2>6. Len(OpenSink(fs).files) <= KeepFiles + restarts'
    BY <1>1, <2>1, <2>3, <2>4, <2>5
  <2>7. QED
    BY <2>1, <2>2, <2>4, <2>6, Zenon DEF JournalInv
<1>5. QED
  BY <1>2, <1>3, <1>4, JournalSteps, Zenon

-----------------------------------------------------------------------------
(***************************************************************************)
(* Finite sets.                                                            *)
(***************************************************************************)

FST == INSTANCE FiniteSetTheorems

WFI == INSTANCE WellFoundedInduction

\* The theorems of FST are about the operators of FiniteSets.
LEMMA SameSets ==
    /\ \A S : FST!IsFiniteSet(S) <=> IsFiniteSet(S)
    /\ \A S : FST!Cardinality(S) = Cardinality(S)
<1>1. \A S : FST!IsFiniteSet(S) <=> IsFiniteSet(S)
  BY Zenon DEF FST!IsFiniteSet, IsFiniteSet
<1>2. \A S : FST!Cardinality(S) = Cardinality(S)
  BY Zenon DEF FST!Cardinality, Cardinality, FST!IsFiniteSet, IsFiniteSet
<1>3. QED
  BY <1>1, <1>2, Zenon

\* The empty set and the sets of one member (a journal file with one line).
LEMMA SmallSets ==
    /\ IsFiniteSet({}) /\ Cardinality({}) = 0
    /\ \A x : IsFiniteSet({x}) /\ Cardinality({x}) = 1
<1>1. IsFiniteSet({}) /\ Cardinality({}) = 0
  BY SameSets, FST!FS_EmptySet, Zenon
<1>2. \A x : IsFiniteSet({x}) /\ Cardinality({x}) = 1
  BY SameSets, FST!FS_Singleton, Zenon
<1>3. QED
  BY <1>1, <1>2, Zenon

\* A part of a finite set (of the records emitted) is finite.
LEMMA PartIsFinite ==
    ASSUME NEW S, NEW U \in SUBSET S, IsFiniteSet(S)
    PROVE  IsFiniteSet(U)
  BY SameSets, FST!FS_Subset, Zenon

\* One more member (a record that is emitted).
LEMMA OneMore ==
    ASSUME NEW S, NEW x, IsFiniteSet(S), x \notin S
    PROVE  IsFiniteSet(S \cup {x}) /\ Cardinality(S \cup {x}) = Cardinality(S) + 1
  BY SameSets, FST!FS_AddElement, Zenon

\* Disjoint finite sets add up.
LEMMA DisjointCounts ==
    ASSUME NEW S, NEW U, IsFiniteSet(S), IsFiniteSet(U), S \cap U = {}
    PROVE  IsFiniteSet(S \cup U) /\ Cardinality(S \cup U) = Cardinality(S) + Cardinality(U)
<1>1. Cardinality(S \cup U) = Cardinality(S) + Cardinality(U) - Cardinality(S \cap U)
  BY SameSets, FST!FS_Union
<1>2. Cardinality(S \cap U) = 0
  BY SmallSets, Zenon
<1>3. Cardinality(S) \in Nat /\ Cardinality(U) \in Nat
  BY SameSets, FST!FS_CardinalityType
<1>4. IsFiniteSet(S \cup U)
  BY SameSets, FST!FS_Union, Zenon
<1>5. QED
  BY <1>1, <1>2, <1>3, <1>4

\* A set of indexes that is not empty has a least one.
LEMMA LeastIs ==
    ASSUME NEW S \in SUBSET Nat, S # {}
    PROVE  \E z \in S : \A y \in S : z <= y
<1>1. \E x \in S : \A y \in S : ~(<<y, x>> \in WFI!OpToRel(<, Nat))
  BY WFI!WFMin, WFI!NatLessThanWellFounded, Zenon
<1>2. PICK x \in S : \A y \in S : ~(<<y, x>> \in WFI!OpToRel(<, Nat))
  BY <1>1, Zenon
<1>3. \A y \in S : ~(y < x)
  BY <1>2, Zenon DEF WFI!OpToRel
<1>4. QED
  BY <1>3

\* next_target finds a free name while there are fewer files than indexes.
LEMMA FreeTarget ==
    ASSUME NEW fs \in Seq(File), NEW d \in 0..MaxDay, Len(fs) <= MaxIndex
    PROVE  NextTarget(fs, d) \notin Names(fs)
<1>. DEFINE free == {i \in 0..MaxIndex : <<d, i>> \notin Names(fs)}
            f == [i \in 0..MaxIndex |-> CHOOSE k \in 1..Len(fs) : fs[k].name = <<d, i>>]
<1>1. Len(fs) \in Nat /\ MaxIndex \in Nat
  BY TrailAssumption
<1>2. free # {}
  <2>1. SUFFICES ASSUME free = {} PROVE FALSE
    BY Zenon
  <2>2. \A i \in 0..MaxIndex : \E k \in 1..Len(fs) : fs[k].name = <<d, i>>
    BY <2>1, FilesAre, Zenon
  <2>3. \A i \in 0..MaxIndex : f[i] \in 1..Len(fs) /\ fs[f[i]].name = <<d, i>>
    BY <2>2, Zenon
  <2>4. f \in [0..MaxIndex -> 1..Len(fs)]
    BY <2>3, Zenon
  <2>. HIDE DEF f
  <2>5. /\ IsFiniteSet(0..MaxIndex) /\ Cardinality(0..MaxIndex) = MaxIndex + 1
        /\ IsFiniteSet(1..Len(fs)) /\ Cardinality(1..Len(fs)) = Len(fs)
    <3>1. 0 \in Int /\ 1 \in Int /\ MaxIndex \in Int /\ Len(fs) \in Int
      BY <1>1
    <3>2. /\ IsFiniteSet(0..MaxIndex)
          /\ Cardinality(0..MaxIndex) = IF 0 > MaxIndex THEN 0 ELSE MaxIndex - 0 + 1
      BY <3>1, SameSets, FST!FS_Interval, Zenon
    <3>3. /\ IsFiniteSet(1..Len(fs))
          /\ Cardinality(1..Len(fs)) = IF 1 > Len(fs) THEN 0 ELSE Len(fs) - 1 + 1
      BY <3>1, SameSets, FST!FS_Interval, Zenon
    <3>4. QED
      BY <1>1, <3>2, <3>3
  <2>6. Cardinality(1..Len(fs)) < Cardinality(0..MaxIndex)
    BY <1>1, <2>5
  <2>7. PICK x, y \in 0..MaxIndex : x # y /\ f[x] = f[y]
    BY <2>4, <2>5, <2>6, SameSets, FST!FS_PigeonHole, Zenon
  <2>8. <<d, x>> = <<d, y>>
    BY <2>3, <2>7, Zenon
  <2>9. QED
    BY <2>7, <2>8, Zenon
<1>3. \E i \in 0..MaxIndex : FirstFree(fs, d, i)
  <2>1. PICK i \in free : \A k \in free : i <= k
    BY <1>2, LeastIs, free \in SUBSET Nat, Zenon
  <2>2. \A k \in 0..(i - 1) : k \in 0..MaxIndex /\ k \notin free
    BY <1>1, <2>1
  <2>3. FirstFree(fs, d, i)
    BY <2>1, <2>2, Zenon DEF FirstFree
  <2>4. QED
    BY <2>1, <2>3, Zenon
<1>4. PICK i \in 0..MaxIndex : FirstFree(fs, d, i) /\ NextTarget(fs, d) = <<d, i>>
  BY <1>3, Zenon DEF NextTarget
<1>5. QED
  BY <1>4 DEF FirstFree

\* A sound journal is what JournalIsSound asks for.
LEMMA JournalIsRight ==
    ASSUME IInv, JournalInv
    PROVE  JournalIsSound
<1>1. PICK fs \in Seq(File) : fs = sink.files
  BY Types DEF Trail, TrailTypeOK, Sink
<1>2. SoundFiles(fs) /\ \A f : f \in Range(fs) <=> \E i \in 1..Len(fs) : f = fs[i]
  BY <1>1, FilesAre, Zenon DEF JournalInv, Journal
<1>3. ASSUME NEW f \in Range(fs), NEW g \in Range(fs), f # g
      PROVE  f.lines \cap g.lines = {}
  <2>1. PICK i, k \in 1..Len(fs) : f = fs[i] /\ g = fs[k]
    BY <1>2
  <2>2. i # k
    BY <1>3, <2>1, Zenon
  <2>3. QED
    BY <1>2, <2>1, <2>2 DEF SoundFiles
<1>4. ASSUME NEW f \in Range(fs), f.size > MaxBytes
      PROVE  Cardinality(f.lines) = 1
  <2>1. PICK i \in 1..Len(fs) : f = fs[i]
    BY <1>2, Zenon
  <2>2. PICK x \in Event : fs[i].lines = {x}
    BY <1>2, <1>4, <2>1, Zenon DEF SoundFiles
  <2>3. QED
    BY <2>1, <2>2, SmallSets, Zenon
<1>5. \A e \in Event : (fate[e] = "lined") = (e \in Lines(sink))
  BY DEF IInv, Lined
<1>6. (\A e \in Event : fate[e] # "lost") /\ Len(sink.files) <= KeepFiles + restarts
  BY DEF JournalInv
<1>7. QED
  BY <1>1, <1>3, <1>4, <1>5, <1>6, Zenon DEF JournalIsSound

\* The journal is sound (JournalIsSound) whenever files are pruned and a day has more
\* indexes than there can be files: a line is in one file, no write goes to a file
\* that rotation or pruning has taken, only a single line makes a file exceed
\* max_bytes, and there are at most keep_files files and one for every restart.
\* next_target has 10,001 indexes, and keep_files is 14 by default.
THEOREM JournalStaysSound ==
    ASSUME Spacious
    PROVE  Spec => []JournalIsSound
<1>1. Init => JournalInv
  BY InitJournal, Zenon
<1>2. IInv /\ JournalInv /\ [Next]_vars => JournalInv'
  <2>1. TargetsAreFree
    BY FreeTarget, Zenon DEF TargetsAreFree
  <2>2. QED
    BY <2>1, StepJournal, Zenon
<1>3. IInv /\ JournalInv => JournalIsSound
  BY JournalIsRight, Zenon
<1>4. QED
  BY <1>1, <1>2, <1>3, Invariant, PTL DEF Spec

-----------------------------------------------------------------------------
(***************************************************************************)
(* The account of the refusals.                                            *)
(***************************************************************************)

InHand == {taken} \ {Nobody}

Kept == Range(channel) \cup Range(logged) \cup missed \cup InHand

\* Every record is in one place, once.
LogInv ==
    /\ IsFiniteSet(Refusals)
    /\ Kept \subseteq Refusals
    /\ Cardinality(Refusals \ Kept) = dropped
    /\ IsInjective(channel) /\ IsInjective(logged)
    /\ Range(channel) \cap (Range(logged) \cup missed \cup InHand) = {}
    /\ Range(logged) \cap (missed \cup InHand) = {}
    /\ missed \cap InHand = {}

\* A queue without repetitions has as many records as places.
LEMMA QueueCounts ==
    ASSUME NEW s \in Seq(Record), IsInjective(s)
    PROVE  IsFiniteSet(Range(s)) /\ Cardinality(Range(s)) = Len(s)
<1>. DEFINE n == Len(s)
<1>1. n \in Nat /\ DOMAIN s = 1..n /\ s \in [1..n -> Range(s)]
  BY DEF Range
<1>2. s \in FST!Bijection(1..n, Range(s))
  <2>1. \A a, b \in 1..n : s[a] = s[b] => a = b
    BY <1>1, Zenon DEF IsInjective
  <2>2. \A x \in Range(s) : \E i \in 1..n : s[i] = x
    BY <1>1, Zenon DEF Range
  <2>3. QED
    BY <1>1, <2>1, <2>2, Zenon DEF FST!Bijection, FST!Injection, FST!Surjection,
                                        FST!IsInjective
<1>3. FST!ExistsBijection(1..n, Range(s))
  BY <1>2, Zenon DEF FST!ExistsBijection
<1>. HIDE DEF n
<1>4. Cardinality(Range(s)) = n
  BY <1>1, <1>3, SameSets, FST!FS_CountingElements, Zenon
<1>5. IsFiniteSet(Range(s))
  BY <1>1, <1>3, SameSets, FST!FS_NatBijection, Zenon
<1>6. QED
  BY <1>4, <1>5, Zenon DEF n

\* The records kept, of the log before and after a step
LEMMA LogTypes ==
    ASSUME IInv
    PROVE  /\ channel \in Seq(Record) /\ logged \in Seq(Record) /\ taken \in Record \cup {Nobody}
           /\ missed \subseteq Record /\ dropped \in Nat /\ Nobody \notin Record /\ Record = Req
  BY Types, LogAssumption, ProxyAssumption, Zenon DEF LogTypeOK

\* A refusal that is emitted is queued, or counted as dropped.
LEMMA EmitLogs ==
    ASSUME IInv, LogInv, NEW r \in Req, Emit(r), r \notin Refusals, Refusals' = Refusals \cup {r}
    PROVE  LogInv'
<1>1. /\ logged' = logged /\ missed' = missed /\ InHand' = InHand
  BY Zenon DEF Emit, InHand
<1>2. /\ IsFiniteSet(Refusals \cup {r}) /\ r \notin Kept
  BY OneMore, Zenon DEF LogInv
<1>3. CASE channel' = Append(channel, r) /\ dropped' = dropped
  <2>1. /\ Range(channel') = Range(channel) \cup {r}
        /\ IsInjective(channel')
    BY <1>2, <1>3, LogTypes, PushDoes, Zenon DEF LogInv, Kept
  <2>2. Kept' = Kept \cup {r}
    BY <1>1, <2>1, Zenon DEF Kept
  <2>3. Refusals' \ Kept' = Refusals \ Kept
    BY <1>2, <2>2
  <2>4. Range(channel)' \cap (Range(logged) \cup missed \cup InHand)' = {}
    BY <1>1, <1>2, <2>1 DEF LogInv, Kept
  <2>5. (Kept \subseteq Refusals)' /\ Cardinality(Refusals' \ Kept') = dropped'
    BY <1>3, <2>2, <2>3, Zenon DEF LogInv
  <2>6. QED
    BY <1>1, <1>2, <2>1, <2>4, <2>5, Zenon DEF LogInv
<1>4. CASE channel' = channel /\ dropped' = dropped + 1
  <2>1. Kept' = Kept
    BY <1>1, <1>4, Zenon DEF Kept
  <2>2. Refusals' \ Kept' = (Refusals \ Kept) \cup {r}
    BY <1>2, <2>1, Zenon
  <2>3. IsFiniteSet(Refusals \ Kept)
    <3>1. IsFiniteSet(Refusals) /\ (Refusals \ Kept) \in SUBSET Refusals
      BY Zenon DEF LogInv
    <3>2. QED
      BY <3>1, PartIsFinite, Zenon
  <2>4. Cardinality(Refusals' \ Kept') = dropped + 1
    BY <2>2, <2>3, OneMore, Zenon DEF LogInv
  <2>5. QED
    BY <1>1, <1>2, <1>4, <2>1, <2>4, Zenon DEF LogInv
<1>5. QED
  BY <1>3, <1>4, Zenon DEF Emit

\* The drain task takes the oldest record.
LEMMA TakeLogs ==
    ASSUME IInv, LogInv, Take, Refusals' = Refusals
    PROVE  LogInv'
<1>1. /\ channel # <<>> /\ taken = Nobody /\ taken' = Head(channel) /\ channel' = Tail(channel)
      /\ logged' = logged /\ missed' = missed /\ dropped' = dropped
  BY Zenon DEF Take
<1>2. /\ Head(channel) \in Req /\ Head(channel) \in Range(channel)
      /\ Range(channel') = Range(channel) \ {Head(channel)}
      /\ IsInjective(channel')
  BY <1>1, LogTypes, PopDoes DEF LogInv
<1>3. InHand = {} /\ InHand' = {Head(channel)}
  BY <1>1, <1>2, LogTypes, Zenon DEF InHand
<1>4. Kept' = Kept
  BY <1>1, <1>2, <1>3, Zenon DEF Kept
<1>5. QED
  BY <1>1, <1>2, <1>3, <1>4 DEF LogInv

\* It inserts the record, or loses it.
LEMMA StoreLogs ==
    ASSUME IInv, LogInv, NEW ok \in BOOLEAN, Store(ok), Refusals' = Refusals
    PROVE  LogInv'
<1>1. /\ taken # Nobody /\ taken' = Nobody /\ channel' = channel /\ dropped' = dropped
      /\ \/ logged' = Append(logged, taken) /\ missed' = missed
         \/ missed' = missed \cup {taken} /\ logged' = logged
  BY Zenon DEF Store
<1>2. InHand = {taken} /\ InHand' = {} /\ taken \in Req
  BY <1>1, LogTypes, Zenon DEF InHand
<1>3. CASE logged' = Append(logged, taken) /\ missed' = missed
  <2>1. taken \notin Range(logged)
    BY <1>2, Zenon DEF LogInv
  <2>2. Range(logged') = Range(logged) \cup {taken} /\ IsInjective(logged')
    BY <1>2, <1>3, <2>1, LogTypes, PushDoes, Zenon DEF LogInv
  <2>3. Kept' = Kept
    BY <1>1, <1>2, <1>3, <2>2, Zenon DEF Kept
  <2>4. QED
    BY <1>1, <1>2, <1>3, <2>2, <2>3, Zenon DEF LogInv
<1>4. CASE missed' = missed \cup {taken} /\ logged' = logged
  <2>1. Kept' = Kept
    BY <1>1, <1>2, <1>4, Zenon DEF Kept
  <2>2. QED
    BY <1>1, <1>2, <1>4, <2>1, Zenon DEF LogInv
<1>5. QED
  BY <1>1, <1>3, <1>4, Zenon

\* The channel is lost.
LEMMA LoseLogs ==
    ASSUME IInv, LogInv, LoseChannel, Refusals' = Refusals
    PROVE  LogInv'
<1>1. /\ channel' = <<>> /\ taken' = Nobody /\ logged' = logged /\ dropped' = dropped
      /\ missed' = missed \cup Range(channel) \cup InHand
  BY Zenon DEF LoseChannel, Range, InHand
<1>2. Range(channel') = {} /\ IsInjective(channel') /\ InHand' = {}
  BY <1>1 DEF Range, IsInjective, InHand
<1>3. Kept' = Kept
  BY <1>1, <1>2, Zenon DEF Kept
<1>4. QED
  BY <1>1, <1>2, <1>3, Zenon DEF LogInv

\* Nothing is refused or logged at the start.
LEMMA InitLogs ==
    ASSUME Init
    PROVE  LogInv
<1>1. /\ channel = <<>> /\ taken = Nobody /\ logged = <<>> /\ dropped = 0 /\ missed = {}
  BY Zenon DEF Init, LogInit
<1>2. /\ Range(channel) = {} /\ IsInjective(channel) /\ Range(logged) = {} /\ IsInjective(logged)
      /\ InHand = {}
  BY <1>1 DEF Range, IsInjective, InHand
<1>3. Kept = {}
  BY <1>1, <1>2, Zenon DEF Kept
<1>4. Refusals = {}
  BY Zenon DEF Init, Refusals
<1>5. IsFiniteSet(Refusals) /\ Cardinality(Refusals \ Kept) = 0
  BY <1>3, <1>4, SmallSets, Zenon
<1>6. QED
  BY <1>1, <1>2, <1>3, <1>5, Zenon DEF LogInv

\* Every step keeps the account of the refusals.
LEMMA StepLogs ==
    ASSUME IInv, LogInv, [Next]_vars
    PROVE  LogInv'
<1>1. CASE UNCHANGED logVars /\ Refusals' = Refusals
  <2>1. Kept' = Kept /\ InHand' = InHand
    BY <1>1, Zenon DEF Kept, InHand, logVars
  <2>2. UNCHANGED <<channel, taken, logged, dropped, missed>>
    BY <1>1, Zenon DEF logVars
  <2>3. QED
    BY <1>1, <2>1, <2>2, Zenon DEF LogInv
<1>2. QED
  BY <1>1, LogSteps, EmitLogs, TakeLogs, StoreLogs, LoseLogs, Zenon

\* The account of the refusals says what RefusalsAreLogged does.
LEMMA LogIsRight ==
    ASSUME IInv, LogInv
    PROVE  RefusalsAreLogged
<1>. DEFINE C == Range(channel)
            L == Range(logged)
<1>1. /\ IsFiniteSet(C) /\ Cardinality(C) = Len(channel)
      /\ IsFiniteSet(L) /\ Cardinality(L) = Len(logged)
  BY LogTypes, QueueCounts, Zenon DEF LogInv
<1>2. IsFiniteSet(missed) /\ IsFiniteSet(InHand)
  <2>1. IsFiniteSet(Refusals) /\ missed \in SUBSET Refusals /\ InHand \in SUBSET Refusals
    BY Zenon DEF LogInv, Kept
  <2>2. QED
    BY <2>1, PartIsFinite, Zenon
<1>3. /\ C \cap L = {} /\ (C \cup L) \cap missed = {} /\ (C \cup L \cup missed) \cap InHand = {}
  BY Zenon DEF LogInv
<1>4. Kept = C \cup L \cup missed \cup InHand
  BY Zenon DEF Kept
<1>. HIDE DEF C, L
<1>5. IsFiniteSet(C \cup L) /\ Cardinality(C \cup L) = Cardinality(C) + Cardinality(L)
  BY <1>1, <1>3, DisjointCounts, Zenon
<1>. DEFINE Q == C \cup L
<1>6. IsFiniteSet(Q) /\ Q \cap missed = {} /\ (Q \cup missed) \cap InHand = {}
  BY <1>3, <1>5, Zenon
<1>7. Cardinality(Q) = Cardinality(C) + Cardinality(L) /\ Kept = Q \cup missed \cup InHand
  BY <1>4, <1>5, Zenon
<1>. HIDE DEF Q
<1>8. /\ IsFiniteSet(Q \cup missed)
      /\ Cardinality(Q \cup missed) = Cardinality(Q) + Cardinality(missed)
  BY <1>2, <1>6, DisjointCounts, Zenon
<1>. DEFINE P == Q \cup missed
<1>9. IsFiniteSet(P) /\ P \cap InHand = {} /\ Kept = P \cup InHand
  BY <1>6, <1>7, <1>8, Zenon
<1>10. Cardinality(P) = Cardinality(Q) + Cardinality(missed)
  BY <1>8, Zenon
<1>. HIDE DEF P
<1>11. Cardinality(Kept) = Cardinality(P) + Cardinality(InHand)
  BY <1>2, <1>9, DisjointCounts, Zenon
<1>12. Cardinality(Kept) = Len(channel) + Len(logged) + Cardinality(missed) + Cardinality(InHand)
  BY <1>1, <1>7, <1>10, <1>11, Zenon
<1>13. Kept \subseteq Refusals /\ Cardinality(Refusals \ Kept) = dropped
  BY Zenon DEF LogInv
<1>14. QED
  BY <1>12, <1>13, Zenon DEF RefusalsAreLogged, Kept, InHand, Refusals

\* Every refusal for want of a credential is accounted for exactly once
\* (RefusalsAreLogged): queued, being inserted, in operational_logs, lost to a failed
\* INSERT or a restart, or counted by the emitter's drop counter, for a channel of
\* any capacity.
THEOREM RefusalsStayLogged == Spec => []RefusalsAreLogged
<1>1. Init => LogInv
  BY InitLogs, Zenon
<1>2. IInv /\ LogInv /\ [Next]_vars => LogInv'
  BY StepLogs, Zenon
<1>3. IInv /\ LogInv => RefusalsAreLogged
  BY LogIsRight, Zenon
<1>4. QED
  BY <1>1, <1>2, <1>3, Invariant, PTL DEF Spec
=============================================================================
