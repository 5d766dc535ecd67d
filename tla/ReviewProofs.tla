--------------------------- MODULE ReviewProofs ---------------------------
(***************************************************************************)
(* Searches and decisions, for any number of requests: what is answered is *)
(* on record, and what is decided was on record.  Then the overlay: the    *)
(* latest decision is in force; and the queue: it shows what waits and     *)
(* nothing settled, though it reads the workflow log once per event.       *)
(***************************************************************************)
EXTENDS Review, FilterProofs, FiniteSetTheorems, TLAPS

(* The types the first of these proofs need; nothing of the queue. *)
Typed ==
  /\ Audit!LTypeOK /\ Workflow!LTypeOK
  /\ answer \in [Search -> {"none", "200", "500", "503"}]
  /\ case \in [Decider -> Search \cup {"nothing"}]
  /\ reply \in [Decider -> {"new", "found", "200", "400", "404", "500"}]

(* An event is in the log from the moment its line is written. *)
Recorded ==
  \A s \in Search :
    /\ aphase[s] \in {"newline", "sync", "ok"} => Logged(s)
    /\ answer[s] = "200" => aphase[s] = "ok"

(* Whoever has found its event goes on to write; whoever has not yet looked, or
   has not found it, has written nothing. *)
Grounded ==
  /\ \A d \in Decider : reply[d] = "found" => Logged(case[d])
  /\ \A i \in DOMAIN workflow :
       workflow[i] \in Decider => Logged(case[workflow[i]]) /\ reply[workflow[i]] # "new"

RInv == Typed /\ Recorded /\ Grounded

LEMMA RInvInit == Init => RInv
BY DEF Init, RInv, Typed, Recorded, Grounded, Audit!LInit, Workflow!LInit, Audit!LTypeOK,
       Workflow!LTypeOK
-----------------------------------------------------------------------------
(* A log is only added to. *)
LEMMA AuditGrows ==
  ASSUME Typed, NEW s \in Search, Audit!Open(s) \/ Audit!GoesOn(s) \/ Audit!Stops(s)
  PROVE  /\ Audit!LTypeOK'
         /\ \A t \in Search : Logged(t) => Logged(t)'
         /\ aphase'[s] \in {"newline", "sync", "ok"} => Logged(s)' \/ aphase[s] \in {"newline", "sync"}
         /\ \A t \in Search \ {s} : aphase'[t] = aphase[t]
<1> USE DEF Audit!Open, Audit!GoesOn, Audit!WriteLine, Audit!WriteNewline, Audit!Sync,
            Audit!Stops, Audit!Goes, Audit!Appending
<1>1. aphase \in [Search -> {"new", "line", "newline", "sync", "ok", "err"}]
  BY DEF Typed, Audit!LTypeOK
<1>2. audit \in Seq(Search \cup {"newline", "cut"})
  BY DEF Typed, Audit!LTypeOK
<1>3. audit' = audit \/ \E t \in Search \cup {"newline", "cut"} : audit' = Append(audit, t)
  OBVIOUS
<1>4. audit' \in Seq(Search \cup {"newline", "cut"})
  BY <1>2, <1>3
<1>5. \A i \in DOMAIN audit : i \in DOMAIN audit' /\ audit'[i] = audit[i]
  BY <1>2, <1>3
<1>6. aphase' \in [Search -> {"new", "line", "newline", "sync", "ok", "err"}]
  BY <1>1
<1>7. \A t \in Search : Logged(t) => Logged(t)'
  BY <1>5 DEF Logged
<1>8. aphase'[s] \in {"newline", "sync", "ok"} => Logged(s)' \/ aphase[s] \in {"newline", "sync"}
  <2>1. CASE Audit!WriteLine(s)
    <3>1. audit' = Append(audit, s)
      BY <2>1
    <3>2. Len(audit) + 1 \in DOMAIN audit' /\ audit'[Len(audit) + 1] = s
      BY <1>2, <3>1
    <3> QED BY <3>2 DEF Logged
  <2>2. CASE ~Audit!WriteLine(s)
    BY <1>1, <2>2
  <2> QED BY <2>1, <2>2
<1>9. \A t \in Search \ {s} : aphase'[t] = aphase[t]
  BY <1>1
<1> QED
  BY <1>4, <1>6, <1>7, <1>8, <1>9 DEF Audit!LTypeOK

LEMMA WorkflowGrows ==
  ASSUME Typed, NEW d \in Decider, Workflow!Open(d) \/ Workflow!GoesOn(d) \/ Workflow!Stops(d)
  PROVE  /\ Workflow!LTypeOK'
         /\ \A i \in DOMAIN workflow' :
              workflow'[i] \in {d, "newline", "cut"}
                \/ (i \in DOMAIN workflow /\ workflow'[i] = workflow[i])
<1> USE DEF Workflow!Open, Workflow!GoesOn, Workflow!WriteLine, Workflow!WriteNewline,
            Workflow!Sync, Workflow!Stops, Workflow!Goes, Workflow!Appending
<1>1. wphase \in [Decider -> {"new", "line", "newline", "sync", "ok", "err"}]
  BY DEF Typed, Workflow!LTypeOK
<1>2. workflow \in Seq(Decider \cup {"newline", "cut"})
  BY DEF Typed, Workflow!LTypeOK
<1>3. workflow' = workflow \/ \E t \in {d, "newline", "cut"} : workflow' = Append(workflow, t)
  OBVIOUS
<1>4. workflow' \in Seq(Decider \cup {"newline", "cut"})
  BY <1>2, <1>3
<1>5. \A i \in DOMAIN workflow' :
        workflow'[i] \in {d, "newline", "cut"}
          \/ (i \in DOMAIN workflow /\ workflow'[i] = workflow[i])
  BY <1>2, <1>3
<1>6. wphase' \in [Decider -> {"new", "line", "newline", "sync", "ok", "err"}]
  BY <1>1
<1> QED
  BY <1>4, <1>5, <1>6 DEF Workflow!LTypeOK
-----------------------------------------------------------------------------
(* Steps that keep a log as it is keep what is said of it. *)
LEMMA RecordedStays ==
  ASSUME Recorded, UNCHANGED <<audit, aphase, answer>>
  PROVE  Recorded'
BY DEF Recorded, Logged

LEMMA GroundedStays ==
  ASSUME Grounded, UNCHANGED <<audit, workflow, case, reply>>
  PROVE  Grounded'
BY DEF Grounded, Logged

LEMMA AuditTypeStays ==
  ASSUME Audit!LTypeOK, UNCHANGED <<audit, aphase>>
  PROVE  Audit!LTypeOK'
BY DEF Audit!LTypeOK

LEMMA WorkflowTypeStays ==
  ASSUME Workflow!LTypeOK, UNCHANGED <<workflow, wphase>>
  PROVE  Workflow!LTypeOK'
BY DEF Workflow!LTypeOK

(* When the audit log grows, and no reviewer does anything. *)
LEMMA GroundedGrows ==
  ASSUME Typed, Grounded, UNCHANGED <<workflow, case, reply>>,
         \A t \in Search : Logged(t) => Logged(t)'
  PROVE  Grounded'
<1>1. \A d \in Decider : Logged(case[d]) => case[d] \in Search
  BY ReviewAssumption DEF Typed, Logged, Audit!LTypeOK
<1> QED
  BY <1>1 DEF Grounded
-----------------------------------------------------------------------------
LEMMA ScreenStep ==
  ASSUME RInv, NEW s \in Search, NEW tlp \in Bands, NEW exact \in BOOLEAN, Screen(s, tlp, exact)
  PROVE  RInv'
<1> USE DEF RInv
<1>1. UNCHANGED <<workflow, wphase, case, reply>> /\ answer[s] = "none" /\ aphase[s] = "new"
  BY DEF Screen, decidevars
<1>2. CASE answer' = [answer EXCEPT ![s] = "503"] /\ UNCHANGED <<audit, aphase, verdict>>
  <2>1. Typed'
    BY <1>1, <1>2, AuditTypeStays, WorkflowTypeStays DEF Typed
  <2>2. Recorded'
    BY <1>1, <1>2 DEF Recorded, Logged, Typed
  <2>3. Grounded'
    BY <1>1, <1>2, GroundedStays
  <2> QED BY <2>1, <2>2, <2>3
<1>3. CASE (Audit!Open(s) \/ Audit!Stops(s)) /\ UNCHANGED answer
  <2>1. /\ Audit!LTypeOK' /\ \A t \in Search : Logged(t) => Logged(t)'
        /\ aphase'[s] \in {"newline", "sync", "ok"} => Logged(s)' \/ aphase[s] \in {"newline", "sync"}
        /\ \A t \in Search \ {s} : aphase'[t] = aphase[t]
    BY <1>3, AuditGrows
  <2>2. Typed'
    BY <1>1, <1>3, <2>1, WorkflowTypeStays DEF Typed
  <2>3. Recorded'
    BY <1>1, <1>3, <2>1 DEF Recorded
  <2>4. Grounded'
    BY <1>1, <2>1, GroundedGrows
  <2> QED BY <2>2, <2>3, <2>4
<1> QED BY <1>2, <1>3 DEF Screen

LEMMA AuditLogStep ==
  ASSUME RInv, NEW s \in Search, AuditLog(s)
  PROVE  RInv'
<1> USE DEF RInv
<1>1. /\ UNCHANGED <<workflow, wphase, case, reply, answer>>
      /\ Audit!GoesOn(s) \/ Audit!Stops(s)
      /\ aphase[s] # "ok"
  BY DEF AuditLog, decidevars, Audit!Appending
<1>2. /\ Audit!LTypeOK' /\ \A t \in Search : Logged(t) => Logged(t)'
      /\ aphase'[s] \in {"newline", "sync", "ok"} => Logged(s)' \/ aphase[s] \in {"newline", "sync"}
      /\ \A t \in Search \ {s} : aphase'[t] = aphase[t]
  BY <1>1, AuditGrows
<1>3. Typed'
  BY <1>1, <1>2, WorkflowTypeStays DEF Typed
<1>4. Recorded'
  BY <1>1, <1>2 DEF Recorded
<1>5. Grounded'
  BY <1>1, <1>2, GroundedGrows
<1> QED BY <1>3, <1>4, <1>5

LEMMA RespondStep ==
  ASSUME RInv, NEW s \in Search, Respond(s)
  PROVE  RInv'
<1> USE DEF RInv
<1>1. UNCHANGED <<audit, aphase, workflow, wphase, case, reply>>
  BY DEF Respond, decidevars
<1>2. Typed'
  BY <1>1, AuditTypeStays, WorkflowTypeStays DEF Typed, Respond
<1>3. Recorded'
  BY <1>1 DEF Recorded, Logged, Respond, Typed
<1>4. Grounded'
  BY <1>1, GroundedStays
<1> QED BY <1>2, <1>3, <1>4
-----------------------------------------------------------------------------
LEMMA DecideStep ==
  ASSUME RInv, NEW d \in Decider, NEW s \in Search, NEW word \in Words, Decide(d, s, word)
  PROVE  RInv'
<1> USE DEF RInv
<1>0. PICK next \in {"404", "found"} :
        Takes(d, s, word, next) /\ (next = "found" => Logged(s))
  BY DEF Decide
<1>1. /\ UNCHANGED <<audit, aphase, answer, workflow, wphase>>
      /\ reply[d] = "new" /\ case' = [case EXCEPT ![d] = s]
      /\ reply' = [reply EXCEPT ![d] = next]
  BY <1>0 DEF Takes, searchvars
<1>2. Typed'
  BY <1>1, AuditTypeStays, WorkflowTypeStays DEF Typed
<1>3. Recorded'
  BY <1>1, RecordedStays
<1>4. \A e \in Decider \ {d} : case'[e] = case[e] /\ reply'[e] = reply[e]
  BY <1>1 DEF Typed
<1>5. case'[d] = s /\ reply'[d] \in {"found", "404"} /\ (reply'[d] = "found" => Logged(s))
  BY <1>0, <1>1 DEF Typed
<1>6. \A t : Logged(t)' = Logged(t)
  BY <1>1 DEF Logged
<1>7. \A i \in DOMAIN workflow : workflow[i] # d
  BY <1>1 DEF Grounded
<1>8. Grounded'
  BY <1>1, <1>4, <1>5, <1>6, <1>7 DEF Grounded
<1> QED BY <1>2, <1>3, <1>8

LEMMA MisspellStep ==
  ASSUME RInv, NEW d \in Decider, NEW word \in Words, Misspell(d, word)
  PROVE  RInv'
<1> USE DEF RInv
<1>1. /\ UNCHANGED <<audit, aphase, answer, workflow, wphase, case>>
      /\ reply' = [reply EXCEPT ![d] = "400"]
  BY DEF Misspell, searchvars
<1>2. Typed'
  BY <1>1, AuditTypeStays, WorkflowTypeStays DEF Typed
<1>3. Recorded'
  BY <1>1, RecordedStays
<1>4. Grounded'
  BY <1>1 DEF Grounded, Logged, Typed
<1> QED BY <1>2, <1>3, <1>4

LEMMA WorkflowLogStep ==
  ASSUME RInv, NEW d \in Decider, WorkflowLog(d)
  PROVE  RInv'
<1> USE DEF RInv
<1>1. /\ UNCHANGED <<audit, aphase, answer, case, reply>> /\ reply[d] = "found"
      /\ Workflow!Open(d) \/ Workflow!GoesOn(d) \/ Workflow!Stops(d)
  BY DEF WorkflowLog, searchvars
<1>2. /\ Workflow!LTypeOK'
      /\ \A i \in DOMAIN workflow' :
           workflow'[i] \in {d, "newline", "cut"}
             \/ (i \in DOMAIN workflow /\ workflow'[i] = workflow[i])
  BY <1>1, WorkflowGrows
<1>3. Typed'
  BY <1>1, <1>2, AuditTypeStays DEF Typed
<1>4. Recorded'
  BY <1>1, RecordedStays
<1>5. Logged(case[d]) /\ {"newline", "cut"} \cap Decider = {}
  BY <1>1, ReviewAssumption DEF Grounded
<1>6. \A t : Logged(t)' = Logged(t)
  BY <1>1 DEF Logged
<1>7. Grounded'
  BY <1>1, <1>2, <1>5, <1>6 DEF Grounded
<1> QED BY <1>3, <1>4, <1>7

LEMMA DecidedStep ==
  ASSUME RInv, NEW d \in Decider, Decided(d)
  PROVE  RInv'
<1> USE DEF RInv
<1>1. /\ UNCHANGED <<audit, aphase, answer, workflow, wphase, case>>
      /\ \E status \in {"200", "500"} : reply' = [reply EXCEPT ![d] = status]
  BY DEF Decided, searchvars
<1>2. Typed'
  BY <1>1, AuditTypeStays, WorkflowTypeStays DEF Typed
<1>3. Recorded'
  BY <1>1, RecordedStays
<1>4. Grounded'
  BY <1>1 DEF Grounded, Logged, Typed
<1> QED BY <1>2, <1>3, <1>4
-----------------------------------------------------------------------------
LEMMA RInvNext == RInv /\ [Next]_vars => RInv'
<1> SUFFICES ASSUME RInv, [Next]_vars PROVE RInv'
  OBVIOUS
<1>1. ASSUME NEW s \in Search, Searching(s) PROVE RInv'
  BY <1>1, ScreenStep, AuditLogStep, RespondStep DEF Searching
<1>2. ASSUME NEW d \in Decider, Deciding(d) PROVE RInv'
  BY <1>2, DecideStep, MisspellStep, WorkflowLogStep, DecidedStep DEF Deciding
<1>3. ASSUME UNCHANGED <<searchvars, decidevars>> PROVE RInv'
  <2>1. UNCHANGED <<audit, aphase, answer, workflow, wphase, case, reply>>
    BY <1>3 DEF searchvars, decidevars
  <2>2. Typed'
    BY <2>1, AuditTypeStays, WorkflowTypeStays DEF Typed, RInv
  <2> QED
    BY <2>1, <2>2, RecordedStays, GroundedStays DEF RInv
<1>4. CASE Queueing
  BY <1>3, <1>4 DEF Queueing, Queue, QueueItem, QueueAnswer
<1>5. CASE UNCHANGED vars
  BY <1>3, <1>5 DEF vars
<1> QED
  BY <1>1, <1>2, <1>4, <1>5 DEF Next

LEMMA RInvHolds == Spec => []RInv
BY RInvInit, RInvNext, PTL DEF Spec

(* A search that was answered (routes.rs:543-571) is on record. *)
THEOREM AnsweredAuditedHolds == Spec => []AnsweredAudited
<1>1. RInv => AnsweredAudited
  BY DEF RInv, Recorded, AnsweredAudited
<1> QED
  BY RInvHolds, <1>1, PTL

(* A decision (routes.rs:944-966) is on an event that is on record, also when
   the audit log has become unreadable since. *)
THEOREM DecisionsGroundedHolds == Spec => []DecisionsGrounded
<1>1. RInv => DecisionsGrounded
  BY DEF RInv, Grounded, DecisionsGrounded
<1> QED
  BY RInvHolds, <1>1, PTL
-----------------------------------------------------------------------------
(* The decision in force on an event, by the lines of the workflow log. *)
On(s) == {d \in Decider : case[d] = s}

LEMMA History ==
  ASSUME Workflow!LTypeOK, NEW s
  PROVE  Keep(Workflow!Entries, On(s)) = Keep(workflow, On(s))
<1>1. Workflow!Entries = Keep(workflow, Decider)
  BY DEF Workflow!Entries, Workflow!Keep, Keep
<1>2. workflow \in Seq(Decider \cup {"newline", "cut"})
  BY DEF Workflow!LTypeOK
<1>3. Keep(Keep(workflow, Decider), On(s)) = Keep(workflow, Decider \cap On(s))
  BY <1>2, KeepKeep
<1>4. Decider \cap On(s) = On(s)
  BY DEF On
<1> QED BY <1>1, <1>3, <1>4

(* Nobody has decided on it: its own. *)
LEMMA CurrentUndecided ==
  ASSUME Workflow!LTypeOK, NEW s, \A i \in DOMAIN workflow : workflow[i] \notin On(s)
  PROVE  Current(s) = verdict[s]
<1>1. workflow \in Seq(Decider \cup {"newline", "cut"})
  BY DEF Workflow!LTypeOK
<1>2. Keep(workflow, On(s)) = <<>>
  BY <1>1, KeepNone
<1>3. Keep(Workflow!Entries, On(s)) = <<>>
  BY <1>2, History
<1> QED BY <1>3 DEF Current, On

(* Somebody has, and the log can be read: a ruling; that of d, if no other's
   line comes after d's. *)
LEMMA CurrentDecided ==
  ASSUME Workflow!LTypeOK, Workflow!Readable,
         NEW s, NEW i \in DOMAIN workflow, workflow[i] \in On(s)
  PROVE  \E j \in DOMAIN workflow : i <= j /\ workflow[j] \in On(s)
                                      /\ Current(s) = ruling[workflow[j]]
<1> DEFINE k == Keep(workflow, On(s))
<1>1. workflow \in Seq(Decider \cup {"newline", "cut"})
  BY DEF Workflow!LTypeOK
<1>2. /\ k # <<>>
      /\ \E j \in i..Len(workflow) : workflow[j] \in On(s) /\ k[Len(k)] = workflow[j]
  BY <1>1, KeepLast
<1>3. Keep(Workflow!Entries, On(s)) = k
  BY History
<1> HIDE DEF k
<1>4. Current(s) = ruling[k[Len(k)]]
  BY <1>2, <1>3 DEF Current, On
<1>5. \A j \in i..Len(workflow) : j \in DOMAIN workflow /\ i <= j
  BY <1>1
<1> QED BY <1>2, <1>4, <1>5
-----------------------------------------------------------------------------
(* A request writes its line while it is "found", before it says so, and never
   after; whom it came after has long written. *)
Wrote ==
  \A d \in Decider :
    /\ reply[d] = "new" => case[d] = "nothing"
    /\ reply[d] = "200" => wphase[d] = "ok"
    /\ wphase[d] \in {"newline", "sync", "ok"} => \E i \in DOMAIN workflow : workflow[i] = d
    /\ d \notin after[d]
    /\ \A e \in after[d] : reply[e] \notin {"new", "found"}

(* What a decision came after is before it in the log. *)
InOrder ==
  \A i, j \in DOMAIN workflow :
    workflow[i] \in Decider /\ workflow[j] \in after[workflow[i]] => j < i

(* The queue: its verdicts are final, and so is what was settled when it was
   asked for; what waits is listed, or still to be looked at, or older than the
   window. *)
Undecided(s) == \A d \in Decider : case[d] # s

(* The event is listed or still ahead of the queue, or too old for its window. *)
Reached(s) ==
  \/ s \in items \/ (\E i \in DOMAIN todo : todo[i] = s)
  \/ Window <= Cardinality(Newer(s))

Queued ==
  /\ queue = "new" => items = {}
  /\ queue = "200" => todo = <<>>
  /\ \A s \in due : answer[s] = "200" /\ Pending(verdict[s])
  /\ \A s \in settled : \E d \in Decider : reply[d] = "200" /\ case[d] = s
  /\ Workflow!Readable => items \cap settled \subseteq misled
  /\ queue \in {"reading", "200"} => \A s \in due : Undecided(s) => Reached(s) \/ s \in misled

QInv == TypeOK /\ Wrote /\ InOrder /\ Queued

LEMMA QInvInit == Init => QInv
<1> SUFFICES ASSUME Init PROVE QInv
  OBVIOUS
<1>1. TypeOK
  <2>1. /\ Audit!LTypeOK /\ Workflow!LTypeOK /\ todo \in Seq(Search)
        /\ verdict \in [Search -> {"auto-green", "pending-review", "auto-block", "pending-block"}]
        /\ answer \in [Search -> {"none", "200", "500", "503"}]
        /\ case \in [Decider -> Search \cup {"nothing"}]
        /\ ruling \in [Decider -> {"reviewed-approved", "reviewed-blocked"}]
        /\ reply \in [Decider -> {"new", "found", "200", "400", "404", "500"}]
        /\ after \in [Decider -> SUBSET Decider]
    BY DEF Init, Audit!LInit, Workflow!LInit, Audit!LTypeOK, Workflow!LTypeOK
  <2> QED BY <2>1, Zenon DEF Init, TypeOK
<1>2. Wrote /\ InOrder
  BY DEF Init, Wrote, InOrder, Workflow!LInit
<1>3. Queued
  BY DEF Init, Queued, Workflow!LInit
<1> QED BY <1>1, <1>2, <1>3 DEF QInv

(* A log is added to at its end. *)
Grows(log, new, lines) == new = log \/ \E t \in lines : new = Append(log, t)

LEMMA AuditAppends ==
  ASSUME NEW s \in Search, Audit!Open(s) \/ Audit!GoesOn(s) \/ Audit!Stops(s)
  PROVE  Grows(audit, audit', Search \cup {"newline", "cut"})
BY DEF Grows, Audit!Open, Audit!GoesOn, Audit!WriteLine, Audit!WriteNewline, Audit!Sync,
       Audit!Stops

LEMMA WorkflowAppends ==
  ASSUME Workflow!LTypeOK, NEW d \in Decider,
         Workflow!Open(d) \/ Workflow!GoesOn(d) \/ Workflow!Stops(d)
  PROVE  /\ Grows(workflow, workflow', {d, "newline", "cut"})
         /\ wphase[d] # "ok" /\ \A e \in Decider \ {d} : wphase'[e] = wphase[e]
         /\ wphase'[d] \in {"newline", "sync", "ok"} =>
              wphase[d] \in {"newline", "sync"} \/ workflow' = Append(workflow, d)
BY DEF Grows, Workflow!LTypeOK, Workflow!Open, Workflow!GoesOn, Workflow!WriteLine,
       Workflow!WriteNewline, Workflow!Sync, Workflow!Stops, Workflow!Goes, Workflow!Appending

(* What the steps of a search do to what a queue sees. *)
LEMMA SearchSeen ==
  ASSUME QInv, NEW s \in Search, Searching(s)
  PROVE  /\ TypeOK' /\ UNCHANGED <<decidevars, queuevars>>
         /\ Grows(audit, audit', Search \cup {"newline", "cut"})
         /\ \A t \in Search : answer[t] = "200" => answer'[t] = "200" /\ verdict'[t] = verdict[t]
<1>0. Typed
  BY DEF QInv, TypeOK, Typed
<1>1. UNCHANGED <<decidevars, queuevars>>
  BY DEF Searching, Screen, AuditLog, Respond, decidevars, queuevars
<1>2. Audit!LTypeOK' /\ Grows(audit, audit', Search \cup {"newline", "cut"})
  <2>1. CASE UNCHANGED <<audit, aphase>>
    BY <1>0, <2>1, AuditTypeStays DEF Typed, Grows
  <2>2. CASE Audit!Open(s) \/ Audit!GoesOn(s) \/ Audit!Stops(s)
    BY <1>0, <2>2, AuditGrows, AuditAppends
  <2> QED BY <2>1, <2>2 DEF Searching, Screen, AuditLog, Respond
<1> DEFINE Final ==
      /\ verdict' \in [Search -> {"auto-green", "pending-review", "auto-block", "pending-block"}]
      /\ answer' \in [Search -> {"none", "200", "500", "503"}]
      /\ \A t \in Search : answer[t] = "200" => answer'[t] = "200" /\ verdict'[t] = verdict[t]
<1>3. Final
  <2> USE DEF QInv, TypeOK
  <2>1. ASSUME NEW tlp \in Bands, NEW exact \in BOOLEAN, Screen(s, tlp, exact)
        PROVE  Final
    <3>1. Decision(tlp, exact) \in {"auto-green", "pending-review", "auto-block", "pending-block"}
      BY DEF Decision
    <3> QED BY <2>1, <3>1 DEF Screen
  <2>2. CASE AuditLog(s)
    BY <2>2 DEF AuditLog
  <2>3. CASE Respond(s)
    BY <2>3 DEF Respond
  <2> QED BY <2>1, <2>2, <2>3 DEF Searching
<1>4. TypeOK'
  <2>1. Workflow!LTypeOK'
    BY <1>0, <1>1, WorkflowTypeStays DEF Typed, decidevars
  <2> QED BY <1>1, <1>2, <1>3, <2>1 DEF QInv, TypeOK, decidevars, queuevars
<1> QED BY <1>1, <1>2, <1>3, <1>4

(* ... those of a decision ... *)
LEMMA DecisionSeen ==
  ASSUME QInv, NEW d \in Decider, Deciding(d)
  PROVE  /\ TypeOK' /\ UNCHANGED <<searchvars, queuevars>>
         /\ Grows(workflow, workflow', {d, "newline", "cut"})
         /\ \A e \in Decider : reply[e] # "new" =>
              reply'[e] # "new" /\ case'[e] = case[e] /\ ruling'[e] = ruling[e]
         /\ \A e \in Decider : reply[e] = "200" => reply'[e] = "200"
<1>0. Typed
  BY DEF QInv, TypeOK, Typed
<1>1. UNCHANGED <<searchvars, queuevars>>
  BY DEF Deciding, Decide, Takes, Misspell, WorkflowLog, Decided, searchvars, queuevars
<1>2. Workflow!LTypeOK' /\ Grows(workflow, workflow', {d, "newline", "cut"})
  <2>1. CASE UNCHANGED <<workflow, wphase>>
    BY <1>0, <2>1, WorkflowTypeStays DEF Typed, Grows
  <2>2. CASE Workflow!Open(d) \/ Workflow!GoesOn(d) \/ Workflow!Stops(d)
    BY <1>0, <2>2, WorkflowGrows, WorkflowAppends DEF Typed
  <2> QED BY <2>1, <2>2 DEF Deciding, Decide, Takes, Misspell, WorkflowLog, Decided
<1> DEFINE Final ==
      /\ case' \in [Decider -> Search \cup {"nothing"}]
      /\ ruling' \in [Decider -> {"reviewed-approved", "reviewed-blocked"}]
      /\ reply' \in [Decider -> {"new", "found", "200", "400", "404", "500"}]
      /\ after' \in [Decider -> SUBSET Decider]
      /\ \A e \in Decider : reply[e] # "new" =>
              reply'[e] # "new" /\ case'[e] = case[e] /\ ruling'[e] = ruling[e]
      /\ \A e \in Decider : reply[e] = "200" => reply'[e] = "200"
<1>3. Final
  <2> USE DEF QInv, TypeOK
  <2>1. ASSUME NEW s \in Search, NEW word \in Words, Decide(d, s, word)
        PROVE  Final
    <3>1. Ruling(word) # "none" => Ruling(word) \in {"reviewed-approved", "reviewed-blocked"}
      BY DEF Ruling
    <3>2. Answered \in SUBSET Decider
      BY DEF Answered
    <3> QED BY <2>1, <3>1, <3>2 DEF Decide, Takes
  <2>2. ASSUME NEW word \in Words, Misspell(d, word)
        PROVE  Final
    BY <2>2 DEF Misspell
  <2>3. CASE WorkflowLog(d)
    BY <2>3 DEF WorkflowLog
  <2>4. CASE Decided(d)
    BY <2>4 DEF Decided
  <2> QED BY <2>1, <2>2, <2>3, <2>4 DEF Deciding
<1>4. TypeOK'
  <2>1. Audit!LTypeOK'
    BY <1>0, <1>1, AuditTypeStays DEF Typed, searchvars
  <2> QED BY <1>1, <1>2, <1>3, <2>1 DEF QInv, TypeOK, searchvars, queuevars
<1> QED BY <1>1, <1>2, <1>3, <1>4

(* ... and the newest events of the audit log are events. *)
LEMMA NewestEvents ==
  ASSUME Audit!LTypeOK
  PROVE  /\ Audit!Entries = Keep(audit, Search)
         /\ Audit!Entries \in Seq(Search)
         /\ Newest(Window) \in Seq(Search)
<1>1. Audit!Entries = Keep(audit, Search)
  BY DEF Audit!Entries, Audit!Keep, Keep
<1>2. audit \in Seq(Search \cup {"newline", "cut"})
  BY DEF Audit!LTypeOK
<1>3. Keep(audit, Search) \in Seq((Search \cup {"newline", "cut"}) \cap Search)
  BY <1>2, KeepPlaces
<1>4. Audit!Entries \in Seq(Search)
  BY <1>1, <1>3
<1> DEFINE all == Audit!Entries
           n == Len(all)
           m == IF n < Window THEN n ELSE Window
           new == [i \in 1..m |-> all[n + 1 - i]]
<1> HIDE DEF all
<1>5. n \in Nat /\ Window \in Nat /\ m \in Nat /\ m <= n
  BY <1>4, ReviewAssumption DEF all
<1>6. \A i \in 1..m : all[n + 1 - i] \in Search
  BY <1>4, <1>5 DEF all
<1>7. new \in Seq(Search)
  BY <1>5, <1>6
<1>8. Newest(Window) = new
  BY DEF Newest, all
<1> QED BY <1>1, <1>4, <1>7, <1>8

LEMMA QueueTyped ==
  ASSUME QInv, Queueing
  PROVE  TypeOK'
<1>1. UNCHANGED <<searchvars, decidevars>>
  BY DEF Queueing, Queue, QueueItem, QueueAnswer, searchvars, decidevars
<1>2. Audit!LTypeOK' /\ Workflow!LTypeOK'
  BY <1>1, AuditTypeStays, WorkflowTypeStays DEF QInv, TypeOK, searchvars, decidevars
<1>3. queue' \in {"new", "reading", "200", "500"} /\ todo' \in Seq(Search)
  <2>1. Newest(Window) \in Seq(Search)
    BY NewestEvents DEF QInv, TypeOK
  <2>2. todo # <<>> => Tail(todo) \in Seq(Search)
    BY DEF QInv, TypeOK
  <2> QED BY <2>1, <2>2 DEF Queueing, Queue, QueueItem, QueueAnswer, QInv, TypeOK
<1>4. items' \subseteq Search
  <2>1. QueueItem => Head(todo) \in Search
    BY DEF QueueItem, QInv, TypeOK
  <2> QED BY <2>1 DEF Queueing, Queue, QueueItem, QueueAnswer, QInv, TypeOK
<1>5. every' \in BOOLEAN
  BY Zenon DEF Queueing, Queue, QueueItem, QueueAnswer, QInv, TypeOK
<1>6. due' \subseteq Search /\ settled' \subseteq Search \cup {"nothing"}
  BY DEF Queueing, Queue, QueueItem, QueueAnswer, QInv, TypeOK
<1>7. UNCHANGED <<verdict, answer, case, ruling, reply, after>>
  BY <1>1 DEF searchvars, decidevars
<1>8. misled' \subseteq Search
  <2>1. QueueItem => Head(todo) \in Search
    BY DEF QueueItem, QInv, TypeOK
  <2> QED BY <2>1 DEF Queueing, Queue, QueueItem, QueueAnswer, QInv, TypeOK
<1> QED BY <1>2, <1>3, <1>4, <1>5, <1>6, <1>7, <1>8 DEF QInv, TypeOK
-----------------------------------------------------------------------------
LEMMA DecisionsStay ==
  ASSUME Wrote, InOrder, UNCHANGED decidevars
  PROVE  Wrote' /\ InOrder'
BY DEF Wrote, InOrder, decidevars

(* The places of t are those of s, with what they held, and maybe one after. *)
Extends(s, t, lines) ==
  /\ \A i \in DOMAIN s : i \in DOMAIN t /\ t[i] = s[i]
  /\ \A i \in DOMAIN t : i \in DOMAIN s \/ ((\A j \in DOMAIN s : j < i) /\ t[i] \in lines)

LEMMA GrowsExtends ==
  ASSUME NEW S, NEW s \in Seq(S), NEW t, NEW lines, Grows(s, t, lines)
  PROVE  Extends(s, t, lines)
<1>1. CASE t = s
  BY <1>1 DEF Extends
<1>2. ASSUME NEW x \in lines, t = Append(s, x) PROVE Extends(s, t, lines)
  BY <1>2 DEF Extends
<1> QED BY <1>1, <1>2 DEF Grows

LEMMA DecisionsStep ==
  ASSUME RInv, QInv, NEW d \in Decider, Deciding(d)
  PROVE  Wrote' /\ InOrder'
<1> USE DEF QInv, TypeOK
<1>1. ASSUME NEW s \in Search, NEW word \in Words, Decide(d, s, word)
      PROVE  Wrote' /\ InOrder'
  <2>1. reply[d] = "new" /\ UNCHANGED <<workflow, wphase>>
        /\ reply'[d] \in {"found", "404"} /\ after'[d] = Answered
        /\ \A e \in Decider \ {d} : /\ reply'[e] = reply[e] /\ case'[e] = case[e]
                                    /\ after'[e] = after[e]
    BY <1>1 DEF Decide, Takes
  <2>2. \A i \in DOMAIN workflow : workflow[i] # d
    BY <2>1 DEF RInv, Grounded
  <2>3. \A e \in Answered : e \in Decider \ {d} /\ reply[e] \notin {"new", "found"}
    BY <2>1 DEF Answered
  <2>4. \A e \in Decider : d \notin after[e]
    BY <2>1 DEF Wrote
  <2> QED BY <2>1, <2>2, <2>3, <2>4 DEF Wrote, InOrder
<1>2. ASSUME NEW word \in Words, Misspell(d, word) PROVE Wrote' /\ InOrder'
  BY <1>2 DEF Misspell, Wrote, InOrder
<1>3. CASE WorkflowLog(d)
  <2>1. /\ reply[d] = "found" /\ UNCHANGED <<case, reply, after>>
        /\ Workflow!Open(d) \/ Workflow!GoesOn(d) \/ Workflow!Stops(d)
    BY <1>3 DEF WorkflowLog
  <2>2. /\ Grows(workflow, workflow', {d, "newline", "cut"})
        /\ wphase[d] # "ok" /\ \A e \in Decider \ {d} : wphase'[e] = wphase[e]
        /\ wphase'[d] \in {"newline", "sync", "ok"} =>
             wphase[d] \in {"newline", "sync"} \/ workflow' = Append(workflow, d)
    BY <2>1, WorkflowAppends
  <2>3. workflow \in Seq(Decider \cup {"newline", "cut"})
    BY DEF Workflow!LTypeOK
  <2>4. Extends(workflow, workflow', {d, "newline", "cut"})
    BY <2>2, <2>3, GrowsExtends
  <2>5. workflow' = Append(workflow, d) => \E i \in DOMAIN workflow' : workflow'[i] = d
    <3>1. SUFFICES ASSUME workflow' = Append(workflow, d)
                   PROVE  \E i \in DOMAIN workflow' : workflow'[i] = d
      OBVIOUS
    <3>2. Len(workflow) + 1 \in DOMAIN workflow' /\ workflow'[Len(workflow) + 1] = d
      BY <2>3, <3>1
    <3> QED BY <3>2
  <2>6. \A e \in Decider : wphase'[e] \in {"newline", "sync", "ok"} =>
          \E i \in DOMAIN workflow' : workflow'[i] = e
    BY <2>2, <2>4, <2>5 DEF Wrote, Extends
  <2>7. ASSUME NEW i \in DOMAIN workflow', NEW j \in DOMAIN workflow',
               workflow'[i] \in Decider, workflow'[j] \in after[workflow'[i]]
        PROVE  j < i
    <3>1. workflow'[j] # d /\ workflow'[j] \in Decider
      <4> DEFINE w == workflow'[i]
      <4>1. w \in Decider /\ after[w] \subseteq Decider
        BY <2>7
      <4> HIDE DEF w
      <4>2. d \notin after[w]
        BY <2>1, <4>1 DEF Wrote
      <4> USE DEF w
      <4> QED BY <2>7, <4>1, <4>2
    <3>2. j \in DOMAIN workflow
      BY <2>4, <3>1, ReviewAssumption DEF Extends
    <3>3. CASE i \in DOMAIN workflow
      BY <2>4, <2>7, <3>2, <3>3 DEF InOrder, Extends
    <3>4. CASE i \notin DOMAIN workflow
      BY <2>4, <3>2, <3>4 DEF Extends
    <3> QED BY <3>3, <3>4
  <2>8. InOrder'
    BY <2>1, <2>7 DEF InOrder
  <2>9. \A e \in Decider : reply[e] = "200" => wphase'[e] = "ok"
    BY <2>1, <2>2 DEF Wrote
  <2>10. Wrote'
    BY <2>1, <2>6, <2>9 DEF Wrote
  <2> QED BY <2>8, <2>10
<1>4. CASE Decided(d)
  BY <1>4 DEF Decided, Wrote, InOrder
<1> QED BY <1>1, <1>2, <1>3, <1>4 DEF Deciding
-----------------------------------------------------------------------------
(* A log that can be read now could be read before. *)
LEMMA ReadableBefore ==
  ASSUME Workflow!LTypeOK, NEW lines, Grows(workflow, workflow', lines), Workflow!Readable'
  PROVE  Workflow!Readable
<1>0. workflow \in Seq(Decider \cup {"newline", "cut"})
  BY DEF Workflow!LTypeOK
<1>1. CASE workflow' = workflow
  BY <1>1 DEF Workflow!Readable, Workflow!OwnLine
<1>2. ASSUME NEW t \in lines, workflow' = Append(workflow, t) PROVE Workflow!Readable
  <2>1. /\ \A i \in DOMAIN workflow : i \in DOMAIN workflow' /\ workflow'[i] = workflow[i]
        /\ Len(workflow') = Len(workflow) + 1 /\ Len(workflow) \in Nat
        /\ DOMAIN workflow = 1..Len(workflow)
    BY <1>0, <1>2
  <2> QED BY <2>1 DEF Workflow!Readable, Workflow!OwnLine
<1> QED BY <1>1, <1>2 DEF Grows

(* More and more events are newer than s. *)
LEMMA NewerFinite ==
  ASSUME Audit!LTypeOK, NEW s
  PROVE  IsFiniteSet(Newer(s)) /\ Cardinality(Newer(s)) \in Nat
<1>1. audit \in Seq(Search \cup {"newline", "cut"})
  BY DEF Audit!LTypeOK
<1>2. Len(audit) \in Int /\ 1 \in Int /\ Newer(s) \subseteq 1..Len(audit)
  BY <1>1 DEF Newer
<1>3. IsFiniteSet(1..Len(audit))
  BY <1>2, FS_Interval
<1>4. IsFiniteSet(Newer(s))
  BY <1>2, <1>3, FS_Subset
<1> QED BY <1>4, FS_CardinalityType

LEMMA NewerGrows ==
  ASSUME Audit!LTypeOK, Audit!LTypeOK', NEW lines, Grows(audit, audit', lines), NEW s
  PROVE  /\ Cardinality(Newer(s)) <= Cardinality(Newer(s)')
         /\ Cardinality(Newer(s)) \in Nat /\ Cardinality(Newer(s)') \in Nat
<1>1. audit \in Seq(Search \cup {"newline", "cut"})
  BY DEF Audit!LTypeOK
<1>2. Extends(audit, audit', lines)
  BY <1>1, GrowsExtends
<1>3. Newer(s) \subseteq Newer(s)'
  BY <1>2 DEF Newer, Extends
<1>4. IsFiniteSet(Newer(s)')
  <2>1. audit' \in Seq(Search \cup {"newline", "cut"})
    BY DEF Audit!LTypeOK
  <2>2. Len(audit') \in Int /\ 1 \in Int /\ Newer(s)' \subseteq 1..Len(audit')
    BY <2>1 DEF Newer
  <2>3. IsFiniteSet(1..Len(audit'))
    BY <2>2, FS_Interval
  <2> QED BY <2>2, <2>3, FS_Subset
<1>5. Cardinality(Newer(s)') \in Nat
  BY <1>4, FS_CardinalityType
<1> QED BY <1>3, <1>4, <1>5, FS_Subset, NewerFinite

(* A page of the newest events holds every event that is not behind a whole
   window of newer ones. *)
LEMMA NewestReaches ==
  ASSUME Audit!LTypeOK, NEW s \in Search, Logged(s)
  PROVE  \/ \E i \in DOMAIN Newest(Window) : Newest(Window)[i] = s
         \/ Window <= Cardinality(Newer(s))
<1> DEFINE all == Audit!Entries
           n == Len(all)
           m == IF n < Window THEN n ELSE Window
<1>1. audit \in Seq(Search \cup {"newline", "cut"}) /\ all = Keep(audit, Search)
      /\ all \in Seq(Search)
  BY NewestEvents DEF Audit!LTypeOK
<1>2. PICK i \in DOMAIN audit : audit[i] = s
  BY DEF Logged
<1> DEFINE L == {j \in (i + 1)..Len(audit) : audit[j] \in Search}
<1>3. PICK k \in 1..Len(Keep(audit, Search)) :
        /\ Keep(audit, Search)[k] = s
        /\ Len(Keep(audit, Search)) - k <= Cardinality(L)
  BY <1>1, <1>2, KeepRest
<1>4. Cardinality(L) <= Cardinality(Newer(s)) /\ Cardinality(L) \in Nat
  <2>1. L \subseteq Newer(s)
    BY <1>1, <1>2, ReviewAssumption DEF Newer
  <2>2. IsFiniteSet(Newer(s))
    BY NewerFinite
  <2>3. IsFiniteSet(L) /\ Cardinality(L) <= Cardinality(Newer(s))
    BY <2>1, <2>2, FS_Subset
  <2> QED BY <2>3, FS_CardinalityType
<1>5. Cardinality(Newer(s)) \in Nat /\ Window \in Nat
  BY NewerFinite, ReviewAssumption
<1> HIDE DEF L, all
<1>6. k \in 1..n /\ all[k] = s /\ n - k <= Cardinality(L) /\ n \in Nat
  BY <1>1, <1>3
<1>7. CASE n + 1 - k <= Window
  <2>1. n + 1 - k \in 1..m /\ n + 1 - (n + 1 - k) = k
    BY <1>5, <1>6, <1>7
  <2>2. DOMAIN Newest(Window) = 1..m /\ \A l \in 1..m : Newest(Window)[l] = all[n + 1 - l]
    BY DEF Newest, all
  <2> QED BY <1>6, <2>1, <2>2
<1>8. CASE Window < n + 1 - k
  BY <1>4, <1>5, <1>6, <1>8
<1> QED BY <1>5, <1>6, <1>7, <1>8
-----------------------------------------------------------------------------
LEMMA QueuedSearching ==
  ASSUME QInv, NEW s \in Search, Searching(s)
  PROVE  Queued'
<1>1. /\ TypeOK' /\ UNCHANGED <<decidevars, queuevars>>
      /\ Grows(audit, audit', Search \cup {"newline", "cut"})
      /\ \A t \in Search : answer[t] = "200" => answer'[t] = "200" /\ verdict'[t] = verdict[t]
  BY SearchSeen
<1>2. \A t : Cardinality(Newer(t)) <= Cardinality(Newer(t)')
              /\ Cardinality(Newer(t)) \in Nat /\ Cardinality(Newer(t)') \in Nat
  <2> SUFFICES ASSUME NEW t
               PROVE  /\ Cardinality(Newer(t)) <= Cardinality(Newer(t)')
                      /\ Cardinality(Newer(t)) \in Nat /\ Cardinality(Newer(t)') \in Nat
    OBVIOUS
  <2>1. Audit!LTypeOK /\ Audit!LTypeOK'
    BY <1>1 DEF QInv, TypeOK
  <2> QED BY <1>1, <2>1, NewerGrows
<1>3. \A t \in due : t \in Search
  BY DEF QInv, TypeOK
<1>4. ASSUME NEW t, Reached(t) PROVE Reached(t)'
  BY <1>1, <1>2, <1>4, ReviewAssumption DEF Reached, queuevars
<1>5. Workflow!Readable' = Workflow!Readable
  BY <1>1 DEF decidevars, Workflow!Readable, Workflow!OwnLine
<1> QED BY <1>1, <1>3, <1>4, <1>5 DEF QInv, Queued, queuevars, decidevars, Undecided

LEMMA QueuedDeciding ==
  ASSUME QInv, NEW d \in Decider, Deciding(d)
  PROVE  Queued'
<1>1. /\ UNCHANGED <<searchvars, queuevars>>
      /\ Grows(workflow, workflow', {d, "newline", "cut"})
      /\ \A e \in Decider : reply[e] # "new" => case'[e] = case[e]
      /\ \A e \in Decider : reply[e] = "200" => reply'[e] = "200"
  BY DecisionSeen
<1>2. Workflow!Readable' => Workflow!Readable
  BY <1>1, ReadableBefore DEF QInv, TypeOK
<1>3. ASSUME NEW t, Reached(t) PROVE Reached(t)'
  BY <1>1, <1>3 DEF Reached, Newer, searchvars, queuevars
<1>4. ASSUME NEW t \in Search, Undecided(t)' PROVE Undecided(t)
  <2>1. t # "nothing"
    BY ReviewAssumption
  <2> QED BY <1>1, <1>4, <2>1 DEF Undecided, QInv, Wrote
<1>5. \A t \in due : t \in Search
  BY DEF QInv, TypeOK
<1>6. \A t \in settled : \E e \in Decider : reply'[e] = "200" /\ case'[e] = t
  BY <1>1 DEF QInv, Queued
<1> QED BY <1>1, <1>2, <1>3, <1>4, <1>5, <1>6 DEF QInv, Queued, searchvars, queuevars

(* What is looked at and has been settled is not listed ... *)
LEMMA SettledShown ==
  ASSUME QInv, NEW s \in settled, Workflow!Readable
  PROVE  Current(s) \in {"reviewed-approved", "reviewed-blocked"}
<1>1. PICK d \in Decider : reply[d] = "200" /\ case[d] = s
  BY DEF QInv, Queued
<1>2. PICK i \in DOMAIN workflow : workflow[i] = d
  BY <1>1 DEF QInv, Wrote
<1>3. Workflow!LTypeOK /\ workflow[i] \in On(s)
  BY <1>1, <1>2 DEF QInv, TypeOK, On
<1>4. \E j \in DOMAIN workflow : workflow[j] \in On(s) /\ Current(s) = ruling[workflow[j]]
  BY <1>3, CurrentDecided
<1> QED BY <1>4 DEF QInv, TypeOK, On

(* ... and what is undecided is shown with its own decision. *)
LEMMA UndecidedShown ==
  ASSUME QInv, NEW s, Undecided(s)
  PROVE  Current(s) = verdict[s]
<1>1. Workflow!LTypeOK /\ \A i \in DOMAIN workflow : workflow[i] \notin On(s)
  BY DEF QInv, TypeOK, On, Undecided
<1> QED BY <1>1, CurrentUndecided

LEMMA QueuedQueueing ==
  ASSUME RInv, QInv, Queueing
  PROVE  Queued'
<1>1. UNCHANGED <<searchvars, decidevars>>
  BY DEF Queueing, Queue, QueueItem, QueueAnswer, searchvars, decidevars
<1>2. (\A t : Newer(t)' = Newer(t)) /\ Workflow!Readable' = Workflow!Readable
      /\ \A t : Undecided(t)' = Undecided(t)
  BY <1>1 DEF searchvars, decidevars, Newer, Workflow!Readable, Workflow!OwnLine, Undecided
<1>3. ASSUME NEW auto \in BOOLEAN, Queue(auto) PROVE Queued'
  <2>1. /\ queue = "new" /\ items = {} /\ items' = {}
        /\ due' = {s \in Search : answer[s] = "200" /\ Pending(verdict[s])}
        /\ settled' = {case[d] : d \in {e \in Decider : reply[e] = "200"}}
        /\ \/ queue' = "reading" /\ (todo' = Newest(Window) \/ misled' = Search)
           \/ queue' = "500"
        /\ misled \subseteq misled'
    BY <1>3 DEF Queue, QInv, Queued, TypeOK
  <2>2. ASSUME NEW s \in due', queue' = "reading" PROVE Reached(s)' \/ s \in misled'
    <3>1. s \in Search /\ Logged(s)
      BY <2>1 DEF RInv, Recorded
    <3>2. todo' = Newest(Window) \/ misled' = Search
      BY <2>1, <2>2
    <3>3. todo' = Newest(Window) =>
            (\E i \in DOMAIN todo' : todo'[i] = s) \/ Window <= Cardinality(Newer(s))
      BY <3>1, NewestReaches DEF QInv, TypeOK
    <3> QED BY <1>2, <3>1, <3>2, <3>3 DEF Reached
  <2>3. \A s \in due' : answer'[s] = "200" /\ Pending(verdict'[s])
    BY <1>1, <2>1 DEF searchvars
  <2>4. \A s \in settled' : \E d \in Decider : reply'[d] = "200" /\ case'[d] = s
    BY <1>1, <2>1 DEF decidevars
  <2> QED BY <2>1, <2>2, <2>3, <2>4 DEF Queued
<1>4. CASE QueueItem
  <2> DEFINE s == Head(todo)
             show(decision) == Pending(decision) \/ (every /\ decision = "auto-block")
  <2>1. PICK decision \in {Current(s), verdict[s]} :
          /\ items' = items \cup {t \in {s} : show(decision)}
          /\ misled' = IF decision = Current(s) THEN misled ELSE misled \cup {s}
    BY <1>4 DEF QueueItem
  <2>2. /\ queue = "reading" /\ queue' = "reading" /\ todo # <<>> /\ todo' = Tail(todo)
        /\ UNCHANGED <<due, settled>>
    BY <1>4 DEF QueueItem
  <2> HIDE DEF show
  <2>3. /\ todo \in Seq(Search) /\ s = todo[1]
        /\ \A i \in DOMAIN todo : i = 1 \/ (i - 1 \in DOMAIN todo' /\ todo'[i - 1] = todo[i])
    BY <2>2 DEF QInv, TypeOK
  <2> HIDE DEF s
  <2>4. Workflow!Readable' => items' \cap settled' \subseteq misled'
    <3>1. Workflow!Readable /\ s \in settled => ~show(Current(s))
      BY SettledShown DEF show, Pending
    <3> QED BY <1>2, <2>1, <2>2, <3>1 DEF QInv, Queued
  <2>5. ASSUME NEW t \in due, Undecided(t) PROVE Reached(t)' \/ t \in misled'
    <3>1. \/ t \in items \/ (\E i \in DOMAIN todo : todo[i] = t)
          \/ Window <= Cardinality(Newer(t)) \/ t \in misled
      BY <2>2, <2>5 DEF QInv, Queued, Reached
    <3>2. t = s => show(decision)
      BY <2>1, <2>5, UndecidedShown DEF show, QInv, Queued
    <3>3. (t \in items \/ t = s => t \in items') /\ misled \subseteq misled'
      BY <2>1, <3>2
    <3> QED BY <1>2, <2>3, <3>1, <3>3 DEF Reached
  <2>6. UNCHANGED <<answer, verdict, reply, case>>
    BY <1>1 DEF searchvars, decidevars
  <2> QED BY <1>2, <2>2, <2>4, <2>5, <2>6 DEF QInv, Queued
<1>5. CASE QueueAnswer
  <2>1. UNCHANGED <<answer, verdict, reply, case, todo, items, due, settled, misled>>
        /\ queue = "reading" /\ queue' = "200" /\ todo = <<>>
    BY <1>1, <1>5 DEF QueueAnswer, searchvars, decidevars
  <2>2. \A t : Reached(t)' <=> Reached(t)
    BY <1>2, <2>1 DEF Reached
  <2> QED BY <1>2, <2>1, <2>2 DEF QInv, Queued
<1> QED BY <1>3, <1>4, <1>5 DEF Queueing
-----------------------------------------------------------------------------
LEMMA QInvNext == RInv /\ QInv /\ [Next]_vars => QInv'
<1> SUFFICES ASSUME RInv, QInv, [Next]_vars PROVE QInv'
  OBVIOUS
<1>1. ASSUME NEW s \in Search, Searching(s) PROVE QInv'
  <2>1. TypeOK' /\ UNCHANGED decidevars
    BY <1>1, SearchSeen
  <2>2. Queued'
    BY <1>1, QueuedSearching
  <2> QED BY <2>1, <2>2, DecisionsStay DEF QInv
<1>2. ASSUME NEW d \in Decider, Deciding(d) PROVE QInv'
  BY <1>2, DecisionSeen, DecisionsStep, QueuedDeciding DEF QInv
<1>3. CASE Queueing
  <2>1. UNCHANGED decidevars
    BY <1>3 DEF Queueing, Queue, QueueItem, QueueAnswer, decidevars
  <2> QED BY <1>3, <2>1, QueueTyped, QueuedQueueing, DecisionsStay DEF QInv
<1>4. CASE UNCHANGED vars
  <2>1. UNCHANGED <<audit, aphase, verdict, answer>> /\ UNCHANGED decidevars
        /\ UNCHANGED <<workflow, wphase, case, ruling, reply, after>>
        /\ UNCHANGED <<queue, todo, items, every, due, settled, misled>>
    BY <1>4 DEF vars, searchvars, decidevars, queuevars
  <2>2. TypeOK'
    BY <2>1, AuditTypeStays, WorkflowTypeStays DEF QInv, TypeOK
  <2>3. \A t : Newer(t)' = Newer(t)
    BY <2>1 DEF Newer
  <2>4. Queued'
    BY <2>1, <2>3 DEF QInv, Queued, Reached, Undecided, Workflow!Readable, Workflow!OwnLine
  <2> QED BY <2>1, <2>2, <2>4, DecisionsStay DEF QInv
<1> QED BY <1>1, <1>2, <1>3, <1>4 DEF Next

LEMMA QInvHolds == Spec => [](RInv /\ QInv)
<1>1. RInv /\ QInv /\ [Next]_vars => (RInv /\ QInv)'
  BY RInvNext, QInvNext
<1> QED BY RInvInit, QInvInit, <1>1, PTL DEF Spec

(* Type correctness (TypeOK), for any number of searches and decisions. *)
THEOREM ReviewTyped == Spec => []TypeOK
<1>1. QInv => TypeOK
  BY DEF QInv
<1> QED BY QInvHolds, <1>1, PTL

(* The later of two reviewers is obeyed: what is shown (routes.rs:772-777) is
   the ruling that was answered and that no other overlaps or follows. *)
THEOREM LaterRulingWinsHolds == Spec => []LaterRulingWins
<1>1. QInv => LaterRulingWins
  <2> SUFFICES ASSUME QInv, NEW d \in Decider, reply[d] = "200", Workflow!Readable,
                      \A e \in Decider \ {d} : case[e] = case[d] => e \in after[d]
               PROVE  Current(case[d]) = ruling[d]
    BY DEF LaterRulingWins
  <2> DEFINE s == case[d]
  <2>1. PICK i \in DOMAIN workflow : workflow[i] = d
    BY DEF QInv, Wrote
  <2>2. Workflow!LTypeOK /\ workflow[i] \in On(s)
    BY <2>1 DEF QInv, TypeOK, On
  <2>3. PICK j \in DOMAIN workflow :
          i <= j /\ workflow[j] \in On(s) /\ Current(s) = ruling[workflow[j]]
    BY <2>2, CurrentDecided
  <2>4. i \in Nat /\ j \in Nat
    BY <2>2 DEF Workflow!LTypeOK
  <2>5. workflow[j] \in after[d] => j < i
    BY <2>1 DEF QInv, InOrder
  <2>6. workflow[j] = d
    BY <2>3, <2>4, <2>5 DEF On
  <2> QED BY <2>3, <2>6
<1> QED BY QInvHolds, <1>1, PTL

(* The queue (routes.rs:974-1009) does not list what was settled before it was
   asked for. *)
THEOREM QueueFreshHolds == Spec => []QueueFresh
<1>1. QInv => QueueFresh
  BY DEF QInv, Queued, QueueFresh
<1> QED BY QInvHolds, <1>1, PTL

(* The queue lists everything that waited when it was asked for and still does,
   but for what lies behind a whole window of newer events. *)
THEOREM QueueCompleteHolds == Spec => []QueueComplete
<1>1. QInv => QueueComplete
  <2> SUFFICES ASSUME QInv, queue = "200", NEW s \in Search, Waiting(s),
                      s \notin misled, Cardinality(Newer(s)) < Window
               PROVE  s \in items
    BY DEF QueueComplete
  <2>1. s \in due /\ Undecided(s)
    BY DEF Waiting, Undecided
  <2>2. Reached(s) /\ todo = <<>>
    BY <2>1 DEF QInv, Queued
  <2>3. Cardinality(Newer(s)) \in Nat /\ Window \in Nat
    BY NewerFinite, ReviewAssumption DEF QInv, TypeOK
  <2> QED BY <2>2, <2>3 DEF Reached
<1> QED BY QInvHolds, <1>1, PTL
-----------------------------------------------------------------------------
LEMMA ReviewStepsLogs ==
  [Next]_vars => [Audit!LNext]_(Audit!lvars) /\ [Workflow!LNext]_(Workflow!lvars)
<1> DEFINE Goal == [Audit!LNext]_(Audit!lvars) /\ [Workflow!LNext]_(Workflow!lvars)
<1> SUFFICES ASSUME [Next]_vars PROVE Goal
  OBVIOUS
<1>a. UNCHANGED <<audit, aphase>> => [Audit!LNext]_(Audit!lvars)
  BY DEF Audit!lvars
<1>b. UNCHANGED <<workflow, wphase>> => [Workflow!LNext]_(Workflow!lvars)
  BY DEF Workflow!lvars
<1>1. ASSUME NEW s \in Search, Searching(s) PROVE Goal
  <2>1. UNCHANGED <<workflow, wphase>>
    BY <1>1 DEF Searching, Screen, AuditLog, Respond, decidevars
  <2>2. [Audit!LNext]_(Audit!lvars)
    BY <1>1, <1>a DEF Searching, Screen, AuditLog, Respond, Audit!LNext
  <2> QED BY <1>b, <2>1, <2>2
<1>2. ASSUME NEW d \in Decider, Deciding(d) PROVE Goal
  <2>1. UNCHANGED <<audit, aphase>>
    BY <1>2 DEF Deciding, Decide, Takes, Misspell, WorkflowLog, Decided, searchvars
  <2>2. [Workflow!LNext]_(Workflow!lvars)
    BY <1>2, <1>b DEF Deciding, Decide, Takes, Misspell, WorkflowLog, Decided, Workflow!LNext
  <2> QED BY <1>a, <2>1, <2>2
<1>3. ASSUME Queueing PROVE Goal
  BY <1>3, <1>a, <1>b DEF Queueing, Queue, QueueItem, QueueAnswer, searchvars, decidevars
<1>4. ASSUME UNCHANGED vars PROVE Goal
  BY <1>4, <1>a, <1>b DEF vars, searchvars, decidevars
<1> QED BY <1>1, <1>2, <1>3, <1>4 DEF Next

(* All that searches and reviewers do to their logs is append_jsonl: the audit
   log and the workflow log each are an AppendLog. *)
THEOREM ReviewUsesLogs == Spec => Audit!LSpec /\ Workflow!LSpec
<1>1. Init => Audit!LInit /\ Workflow!LInit
  BY DEF Init
<1> QED BY <1>1, ReviewStepsLogs, PTL DEF Spec, Audit!LSpec, Workflow!LSpec
=============================================================================
