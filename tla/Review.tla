------------------------------- MODULE Review -------------------------------
(***************************************************************************)
(* Screening and review: routes.rs search, review_decide and review_queue, *)
(* over the two logs audit.jsonl and workflow.jsonl (AppendLog).           *)
(* A search is answered only after its event is in the audit log; a person *)
(* then decides on it, which adds an entry to the workflow log; the last   *)
(* entry is the decision in force.  Every request runs in an instance of   *)
(* its own, so all of them interleave between any two file operations.     *)
(* An event is named by its search, a workflow entry by the request that   *)
(* made it: the ids are fresh (Uuid::now_v7).                              *)
(***************************************************************************)
EXTENDS Filter, FiniteSets

CONSTANTS
  Search,     \* search requests
  Decider,    \* review_decide requests
  Window,     \* how many events review_queue looks at (500 in the code)
  Bands,      \* the lights the engine may answer with
  Words       \* what a reviewer may send as the decision

ASSUME ReviewAssumption ==
  /\ Window \in Nat \ {0}
  /\ Bands \subseteq {"green", "yellow", "red"}
  /\ (Search \cup Decider) \cap {"newline", "cut", "nothing"} = {}

VARIABLES
  audit, aphase,      \* audit.jsonl: see AppendLog
  workflow, wphase,   \* workflow.jsonl
  verdict,    \* verdict[s]: the decision s's event carries
  answer,     \* answer[s]: what s was answered
  case,       \* case[d]: the event d decides on
  ruling,     \* ruling[d]: what d decides
  reply,      \* reply[d]: where d is, or what it was answered
  queue,      \* the review_queue request: "new", "reading" or its answer
  todo,       \* the events it has yet to look at
  items,      \* the events it will list
  every,      \* include=auto
  due, settled, after, misled   \* history: see Init

Audit == INSTANCE AppendLog WITH Writer <- Search, text <- audit, phase <- aphase
Workflow == INSTANCE AppendLog WITH
  Writer <- Decider, text <- workflow, phase <- wphase

searchvars == <<audit, aphase, verdict, answer>>
decidevars == <<workflow, wphase, case, ruling, reply, after>>
queuevars == <<queue, todo, items, every, due, settled, misled>>
vars == <<searchvars, decidevars, queuevars>>

Init ==
  /\ Audit!LInit /\ Workflow!LInit
  /\ verdict = [s \in Search |-> "auto-green"]
  /\ answer = [s \in Search |-> "none"]
  /\ case = [d \in Decider |-> "nothing"]
  /\ ruling = [d \in Decider |-> "reviewed-approved"]
  /\ reply = [d \in Decider |-> "new"]
  /\ queue = "new" /\ todo = <<>> /\ items = {} /\ every = FALSE
  /\ due = {}         \* events answered and pending when the queue was asked for
  /\ settled = {}     \* events decided, and the decision answered, by then
  /\ after = [d \in Decider |-> {}]   \* whom d came after: answered before d began
  /\ misled = {}      \* events of which the queue did not read what a log holds
-----------------------------------------------------------------------------
(* The event's decision (routes.rs:525-530). *)
Decision(tlp, exact) ==
  CASE tlp = "green" -> "auto-green"
    [] tlp = "yellow" -> "pending-review"
    [] tlp = "red" /\ exact -> "auto-block"
    [] OTHER -> "pending-block"

Pending(decision) == decision \in {"pending-review", "pending-block"}

(* Mutant of Current: the first decision stands. *)
CurrentFirst(s) ==
  LET history == Keep(Workflow!Entries, {d \in Decider : case[d] = s})
  IN  IF Workflow!Readable /\ history # <<>>
        THEN ruling[Head(history)]
        ELSE verdict[s]

(* workflow_history(..).last(), else the event's own decision: also when the
   workflow log does not parse.  (A reading that a disk error spoils is QueueItem's.) *)
Current(s) ==
  LET history == Keep(Workflow!Entries, {d \in Decider : case[d] = s})
  IN  IF Workflow!Readable /\ history # <<>>
        THEN ruling[history[Len(history)]]
        ELSE verdict[s]

(* Mutant of Newest: the list is not reversed before it is cut. *)
Oldest(limit) ==
  LET all == Audit!Entries
  IN  [i \in 1 .. (IF Len(all) < limit THEN Len(all) ELSE limit) |-> all[i]]

(* audit_list_recent(limit, 0): the newest events, newest first. *)
Newest(limit) ==
  LET all == Audit!Entries
      n == Len(all)
  IN  [i \in 1 .. (IF n < limit THEN n ELSE limit) |-> all[n + 1 - i]]

Logged(s) == \E i \in DOMAIN audit : audit[i] = s
-----------------------------------------------------------------------------
(* search: a service that fails ends it with 503 or 502; otherwise the decision
   is taken and audit_log begins. *)
Screen(s, tlp, exact) ==
  /\ answer[s] = "none" /\ aphase[s] = "new"
  /\ \/ answer' = [answer EXCEPT ![s] = "503"] /\ UNCHANGED <<audit, aphase, verdict>>
     \/ /\ verdict' = [verdict EXCEPT ![s] = Decision(tlp, exact)]
        /\ Audit!Open(s) \/ Audit!Stops(s)
        /\ UNCHANGED answer
  /\ UNCHANGED <<decidevars, queuevars>>

AuditLog(s) ==
  /\ Audit!Appending(s)
  /\ Audit!GoesOn(s) \/ Audit!Stops(s)
  /\ UNCHANGED <<verdict, answer, decidevars, queuevars>>

(* Mutant of Respond: the result of audit_log is dropped. *)
RespondAnyway(s) ==
  /\ answer[s] = "none"
  /\ aphase[s] \in {"ok", "err"} /\ answer' = [answer EXCEPT ![s] = "200"]
  /\ UNCHANGED <<audit, aphase, verdict, decidevars, queuevars>>

(* 200 with audit_id and decision, or 500; a client may hear neither. *)
Respond(s) ==
  /\ answer[s] = "none"
  /\ \/ aphase[s] = "ok" /\ answer' = [answer EXCEPT ![s] = "200"]
     \/ aphase[s] \in {"ok", "err"} /\ answer' = [answer EXCEPT ![s] = "500"]
  /\ UNCHANGED <<audit, aphase, verdict, decidevars, queuevars>>
-----------------------------------------------------------------------------
Answered == {d \in Decider : reply[d] \in {"200", "400", "404", "500"}}

(* Mutant of Ruling: an older name of a decision is stored as it was sent. *)
RulingAsSent(word) ==
  IF word \in {"cleared", "approved", "reviewed-approved", "blocked", "reviewed-blocked"}
    THEN word ELSE "none"

(* The older names of a decision are still taken, but not stored. *)
Ruling(word) ==
  CASE word \in {"cleared", "approved", "reviewed-approved"} -> "reviewed-approved"
    [] word \in {"blocked", "reviewed-blocked"} -> "reviewed-blocked"
    [] OTHER -> "none"

Takes(d, s, word, next) ==
  /\ reply[d] = "new"
  /\ Ruling(word) # "none"
  /\ case' = [case EXCEPT ![d] = s]
  /\ ruling' = [ruling EXCEPT ![d] = Ruling(word)]
  /\ after' = [after EXCEPT ![d] = Answered]
  /\ reply' = [reply EXCEPT ![d] = next]
  /\ UNCHANGED <<workflow, wphase, searchvars, queuevars>>

(* Mutant of Decide: the event is not looked up. *)
DecideUnseen(d, s, word) == Takes(d, s, word, "found")

(* review_decide up to workflow_log: the event must be in the audit log; a log
   that cannot be read, for what it holds or for a disk error, counts as a log
   without it. *)
Decide(d, s, word) ==
  \E next \in {"404"} \cup (IF Audit!Readable /\ Logged(s) THEN {"found"} ELSE {}) :
    Takes(d, s, word, next)

(* Any other word ends the request before the lookup. *)
Misspell(d, word) ==
  /\ reply[d] = "new" /\ Ruling(word) = "none"
  /\ reply' = [reply EXCEPT ![d] = "400"]
  /\ UNCHANGED <<workflow, wphase, case, ruling, after, searchvars, queuevars>>

WorkflowLog(d) ==
  /\ reply[d] = "found"
  /\ Workflow!Open(d) \/ Workflow!GoesOn(d) \/ Workflow!Stops(d)
  /\ UNCHANGED <<case, ruling, reply, after, searchvars, queuevars>>

Decided(d) ==
  /\ reply[d] = "found"
  /\ \/ wphase[d] = "ok" /\ reply' = [reply EXCEPT ![d] = "200"]
     \/ wphase[d] \in {"ok", "err"} /\ reply' = [reply EXCEPT ![d] = "500"]
  /\ UNCHANGED <<workflow, wphase, case, ruling, after, searchvars, queuevars>>
-----------------------------------------------------------------------------
(* review_queue reads the audit log once: any disk error is a 500, except that a
   log whose stat fails counts as missing and lists nothing ... *)
Queue(auto) ==
  /\ queue = "new"
  /\ \/ Audit!Readable /\ queue' = "reading" /\ todo' = Newest(Window) /\ UNCHANGED misled
     \/ queue' = "500" /\ UNCHANGED <<todo, misled>>
     \/ queue' = "reading" /\ UNCHANGED todo /\ misled' = Search
  /\ every' = auto
  /\ due' = {s \in Search : answer[s] = "200" /\ Pending(verdict[s])}
  /\ settled' = {case[d] : d \in {e \in Decider : reply[e] = "200"}}
  /\ UNCHANGED <<items, searchvars, decidevars>>

(* Mutant of QueueItem: the event's own decision is shown. *)
QueueInitial ==
  /\ queue = "reading" /\ todo # <<>>
  /\ LET s == Head(todo)
     IN  items' = items \cup
           {t \in {s} : Pending(verdict[s]) \/ (every /\ verdict[s] = "auto-block")}
  /\ todo' = Tail(todo)
  /\ UNCHANGED <<queue, every, due, settled, misled, searchvars, decidevars>>

(* ... and the workflow log again for every event: on any error, as if nobody had
   decided on it. *)
QueueItem ==
  /\ queue = "reading" /\ todo # <<>>
  /\ LET s == Head(todo)
     IN \E decision \in {Current(s), verdict[s]} :
          /\ items' = items \cup
               {t \in {s} : Pending(decision) \/ (every /\ decision = "auto-block")}
          /\ misled' = IF decision = Current(s) THEN misled ELSE misled \cup {s}
  /\ todo' = Tail(todo)
  /\ UNCHANGED <<queue, every, due, settled, searchvars, decidevars>>

QueueAnswer ==
  /\ queue = "reading" /\ todo = <<>>
  /\ queue' = "200"
  /\ UNCHANGED <<todo, items, every, due, settled, misled, searchvars, decidevars>>
-----------------------------------------------------------------------------
Searching(s) ==
  \/ \E tlp \in Bands, exact \in BOOLEAN : Screen(s, tlp, exact)
  \/ AuditLog(s) \/ Respond(s)

Deciding(d) ==
  \/ \E word \in Words : (\E s \in Search : Decide(d, s, word)) \/ Misspell(d, word)
  \/ WorkflowLog(d) \/ Decided(d)

Queueing == (\E auto \in BOOLEAN : Queue(auto)) \/ QueueItem \/ QueueAnswer

Next ==
  \/ \E s \in Search : Searching(s)
  \/ \E d \in Decider : Deciding(d)
  \/ Queueing

Spec == Init /\ [][Next]_vars
-----------------------------------------------------------------------------
(* Type invariant. *)
TypeOK ==
  /\ Audit!LTypeOK /\ Workflow!LTypeOK
  /\ verdict \in [Search ->
       {"auto-green", "pending-review", "auto-block", "pending-block"}]
  /\ answer \in [Search -> {"none", "200", "500", "503"}]
  /\ case \in [Decider -> Search \cup {"nothing"}]
  /\ ruling \in [Decider -> {"reviewed-approved", "reviewed-blocked"}]
  /\ reply \in [Decider -> {"new", "found", "200", "400", "404", "500"}]
  /\ queue \in {"new", "reading", "200", "500"}
  /\ todo \in Seq(Search) /\ items \subseteq Search /\ every \in BOOLEAN
  /\ due \subseteq Search /\ settled \subseteq Search \cup {"nothing"}
  /\ after \in [Decider -> SUBSET Decider] /\ misled \subseteq Search

(* No search is answered whose event an auditor with a readable log would miss
   (routes.rs:543-545 logs before it answers). *)
AnsweredAudited ==
  Audit!Readable => \A s \in Search : answer[s] = "200" => Logged(s)

(* No decision stands on an event that was never logged. *)
DecisionsGrounded ==
  \A i \in DOMAIN workflow : workflow[i] \in Decider => Logged(case[workflow[i]])

(* Of two reviewers the later one is obeyed: a decision that was answered, and
   that no other on the same event overlaps or follows, is what the audit pages
   and the queue find in the workflow log, until it does not parse. *)
LaterRulingWins ==
  \A d \in Decider :
    /\ reply[d] = "200" /\ Workflow!Readable
    /\ \A e \in Decider \ {d} : case[e] = case[d] => e \in after[d]
    => Current(case[d]) = ruling[d]

(* What was decided, and answered, before the queue was asked for is not listed
   as pending, unless the workflow log does not parse, or could not be read for that
   very event. *)
QueueFresh ==
  queue = "200" /\ Workflow!Readable => items \cap settled \subseteq misled

(* What was answered as pending before the queue was asked for, and has had no
   reviewer since, is listed: the queue holds everything that waits, as far as
   its window of the newest events reaches.  Excepted is a queue that took the audit
   log for missing; a workflow log that cannot be read hides nothing that waits. *)
Waiting(s) == s \in due /\ \A d \in Decider : case[d] # s

Newer(s) ==
  {i \in DOMAIN audit : audit[i] # "newline" /\ \E j \in DOMAIN audit : j < i /\ audit[j] = s}

QueueComplete ==
  queue = "200" => \A s \in Search :
    Waiting(s) /\ s \notin misled /\ Cardinality(Newer(s)) < Window => s \in items
=============================================================================
