------------------------------- MODULE Ledger -------------------------------
(***************************************************************************)
(* What storage-jsonfs promises of audit.jsonl and workflow.jsonl whatever *)
(* becomes of those who append: a record once in the log stays at its      *)
(* place, is there once, and is there when its append is acknowledged; a   *)
(* reader is shown all of them or, from some time on for good, nothing.    *)
(***************************************************************************)
EXTENDS Sequences

CONSTANT Writer      \* the processes that append a record each

VARIABLES
  records,     \* the records, by who appended them
  whole,       \* a reader is shown them
  acked        \* whose append has returned Ok

bvars == <<records, whole, acked>>

Init == records = <<>> /\ whole = TRUE /\ acked = {}

Recorded(w) == \E i \in DOMAIN records : records[i] = w

(* The record goes behind all others; it may spoil the log. *)
Add(w) ==
  /\ ~Recorded(w)
  /\ records' = Append(records, w)
  /\ whole' \in {whole, FALSE}
  /\ UNCHANGED acked

Spoil ==
  /\ whole' = FALSE
  /\ UNCHANGED <<records, acked>>

Acknowledge(w) ==
  /\ Recorded(w)
  /\ acked' = acked \cup {w}
  /\ UNCHANGED <<records, whole>>

Next == Spoil \/ \E w \in Writer : Add(w) \/ Acknowledge(w)

Spec == Init /\ [][Next]_bvars
=============================================================================
