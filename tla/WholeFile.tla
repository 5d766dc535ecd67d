----------------------------- MODULE WholeFile -----------------------------
(***************************************************************************)
(* What storage-jsonfs promises of csl.json and users.json, "whole-file    *)
(* replace on bulk-replace, atomic rename" (PLAN.md): a register.  A       *)
(* replacement is asked for and ends once: the value becomes the whole new *)
(* document, or it is refused and the value stays.                         *)
(***************************************************************************)

CONSTANTS
  Writer,      \* the processes that replace the file
  Data         \* what may be written

VARIABLES
  value,       \* the file's content, "absent" before the first replacement
  asked        \* asked[w]: what w is replacing the file with, or "nothing"

fvars == <<value, asked>>

Init ==
  /\ value = "absent"
  /\ asked = [w \in Writer |-> "nothing"]

Ask(w, d) ==
  /\ asked[w] = "nothing"
  /\ asked' = [asked EXCEPT ![w] = d]
  /\ UNCHANGED value

Take(w) ==
  /\ asked[w] # "nothing"
  /\ value' = asked[w]
  /\ asked' = [asked EXCEPT ![w] = "nothing"]

Refuse(w) ==
  /\ asked[w] # "nothing"
  /\ asked' = [asked EXCEPT ![w] = "nothing"]
  /\ UNCHANGED value

Next == \E w \in Writer : (\E d \in Data : Ask(w, d)) \/ Take(w) \/ Refuse(w)

Spec == Init /\ [][Next]_fvars
=============================================================================
