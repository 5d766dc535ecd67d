---------------------------- MODULE MCListService ----------------------------
(* What csl-service computes, for TLC: a list is ingested and searched once
   (Screening), or the timetable of its updates runs for four years
   (Schedule).  Neither looks at the other, so a behaviour has one of them:
   searches belong to the first service to start. *)
EXTENDS Screening, Schedule

CONSTANT a      \* a name: which it is does not matter

Rec(id, name, source, type) == [id |-> id, name |-> name, source |-> source, type |-> type]

(* A row without an id on the list PLC, which is given "PLC-0" if it is the first;
   a row that has this id of its own, and one that has "PLC-0#2"; a row without a
   name. *)
MCStem == {<<"PLC", 0>>}
MCRecord == {
  Rec(Missing, a, "PLC", "ship"), Rec(Id(<<"PLC", 0>>, <<>>), a, "SDN", "individual"),
  Rec(Id(<<"PLC", 0>>, <<2>>), a, "EL", "company"), Rec(Missing, Missing, "EL", "company") }

Finds(jw, bm, near) == [jw |-> jw, bm |-> bm, near |-> near]

(* The very name (once in a script that gives no tokens), nearly the name, a
   similar one with all of its words, words in the address, nothing. *)
MCFit == {
  Finds(100, 100, TRUE), Finds(100, 20, TRUE), Finds(100, 0, TRUE), Finds(96, 60, TRUE),
  Finds(80, 100, TRUE), Finds(60, 100, FALSE), Finds(60, 0, FALSE) }

MCSources == {All, {"EL"}}
MCTypes == {All, {"entity", "sloop"}}    \* nothing knows a sloop

MCInit == Init /\ TInit

First == hour = Unset /\ at = "update" /\ \A b \in Boot : now <= b

MCNext ==
  \/ First /\ Next /\ UNCHANGED tvars
  \/ stage = "feed" /\ TNext /\ UNCHANGED vars

MCSpec == MCInit /\ [][MCNext]_<<vars, tvars>>
=============================================================================
