----------------------------- MODULE LogHistory -----------------------------
(***************************************************************************)
(* An append-only log with a memory of whether appends have overlapped.    *)
(* Nothing in the code keeps them apart: every gateway instance opens the  *)
(* file for itself.                                                        *)
(***************************************************************************)
EXTENDS AppendLog

VARIABLE apart      \* no append has begun while another was under way

GInit == LInit /\ apart = TRUE

GNext ==
  /\ LNext
  /\ apart' = (apart /\ \A w, u \in Writer : Appending(w)' /\ Appending(u)' => w = u)

GSpec == GInit /\ [][GNext]_<<lvars, apart>>
-----------------------------------------------------------------------------
(* Only an append that was stopped, or two that overlapped, make a file
   unreadable: what is left of a line is joined to the next one. *)
OnlyStopsDamage ==
  apart /\ ~Readable => \E w \in Writer : phase[w] = "err"
=============================================================================
