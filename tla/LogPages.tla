------------------------------ MODULE LogPages ------------------------------
(***************************************************************************)
(* GET /audit (audit_list, parse_paging, audit_list_recent): a client      *)
(* leafs through the log, newest events first, while searches append to    *)
(* it.  The server keeps nothing between two pages.  The client asks for   *)
(* the events after those it was sent, until it gets none.                 *)
(***************************************************************************)
EXTENDS LogHistory, SequencesExt

CONSTANTS
  MaxLimit,     \* 500 in the code
  MaxOffset     \* 100_000 in the code

ASSUME PagesAssumption == MaxLimit \in Nat \ {0} /\ MaxOffset \in Nat

VARIABLES
  limit,     \* what the client asks for as limit=
  offset,    \* what it asks for as offset=
  seen,      \* the events it has been sent
  had,       \* the events of the log when it began
  reader     \* "new", "reads", "refused", "done"; "misled", for which it is done too

pagevars == <<limit, offset, seen, had, reader>>
-----------------------------------------------------------------------------
Clamp(n, least, most) == IF n < least THEN least ELSE IF n > most THEN most ELSE n

(* Mutant of Page: offset counts pages. *)
PageOfPages(off, lim) ==
  LET from == Clamp(off, 0, MaxOffset) * Clamp(lim, 1, MaxLimit)
      newest == Reverse(Entries)
  IN SubSeq(newest, from + 1, Clamp(from + Clamp(lim, 1, MaxLimit), 0, Len(newest)))

(* parse_paging, then audit_list_recent: reverse, skip, take. *)
Page(off, lim) ==
  LET from == Clamp(off, 0, MaxOffset)
      newest == Reverse(Entries)
  IN SubSeq(newest, from + 1, Clamp(from + Clamp(lim, 1, MaxLimit), 0, Len(newest)))

PInit ==
  /\ GInit
  /\ limit \in 0..(MaxLimit + 1) /\ offset = 0
  /\ seen = {} /\ had = {} /\ reader = "new"

(* One page.  A log that cannot be read, for what it holds or for a disk error, is a
   500, and the client gives up; one whose stat fails counts as missing, and the
   client takes the empty page for the end.  The offset is counted up to
   MaxOffset + 1: the server takes more for the same. *)
GetPage ==
  /\ reader \in {"new", "reads"}
  /\ had' = IF reader = "new" THEN ToSet(Entries) ELSE had
  /\ \/ /\ Readable
        /\ LET page == Page(offset, limit)
           IN /\ seen' = seen \cup ToSet(page)
              /\ offset' = Clamp(offset + Len(page), 0, MaxOffset + 1)
              /\ reader' = IF page = <<>> THEN "done" ELSE "reads"
     \/ reader' \in {"refused", "misled"} /\ UNCHANGED <<seen, offset>>
  /\ UNCHANGED <<lvars, apart, limit>>

PNext ==
  \/ GNext /\ UNCHANGED pagevars
  \/ GetPage

PSpec == PInit /\ [][PNext]_<<lvars, apart, pagevars>>
-----------------------------------------------------------------------------
(* Who leafs to the end has seen every event that was there when he began,
   however many are appended between two pages: events are sent twice then, none
   is passed over, unless a disk error hides the log from one page.  (In a log of
   more than MaxOffset events he never gets to the end: from there on every page
   begins with the same event.) *)
NoneSkipped == reader = "done" => had \subseteq seen
=============================================================================
