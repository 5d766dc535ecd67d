--------------------------- MODULE ReplaceHistory ---------------------------
(***************************************************************************)
(* AtomicReplace with two history variables, for what the callers of       *)
(* write_atomic may conclude from its Result when replacements of one file *)
(* overlap.                                                                *)
(***************************************************************************)
EXTENDS AtomicReplace

VARIABLES
  told,    \* told[w]: w's last Result: "ok", "io" (a write or the
           \* rename failed), "lost" (rename: ENOENT), "dead"; "none"
           \* while it runs
  rival    \* rival[w]: did another replacement run ("open") or succeed
           \* ("published") during w's?

hvars == <<rvars, told, rival>>

HInit ==
  /\ RInit
  /\ told = [w \in Writer |-> "none"]
  /\ rival = [w \in Writer |-> "none"]

Tell(w, result) == told' = [told EXCEPT ![w] = result]

(* Everybody else whose replacement is under way has seen one that ... *)
Overlaps(w, how) ==
  rival' = [u \in Writer |->
              IF u # w /\ Busy(u) /\ rival[u] # "published" THEN how ELSE rival[u]]

HCreate(w, d) ==
  /\ Create(w, d)
  /\ Tell(w, "none")
  /\ rival' = [u \in Writer |->
       CASE u = w -> IF \E v \in Writer : Busy(v) THEN "open" ELSE "none"
         [] u # w /\ Busy(u) /\ rival[u] = "none" -> "open"
         [] OTHER -> rival[u]]

HWrite(w) == Write(w) /\ UNCHANGED <<told, rival>>
HWriteFails(w) == WriteFails(w) /\ Tell(w, "io") /\ UNCHANGED rival
HRename(w) == Rename(w) /\ Tell(w, "ok") /\ Overlaps(w, "published")
HRenameFails(w) ==
  /\ RenameFails(w)
  /\ Tell(w, IF tmp = "absent" THEN "lost" ELSE "io")
  /\ UNCHANGED rival
HDie(w) == Die(w) /\ Tell(w, "dead") /\ UNCHANGED rival

HNext == \E w \in Writer :
  \/ \E d \in Data : HCreate(w, d)
  \/ HWrite(w)
  \/ HWriteFails(w)
  \/ HRename(w)
  \/ HRenameFails(w)
  \/ HDie(w)

HSpec == HInit /\ [][HNext]_hvars
-----------------------------------------------------------------------------
(* Type invariant. *)
HTypeOK ==
  /\ RTypeOK
  /\ told \in [Writer -> {"none", "ok", "io", "lost", "dead"}]
  /\ rival \in [Writer -> {"none", "open", "published"}]

(* A replacement that fails because its temporary file has disappeared
   (ENOENT from the rename at lib.rs:446) was overtaken by another one that
   succeeded: overlapping replacements never all fail on the name. *)
LoserHasWinner == \A w \in Writer : told[w] = "lost" => rival[w] = "published"

(* Deaths and I/O errors alone never leave x.json half written: only a
   replacement that overlaps another can do that. *)
OnlyRivalsTear ==
  [][live' # live /\ live' \in Partial =>
       \E w \in Writer : step'[w] # step[w] /\ rival[w] # "none"]_hvars

(* A replacement nobody overlapped and that reports success put exactly its
   own document in place, whatever earlier writers that died left in the
   temporary file. *)
SoloReplaceTakes ==
  [][\A w \in Writer :
       told[w] = "none" /\ told'[w] = "ok" /\ rival[w] = "none" => live' = doc[w]]_hvars
=============================================================================
