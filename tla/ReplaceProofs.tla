--------------------------- MODULE ReplaceProofs ---------------------------
(***************************************************************************)
(* Proofs about write_atomic, for any set of writers and documents:        *)
(*   TypeCorrect            the type invariant, with what "nothing" means  *)
(*   SerialImplements       serialised replacements are WholeFile's        *)
(*   SerialNeverPartial     ... so that a reader never meets half a file   *)
(*   LoserHasWinnerHolds    overlapping ones never all fail on the name    *)
(*   SoloReplaceTakesHolds  one that met no other puts its own document    *)
(*   OnlyRivalsTearHolds    only overlapping ones leave half a file        *)
(***************************************************************************)
EXTENDS ReplaceHistory, TLAPS

(* A writer has a document in hand exactly while it is replacing the file. *)
DocInHand == \A w \in Writer : doc[w] = "nothing" <=> ~Busy(w)

Typed == RTypeOK /\ DocInHand

LEMMA TypedInit == RInit => Typed
  BY DEF RInit, Typed, RTypeOK, DocInHand, Busy, Content

LEMMA TypedStep == Typed /\ [RNext]_rvars => Typed'
<1> SUFFICES ASSUME Typed, [RNext]_rvars PROVE Typed'
  OBVIOUS
<1> USE ReplaceAssumption DEF Typed, RTypeOK, DocInHand, Busy, Content, Partial
<1>1. ASSUME NEW w \in Writer, NEW d \in Data, Create(w, d) PROVE Typed'
  BY <1>1 DEF Create
<1>2. ASSUME NEW w \in Writer, Write(w) PROVE Typed'
  <2>1. Landed(w, tmp) \subseteq Content /\ Landed(w, live) \subseteq Content
    BY <1>2 DEF Write, Landed
  <2> QED
    BY <1>2, <2>1 DEF Write, Put
<1>3. ASSUME NEW w \in Writer, WriteFails(w) PROVE Typed'
  BY <1>3 DEF WriteFails, Put, Return
<1>4. ASSUME NEW w \in Writer, Rename(w) PROVE Typed'
  BY <1>4 DEF Rename, Return, Moved
<1>5. ASSUME NEW w \in Writer, RenameFails(w) PROVE Typed'
  BY <1>5 DEF RenameFails, Return
<1>6. ASSUME NEW w \in Writer, Die(w) PROVE Typed'
  BY <1>6 DEF Die, Return
<1>7. CASE UNCHANGED rvars
  BY <1>7 DEF rvars
<1> QED
  BY <1>1, <1>2, <1>3, <1>4, <1>5, <1>6, <1>7 DEF RNext

(* The variables of write_atomic keep their types, whatever writers overlap,
   fail or die. *)
THEOREM TypeCorrect == RSpec => []RTypeOK
<1>1. Typed => RTypeOK
  BY DEF Typed
<1> QED
  BY TypedInit, TypedStep, <1>1, PTL DEF RSpec
-----------------------------------------------------------------------------
(* What a serialised run adds: one writer at a time, whose descriptor is on the
   temporary file, which it finds blank and leaves complete. *)
OneAtATime ==
  /\ \A u, w \in Writer : Busy(u) /\ Busy(w) => u = w
  /\ \A w \in Writer :
       /\ step[w] = "open" => fd[w] = "tmp" /\ tmp = "blank"
       /\ step[w] = "closed" => fd[w] = "none" /\ tmp = doc[w]
       /\ ~Busy(w) => fd[w] = "none"
  /\ live \notin Partial

SerialInv == Typed /\ OneAtATime

LEMMA SerialInit == RInit => SerialInv
  BY TypedInit DEF RInit, SerialInv, OneAtATime, Busy, Partial

LEMMA SerialStep ==
  ASSUME Serial = TRUE, SerialInv, [RNext]_rvars
  PROVE  SerialInv'
<1>0. Typed'
  BY TypedStep DEF SerialInv
<1> USE ReplaceAssumption
    DEF SerialInv, OneAtATime, Typed, RTypeOK, DocInHand, Busy, Partial
<1>1. ASSUME NEW w \in Writer, NEW d \in Data, Create(w, d) PROVE OneAtATime'
  BY <1>1 DEF Create
<1>2. ASSUME NEW w \in Writer, Write(w) PROVE OneAtATime'
  <2>1. Landed(w, tmp) = {doc[w]}
    BY <1>2 DEF Write, Landed
  <2> QED
    BY <1>2, <2>1 DEF Write, Put
<1>3. ASSUME NEW w \in Writer, WriteFails(w) PROVE OneAtATime'
  BY <1>3 DEF WriteFails, Put, Return
<1>4. ASSUME NEW w \in Writer, Rename(w) PROVE OneAtATime'
  BY <1>4 DEF Rename, Return, Moved
<1>5. ASSUME NEW w \in Writer, RenameFails(w) PROVE OneAtATime'
  BY <1>5 DEF RenameFails, Return
<1>6. ASSUME NEW w \in Writer, Die(w) PROVE OneAtATime'
  BY <1>6 DEF Die, Return
<1>7. CASE UNCHANGED rvars
  BY <1>7 DEF rvars
<1>8. OneAtATime'
  BY <1>1, <1>2, <1>3, <1>4, <1>5, <1>6, <1>7 DEF RNext
<1> QED
  BY <1>0, <1>8

(* Serialised, x.json is never half written ("csl_atomic_rename_means_no_
   partial_state", storage-jsonfs/src/tests.rs). *)
THEOREM SerialNeverPartial ==
  ASSUME Serial = TRUE
  PROVE  RSpec => []NoPartialState
<1>1. SerialInv => NoPartialState
  BY DEF SerialInv, OneAtATime, NoPartialState
<1>2. SerialInv /\ [RNext]_rvars => SerialInv'
  BY SerialStep
<1> QED
  BY SerialInit, <1>1, <1>2, PTL DEF RSpec

(* Every serialised step is a step of the register or changes nothing of it. *)
LEMMA SerialRefines ==
  ASSUME Serial = TRUE, SerialInv, [RNext]_rvars
  PROVE  [Register!Next]_(Register!fvars)
<1> USE ReplaceAssumption
    DEF SerialInv, OneAtATime, Typed, RTypeOK, DocInHand, Busy, Partial
<1>1. ASSUME NEW w \in Writer, NEW d \in Data, Create(w, d) PROVE Register!Ask(w, d)
  BY <1>1 DEF Create, Register!Ask
<1>2. ASSUME NEW w \in Writer, Write(w) PROVE UNCHANGED Register!fvars
  BY <1>2 DEF Write, Put, Register!fvars
<1>3. ASSUME NEW w \in Writer, WriteFails(w) PROVE Register!Refuse(w)
  BY <1>3 DEF WriteFails, Put, Return, Register!Refuse
<1>4. ASSUME NEW w \in Writer, Rename(w) PROVE Register!Take(w)
  BY <1>4 DEF Rename, Return, Register!Take
<1>5. ASSUME NEW w \in Writer, RenameFails(w) PROVE Register!Refuse(w)
  BY <1>5 DEF RenameFails, Return, Register!Refuse
<1>6. ASSUME NEW w \in Writer, Die(w) PROVE Register!Refuse(w)
  BY <1>6 DEF Die, Return, Register!Refuse
<1>7. CASE UNCHANGED rvars
  BY <1>7 DEF rvars, Register!fvars
<1> QED
  BY <1>1, <1>2, <1>3, <1>4, <1>5, <1>6, <1>7 DEF RNext, Register!Next

(* With replacements one at a time, write_atomic implements the register: every
   rename that succeeds takes the writer's own whole document, every other end
   leaves x.json as it was, at whatever step a writer fails or dies. *)
THEOREM SerialImplements ==
  ASSUME Serial = TRUE
  PROVE  RSpec => ImplementsRegister
<1>1. RInit => Register!Init
  BY DEF RInit, Register!Init
<1>2. SerialInv /\ [RNext]_rvars => SerialInv'
  BY SerialStep
<1>3. SerialInv /\ [RNext]_rvars => [Register!Next]_(Register!fvars)
  BY SerialRefines
<1> QED
  BY SerialInit, <1>1, <1>2, <1>3, PTL DEF RSpec, ImplementsRegister, Register!Spec
-----------------------------------------------------------------------------
(* The temporary file's name can only go away under a writer by the rename of
   another. *)
NameTaken ==
  \A w \in Writer :
    /\ Busy(w) /\ rival[w] # "published" => tmp # "absent"
    /\ Busy(w) => told[w] = "none"
    /\ told[w] = "lost" => rival[w] = "published"

WinnerInv == HTypeOK /\ NameTaken

LEMMA WinnerInit == HInit => WinnerInv
  BY TypedInit DEF HInit, RInit, WinnerInv, HTypeOK, NameTaken, Typed, Busy

LEMMA HistoryStep == [HNext]_hvars => [RNext]_rvars
  BY DEF HNext, RNext, hvars, rvars, HCreate, HWrite, HWriteFails, HRename,
         HRenameFails, HDie

LEMMA WinnerStep ==
  ASSUME WinnerInv, Typed, [HNext]_hvars
  PROVE  WinnerInv'
<1>0. RTypeOK'
  BY TypedStep, HistoryStep DEF Typed
<1> USE DEF WinnerInv, HTypeOK, NameTaken, RTypeOK, Busy, Tell, Overlaps
<1>1. ASSUME NEW w \in Writer, NEW d \in Data, HCreate(w, d) PROVE WinnerInv'
  BY <1>0, <1>1 DEF HCreate, Create
<1>2. ASSUME NEW w \in Writer, HWrite(w) PROVE WinnerInv'
  <2>1. tmp # "absent" => tmp' # "absent"
    BY <1>2, ReplaceAssumption DEF HWrite, Write, Put, Landed, Typed, DocInHand
  <2> QED
    BY <1>0, <1>2, <2>1 DEF HWrite, Write
<1>3. ASSUME NEW w \in Writer, HWriteFails(w) PROVE WinnerInv'
  <2>1. tmp # "absent" => tmp' # "absent"
    BY <1>3 DEF HWriteFails, WriteFails, Put
  <2> QED
    BY <1>0, <1>3, <2>1 DEF HWriteFails, WriteFails, Return
<1>4. ASSUME NEW w \in Writer, HRename(w) PROVE WinnerInv'
  BY <1>0, <1>4 DEF HRename, Rename, Return
<1>5. ASSUME NEW w \in Writer, HRenameFails(w) PROVE WinnerInv'
  BY <1>0, <1>5 DEF HRenameFails, RenameFails, Return
<1>6. ASSUME NEW w \in Writer, HDie(w) PROVE WinnerInv'
  BY <1>0, <1>6 DEF HDie, Die, Return
<1>7. CASE UNCHANGED hvars
  BY <1>0, <1>7 DEF hvars, rvars
<1> QED
  BY <1>1, <1>2, <1>3, <1>4, <1>5, <1>6, <1>7 DEF HNext

(* A replacement that fails because its temporary file is gone has been
   overtaken by one that succeeded, for any number of writers. *)
THEOREM LoserHasWinnerHolds == HSpec => []LoserHasWinner
<1>1. HInit => WinnerInv /\ Typed
  BY WinnerInit, TypedInit DEF HInit
<1>2. WinnerInv /\ Typed /\ [HNext]_hvars => (WinnerInv /\ Typed)'
  BY WinnerStep, TypedStep, HistoryStep
<1>3. WinnerInv => LoserHasWinner
  BY DEF WinnerInv, NameTaken, LoserHasWinner
<1> QED
  BY <1>1, <1>2, <1>3, PTL DEF HSpec
-----------------------------------------------------------------------------
(* Who has not met another replacement has the temporary file to himself: he
   finds it blank and leaves it complete.  Descriptors are closed with the
   write. *)
Undisturbed ==
  /\ \A w \in Writer : step[w] # "open" => fd[w] = "none"
  /\ \A w \in Writer : Busy(w) /\ rival[w] = "none" =>
       /\ \A u \in Writer \ {w} : ~Busy(u)
       /\ step[w] = "open" => fd[w] = "tmp" /\ tmp = "blank"
       /\ step[w] = "closed" => tmp = doc[w]

SoloInv == WinnerInv /\ Typed /\ Undisturbed

LEMMA SoloInit == HInit => SoloInv
  BY WinnerInit, TypedInit DEF HInit, RInit, SoloInv, Undisturbed, Busy

LEMMA UndisturbedStutters ==
  ASSUME Undisturbed, UNCHANGED <<tmp, fd, step, doc, rival>>
  PROVE  Undisturbed'
BY DEF Undisturbed, Busy

LEMMA SoloStep == SoloInv /\ [HNext]_hvars => SoloInv'
<1> SUFFICES ASSUME SoloInv, [HNext]_hvars PROVE SoloInv'
  OBVIOUS
<1>0. WinnerInv' /\ Typed'
  BY WinnerStep, TypedStep, HistoryStep DEF SoloInv
<1>7. ASSUME UNCHANGED hvars PROVE Undisturbed'
  <2>1. UNCHANGED <<tmp, fd, step, doc, rival>>
    BY <1>7 DEF hvars, rvars
  <2> QED
    BY <2>1, UndisturbedStutters DEF SoloInv
<1> USE DEF SoloInv, Undisturbed, HTypeOK, WinnerInv, RTypeOK, Typed, Busy
<1>1. ASSUME NEW w \in Writer, NEW d \in Data, HCreate(w, d) PROVE Undisturbed'
  BY <1>1 DEF HCreate, Create
<1>2. ASSUME NEW w \in Writer, HWrite(w) PROVE Undisturbed'
  <2>1. CASE rival[w] = "none"
    <3>1. Landed(w, tmp) = {doc[w]} /\ fd[w] = "tmp"
      BY <1>2, <2>1 DEF HWrite, Write, Landed
    <3> QED BY <1>2, <2>1, <3>1 DEF HWrite, Write, Put
  <2>2. CASE rival[w] # "none"
    BY <1>2, <2>2 DEF HWrite, Write, Put
  <2> QED BY <2>1, <2>2
<1>3. ASSUME NEW w \in Writer, HWriteFails(w) PROVE Undisturbed'
  BY <1>3 DEF HWriteFails, WriteFails, Put, Return
<1>4. ASSUME NEW w \in Writer, HRename(w) PROVE Undisturbed'
  BY <1>4 DEF HRename, Rename, Return, Overlaps, Moved
<1>5. ASSUME NEW w \in Writer, HRenameFails(w) PROVE Undisturbed'
  BY <1>5 DEF HRenameFails, RenameFails, Return
<1>6. ASSUME NEW w \in Writer, HDie(w) PROVE Undisturbed'
  BY <1>6 DEF HDie, Die, Return
<1>8. Undisturbed'
  BY <1>1, <1>2, <1>3, <1>4, <1>5, <1>6, <1>7 DEF HNext
<1> QED
  BY <1>0, <1>8

LEMMA SoloHolds == HSpec => []SoloInv
  BY SoloInit, SoloStep, PTL DEF HSpec

(* A replacement nobody overlapped and that reports success (lib.rs:446-447) put
   its own document in place, whatever earlier writers left behind. *)
THEOREM SoloReplaceTakesHolds == HSpec => SoloReplaceTakes
<1>1. ASSUME SoloInv, HNext, NEW w \in Writer,
             told[w] = "none", told'[w] = "ok", rival[w] = "none"
      PROVE  live' = doc[w]
  <2>1. HRename(w)
    BY <1>1 DEF HNext, HCreate, HWrite, HWriteFails, HRename, HRenameFails, HDie, Tell,
                SoloInv, WinnerInv, HTypeOK
  <2> QED
    BY <1>1, <2>1 DEF HRename, Rename, SoloInv, Undisturbed, Busy
<1>2. SoloInv /\ [HNext]_hvars =>
        [\A w \in Writer :
           told[w] = "none" /\ told'[w] = "ok" /\ rival[w] = "none" => live' = doc[w]]_hvars
  BY <1>1
<1> QED
  BY SoloHolds, <1>2, PTL DEF HSpec, SoloReplaceTakes

(* Deaths and I/O errors alone never leave x.json half written: the writer whose
   step does has met another one. *)
THEOREM OnlyRivalsTearHolds == HSpec => OnlyRivalsTear
<1>1. ASSUME SoloInv, HNext, live' # live, live' \in Partial
      PROVE  \E w \in Writer : step'[w] # step[w] /\ rival[w] # "none"
  <2> USE DEF SoloInv, Undisturbed, Busy, HTypeOK, WinnerInv, RTypeOK
  <2>1. ASSUME NEW w \in Writer, HWrite(w) \/ HWriteFails(w)
        PROVE  step'[w] # step[w] /\ rival[w] # "none"
    <3>1. fd[w] = "live" /\ step[w] = "open" /\ step'[w] # "open"
      BY <1>1, <2>1 DEF HWrite, Write, HWriteFails, WriteFails, Put, Return
    <3> QED BY <1>1, <3>1
  <2>2. ASSUME NEW w \in Writer, HRename(w)
        PROVE  step'[w] # step[w] /\ rival[w] # "none"
    <3>1. step[w] = "closed" /\ step'[w] = "idle" /\ tmp \in Partial
      BY <1>1, <2>2 DEF HRename, Rename, Return
    <3>2. doc[w] \in Data /\ doc[w] \notin Partial
      BY <1>1, <3>1, ReplaceAssumption DEF Typed, DocInHand, Partial
    <3> QED BY <1>1, <3>1, <3>2
  <2>3. ASSUME NEW w \in Writer,
               (\E d \in Data : HCreate(w, d)) \/ HRenameFails(w) \/ HDie(w)
        PROVE  live' = live
    BY <2>3 DEF HCreate, Create, HRenameFails, RenameFails, HDie, Die
  <2> QED
    BY <1>1, <2>1, <2>2, <2>3 DEF HNext
<1>2. SoloInv /\ [HNext]_hvars =>
        [live' # live /\ live' \in Partial =>
           \E w \in Writer : step'[w] # step[w] /\ rival[w] # "none"]_hvars
  BY <1>1
<1> QED
  BY SoloHolds, <1>2, PTL DEF HSpec, OnlyRivalsTear
=============================================================================
