--------------------------- MODULE AtomicReplace ---------------------------
(***************************************************************************)
(* JsonFsStorage::write_atomic (components/storage-jsonfs/src/lib.rs), the *)
(* way csl.json and users.json are replaced: File::create("x.json.tmp"),   *)
(* write_all + sync_data, then rename over "x.json".  The name of the      *)
(* temporary file is FIXED, so two processes that replace the same file    *)
(* meet in it: the second File::create truncates the first one's bytes,    *)
(* the first rename takes the name away from the second, and a descriptor  *)
(* opened before somebody else's rename goes on writing into the file that *)
(* readers now see.                                                        *)
(*                                                                         *)
(* A file is its content; a descriptor is the NAME its file has now:       *)
(* "tmp", "live", or "gone" once a later rename unlinked it.               *)
(***************************************************************************)

CONSTANTS
  Writer,      \* processes holding a JsonFsStorage over the same root
  Data,        \* complete JSON documents
  Serial       \* TRUE: nobody starts a replacement while another is under way

ASSUME ReplaceAssumption ==
  /\ Serial \in BOOLEAN
  /\ Data \cap {"absent", "blank", "torn", "nothing"} = {}

VARIABLES
  live,        \* content of x.json
  tmp,         \* content of x.json.tmp
  fd,          \* fd[w]: the file w's descriptor points to, "none" if closed
  step,        \* step[w]: "idle", "open" (created) or "closed" (written)
  doc          \* doc[w]: what w is replacing x.json with, "nothing" if idle

rvars == <<live, tmp, fd, step, doc>>

Partial == {"blank", "torn"}
Content == Data \cup Partial \cup {"absent"}

RInit ==
  /\ live = "absent"
  /\ tmp = "absent"
  /\ fd = [w \in Writer |-> "none"]
  /\ step = [w \in Writer |-> "idle"]
  /\ doc = [w \in Writer |-> "nothing"]

Busy(w) == step[w] # "idle"

(* write_atomic returns, or its process dies: the descriptor is closed. *)
Return(w) ==
  /\ step' = [step EXCEPT ![w] = "idle"]
  /\ doc' = [doc EXCEPT ![w] = "nothing"]

(* What a write through w's descriptor can leave: w's document when the file is
   empty and w alone has it open, otherwise possibly a mix of two documents. *)
Landed(w, content) ==
  IF content = "blank" /\ \A u \in Writer \ {w} : fd[u] # fd[w]
    THEN {doc[w]}
    ELSE {doc[w], "torn"}

(* The outcome reaches whichever file the descriptor points to. *)
Put(w, ontoTmp, ontoLive) ==
  /\ IF fd[w] = "tmp" THEN tmp' \in ontoTmp ELSE UNCHANGED tmp
  /\ IF fd[w] = "live" THEN live' \in ontoLive ELSE UNCHANGED live
  /\ fd' = [fd EXCEPT ![w] = "none"]

(* Mutant of Create: the temporary file is opened without truncation. *)
CreateKeeping(w, d) ==
  /\ ~Busy(w)
  /\ Serial => \A u \in Writer : ~Busy(u)
  /\ tmp' = IF tmp = "absent" THEN "blank" ELSE tmp
  /\ fd' = [fd EXCEPT ![w] = "tmp"]
  /\ step' = [step EXCEPT ![w] = "open"]
  /\ doc' = [doc EXCEPT ![w] = d]
  /\ UNCHANGED live

(* File::create: a new empty file, or the existing one truncated under the
   descriptors of the others. *)
Create(w, d) ==
  /\ ~Busy(w)
  /\ Serial => \A u \in Writer : ~Busy(u)
  /\ tmp' = "blank"
  /\ fd' = [fd EXCEPT ![w] = "tmp"]
  /\ step' = [step EXCEPT ![w] = "open"]
  /\ doc' = [doc EXCEPT ![w] = d]
  /\ UNCHANGED live

(* to_vec_pretty, write_all, sync_data, drop. *)
Write(w) ==
  /\ step[w] = "open"
  /\ Put(w, Landed(w, tmp), Landed(w, live))
  /\ step' = [step EXCEPT ![w] = "closed"]
  /\ UNCHANGED doc

(* Mutant of WriteFails: the error is dropped and the file renamed. *)
WriteFailsUnseen(w) ==
  /\ step[w] = "open"
  /\ Put(w, {tmp, "torn"}, {live, "torn"})
  /\ step' = [step EXCEPT ![w] = "closed"]
  /\ UNCHANGED doc

(* Mutant of WriteFails: the error path removes the temporary file. *)
WriteFailsCleans(w) ==
  /\ step[w] = "open"
  /\ tmp' = "absent"
  /\ fd' = [u \in Writer |-> IF fd[u] = "tmp" \/ u = w THEN "none" ELSE fd[u]]
  /\ Return(w)
  /\ UNCHANGED live

(* write_all or sync_data fails: `?` returns, the temporary file stays. *)
WriteFails(w) ==
  /\ step[w] = "open"
  /\ Put(w, {tmp, "torn"}, {live, "torn"})
  /\ Return(w)

(* rename: the file called x.json.tmp NOW becomes x.json, whoever wrote it. *)
Moved(f) == CASE f = "tmp" -> "live" [] f = "live" -> "gone" [] OTHER -> f

Rename(w) ==
  /\ step[w] = "closed"
  /\ tmp # "absent"
  /\ live' = tmp
  /\ tmp' = "absent"
  /\ fd' = [u \in Writer |-> Moved(fd[u])]
  /\ Return(w)

(* rename fails: always when somebody else has renamed the file away (ENOENT),
   otherwise as any system call may. *)
RenameFails(w) ==
  /\ step[w] = "closed"
  /\ Return(w)
  /\ UNCHANGED <<live, tmp, fd>>

(* The process dies between two steps (in the middle of a write it leaves what
   WriteFails leaves). *)
Die(w) ==
  /\ Busy(w)
  /\ fd' = [fd EXCEPT ![w] = "none"]
  /\ Return(w)
  /\ UNCHANGED <<live, tmp>>

RNext == \E w \in Writer :
  \/ \E d \in Data : Create(w, d)
  \/ Write(w)
  \/ WriteFails(w)
  \/ Rename(w)
  \/ RenameFails(w)
  \/ Die(w)

RSpec == RInit /\ [][RNext]_rvars
-----------------------------------------------------------------------------
(* Type invariant. *)
RTypeOK ==
  /\ live \in Content
  /\ tmp \in Content
  /\ fd \in [Writer -> {"none", "tmp", "live", "gone"}]
  /\ step \in [Writer -> {"idle", "open", "closed"}]
  /\ doc \in [Writer -> Data \cup {"nothing"}]

(* With replacements one at a time, write_atomic is the register of WholeFile,
   whatever step a writer dies or fails at ("each rename is an atomic
   syscall", lib.rs:234). *)
Register == INSTANCE WholeFile WITH value <- live, asked <- doc

ImplementsRegister == Register!Spec

(* "writes serialize via filesystem semantics (each rename / append is an
   atomic syscall)", lib.rs:234: a reader of x.json never meets a partial
   document. *)
NoPartialState == live \notin Partial
=============================================================================
