------------------------------ MODULE AppendLog ------------------------------
(***************************************************************************)
(* A .jsonl file: append_jsonl and read_jsonl of storage-jsonfs.           *)
(* An append opens the file, writes its line, writes the newline with a    *)
(* second call and syncs; any of these can fail, and the process can die   *)
(* between two.  A reader takes the file line by line, skips blank lines   *)
(* and gives up on the first line that is not one JSON value.              *)
(* A writer is a process that appends one line (a gateway instance, which  *)
(* serves one request), so that the text can name a line by its writer.    *)
(***************************************************************************)
EXTENDS Filter

CONSTANT Writer     \* the processes that append, one line each

ASSUME LogAssumption == Writer \cap {"newline", "cut"} = {}

VARIABLES
  text,     \* the file: whole lines (their writers), "cut" lines, "newline"s
  phase     \* phase[w]: "new", the next call of its append, "ok" or "err"

lvars == <<text, phase>>

LInit == text = <<>> /\ phase = [w \in Writer |-> "new"]

Appending(w) == phase[w] \in {"line", "newline", "sync"}

Goes(w, to) == phase' = [phase EXCEPT ![w] = to]
-----------------------------------------------------------------------------
(* Mutant of Open: the file is truncated when it is opened. *)
OpenTruncates(w) ==
  /\ phase[w] = "new"
  /\ Goes(w, "line")
  /\ text' = <<>>

(* OpenOptions::create(true).append(true).open *)
Open(w) ==
  /\ phase[w] = "new"
  /\ Goes(w, "line")
  /\ UNCHANGED text

(* write_all(&line).  A line too long for one write call grows in the file piece by
   piece; a reader that comes in between finds a part of it, as it finds one that was
   stopped there for good ("cut"), and that passing sight is left out. *)
WriteLine(w) ==
  /\ phase[w] = "line"
  /\ text' = Append(text, w)
  /\ Goes(w, "newline")

(* Mutant of WriteNewline: the lines are not ended. *)
WriteNoNewline(w) ==
  /\ phase[w] = "newline"
  /\ Goes(w, "sync")
  /\ UNCHANGED text

(* write_all(b"\n") *)
WriteNewline(w) ==
  /\ phase[w] = "newline"
  /\ text' = Append(text, "newline")
  /\ Goes(w, "sync")

(* Mutant of Sync: an append that could not be synced is tried again. *)
SyncOrRetry(w) ==
  /\ phase[w] = "sync"
  /\ Goes(w, "ok") \/ Goes(w, "line")
  /\ UNCHANGED text

(* sync_data, and Ok. *)
Sync(w) ==
  /\ phase[w] = "sync"
  /\ Goes(w, "ok")
  /\ UNCHANGED text

(* Mutant of Stops: whoever is stopped removes the rest of its line. *)
StopsCleanly(w) ==
  /\ phase[w] = "new" \/ Appending(w)
  /\ Goes(w, "err")
  /\ text' = IF phase[w] = "newline" THEN SubSeq(text, 1, Len(text) - 1) ELSE text

(* The next call fails, or the process dies before it: the file keeps what has
   been written, a part of the line included. *)
Stops(w) ==
  /\ phase[w] = "new" \/ Appending(w)
  /\ Goes(w, "err")
  /\ \/ UNCHANGED text
     \/ phase[w] = "line" /\ text' = Append(text, "cut")

GoesOn(w) == WriteLine(w) \/ WriteNewline(w) \/ Sync(w)

LNext == \E w \in Writer : Open(w) \/ GoesOn(w) \/ Stops(w)

LSpec == LInit /\ [][LNext]_lvars
-----------------------------------------------------------------------------
(* read_jsonl: every line that is not blank is one whole value ... *)
OwnLine(i) ==
  /\ text[i] # "cut"
  /\ i > 1 => text[i - 1] = "newline"
  /\ i < Len(text) => text[i + 1] = "newline"

Readable == \A i \in DOMAIN text : text[i] # "newline" => OwnLine(i)

(* ... and these values, in their order, are what it returns. *)
Entries == Keep(text, Writer)
-----------------------------------------------------------------------------
(* Type invariant. *)
LTypeOK ==
  /\ text \in Seq(Writer \cup {"newline", "cut"})
  /\ phase \in [Writer -> {"new", "line", "newline", "sync", "ok", "err"}]

Lines(w) == {i \in DOMAIN text : text[i] = w}

(* An append that returned Ok has its line in the file, once, whatever other
   appends do meanwhile or later: none overwrites it and none repeats it. *)
AckedKept ==
  \A w \in Writer : phase[w] = "ok" => \E i \in DOMAIN text : Lines(w) = {i}

(* A file that once failed a reader fails every reader from then on: no append
   mends what another has left, and nothing in the code rewrites the file. *)
DamageLasts == [][~Readable => ~Readable']_lvars

(* A log as it is read, whoever fails, dies or overlaps, is the ledger: append-only,
   all or nothing, with every record that was acknowledged. *)
Book == INSTANCE Ledger WITH
  records <- Entries, whole <- Readable, acked <- {w \in Writer : phase[w] = "ok"}

ImplementsLedger == Book!Spec

(* Claim of tests.rs:168-169 (audit_append_only_does_not_clobber_on_repeated_open):
   two processes that open the file and append both keep their lines. *)
BothSurvive ==
  (\A w \in Writer : phase[w] = "ok") => Readable
=============================================================================
