----------------------------- MODULE LogProofs -----------------------------
(***************************************************************************)
(* Proofs about a .jsonl file, for any number of appending processes, and  *)
(* about a client that leafs through it.                                   *)
(***************************************************************************)
EXTENDS LogPages, FilterProofs, TLAPS

(* Where the line of each append is: nowhere before it is written, and in one
   place from then on. *)
Placed ==
  \A w \in Writer :
    /\ phase[w] \in {"new", "line"} => Lines(w) = {}
    /\ phase[w] \in {"newline", "sync", "ok"} => \E i \in DOMAIN text : Lines(w) = {i}

LInv == LTypeOK /\ Placed

(* An append changes the text in no other way than by adding to its end. *)
LEMMA TextGrows ==
  ASSUME LTypeOK, [LNext]_lvars
  PROVE  text' = text \/ \E t \in Writer \cup {"newline", "cut"} : text' = Append(text, t)
BY DEF LNext, Open, GoesOn, WriteLine, WriteNewline, Sync, Stops, lvars

LEMMA TypeNext == LTypeOK /\ [LNext]_lvars => LTypeOK'
<1> SUFFICES ASSUME LTypeOK, [LNext]_lvars PROVE LTypeOK'
  OBVIOUS
<1>1. text' \in Seq(Writer \cup {"newline", "cut"})
  BY TextGrows DEF LTypeOK
<1>2. phase' \in [Writer -> {"new", "line", "newline", "sync", "ok", "err"}]
  BY DEF LTypeOK, LNext, Open, GoesOn, WriteLine, WriteNewline, Sync, Stops, Goes, lvars
<1> QED
  BY <1>1, <1>2 DEF LTypeOK

(* What is added is a line of somebody else's, a newline or a cut line. *)
LEMMA OthersStay ==
  ASSUME LTypeOK, NEW w \in Writer,
         \/ text' = text
         \/ \E t \in (Writer \ {w}) \cup {"newline", "cut"} : text' = Append(text, t)
  PROVE  Lines(w)' = Lines(w) /\ DOMAIN text \subseteq DOMAIN text'
<1>1. CASE text' = text
  BY <1>1 DEF Lines
<1>2. CASE \E t \in (Writer \ {w}) \cup {"newline", "cut"} : text' = Append(text, t)
  <2>1. PICK t \in (Writer \ {w}) \cup {"newline", "cut"} : text' = Append(text, t)
    BY <1>2
  <2>2. t # w
    BY LogAssumption
  <2>3. /\ DOMAIN text' = DOMAIN text \cup {Len(text) + 1}
        /\ text'[Len(text) + 1] = t
        /\ \A i \in DOMAIN text : text'[i] = text[i]
    BY <2>1 DEF LTypeOK
  <2> QED
    BY <2>2, <2>3 DEF Lines
<1> QED
  BY <1>1, <1>2

LEMMA PlacedNext == LInv /\ [LNext]_lvars => Placed'
<1> SUFFICES ASSUME LInv, [LNext]_lvars PROVE Placed'
  OBVIOUS
<1> USE DEF LInv
<1>1. ASSUME NEW u \in Writer, Open(u) \/ WriteNewline(u) \/ Sync(u) \/ Stops(u)
      PROVE  Placed'
  <2>1. \A w \in Writer : Lines(w)' = Lines(w) /\ DOMAIN text \subseteq DOMAIN text'
    BY <1>1, OthersStay DEF Open, WriteNewline, Sync, Stops
  <2>2. /\ \A w \in Writer \ {u} : phase'[w] = phase[w]
        /\ phase'[u] \in {"new", "line"} => phase[u] \in {"new", "line"}
        /\ phase'[u] \in {"newline", "sync", "ok"} => phase[u] \in {"newline", "sync"}
    BY <1>1 DEF LTypeOK, Open, WriteNewline, Sync, Stops, Goes, Appending
  <2> QED
    BY <2>1, <2>2 DEF Placed
<1>2. ASSUME NEW u \in Writer, WriteLine(u) PROVE Placed'
  <2>1. \A w \in Writer \ {u} : Lines(w)' = Lines(w) /\ DOMAIN text \subseteq DOMAIN text'
    BY <1>2, OthersStay DEF WriteLine
  <2>2. /\ DOMAIN text' = DOMAIN text \cup {Len(text) + 1}
        /\ text'[Len(text) + 1] = u
        /\ \A i \in DOMAIN text : text'[i] = text[i]
    BY <1>2 DEF WriteLine, LTypeOK
  <2>3. Lines(u) = {}
    BY <1>2 DEF WriteLine, Placed
  <2>4. Lines(u)' = {Len(text) + 1}
    BY <2>2, <2>3 DEF Lines
  <2>5. phase'[u] = "newline" /\ \A w \in Writer \ {u} : phase'[w] = phase[w]
    BY <1>2 DEF LTypeOK, WriteLine, Goes
  <2> QED
    BY <2>1, <2>2, <2>4, <2>5 DEF Placed
<1>3. CASE UNCHANGED lvars
  BY <1>3 DEF lvars, Placed, Lines
<1> QED
  BY <1>1, <1>2, <1>3 DEF LNext, GoesOn

LEMMA LInvInit == LInit => LInv
BY DEF LInit, LInv, LTypeOK, Placed, Lines

(* The variables of a log keep their types, whoever appends. *)
THEOREM LogTyped == LSpec => []LTypeOK
<1>1. LInit => LTypeOK
  BY LInvInit DEF LInv
<1> QED
  BY <1>1, TypeNext, PTL DEF LSpec

(* An append that returned Ok (lib.rs:450-460) has its line in the file, once. *)
THEOREM AckedKeptHolds == LSpec => []AckedKept
<1>1. LInv /\ [LNext]_lvars => LInv'
  BY TypeNext, PlacedNext DEF LInv
<1>2. LInv => AckedKept
  BY DEF LInv, Placed, AckedKept
<1> QED
  BY LInvInit, <1>1, <1>2, PTL DEF LSpec
-----------------------------------------------------------------------------
(* A line that is not one value is not made one by what comes after it. *)
LEMMA DamageStays ==
  ASSUME LTypeOK, [LNext]_lvars, ~Readable
  PROVE  ~Readable'
<1>1. CASE text' = text
  BY <1>1 DEF Readable, OwnLine
<1>2. CASE \E t \in Writer \cup {"newline", "cut"} : text' = Append(text, t)
  <2>1. PICK t \in Writer \cup {"newline", "cut"} : text' = Append(text, t)
    BY <1>2
  <2>2. PICK i \in DOMAIN text : text[i] # "newline" /\ ~OwnLine(i)
    BY DEF Readable
  <2>3. /\ DOMAIN text = 1 .. Len(text) /\ Len(text) \in Nat
        /\ Len(text') = Len(text) + 1 /\ DOMAIN text' = 1 .. Len(text')
        /\ \A j \in DOMAIN text : text'[j] = text[j]
    BY <2>1 DEF LTypeOK
  <2>4. ~OwnLine(i)'
    BY <2>2, <2>3 DEF OwnLine
  <2> QED
    BY <2>2, <2>3, <2>4 DEF Readable
<1> QED
  BY <1>1, <1>2, TextGrows

(* An unreadable log stays unreadable (lib.rs:462-478 gives up on a bad line, and
   no operation rewrites the file). *)
THEOREM DamageLastsHolds == LSpec => DamageLasts
<1>1. LTypeOK /\ [LNext]_lvars => [~Readable => ~Readable']_lvars
  BY DamageStays
<1> QED
  BY LogTyped, <1>1, PTL DEF LSpec, DamageLasts
-----------------------------------------------------------------------------
(* A line is among the entries exactly if it is in the text. *)
LEMMA RecordedIs ==
  ASSUME LTypeOK, NEW w \in Writer
  PROVE  Book!Recorded(w) <=> Lines(w) # {}
<1> DEFINE All == Writer \cup {"newline", "cut"}
<1>1. text \in Seq(All)
  BY DEF LTypeOK
<1> HIDE DEF All
<1>2. /\ \A i \in DOMAIN text : text[i] \in Writer =>
           \E k \in DOMAIN Keep(text, Writer) : Keep(text, Writer)[k] = text[i]
      /\ \A k \in DOMAIN Keep(text, Writer) :
           \E i \in DOMAIN text : Keep(text, Writer)[k] = text[i]
  BY <1>1, KeepAll
<1> QED BY <1>2 DEF Book!Recorded, Entries, Lines

(* A step of one append, seen by a reader, is one of the ledger's: a line is a
   record, what spoils the file may come with it or alone, and Ok acknowledges. *)
LEMMA LedgerStep == LInv /\ [LNext]_lvars => [Book!Next]_(Book!bvars)
<1> SUFFICES ASSUME LInv, [LNext]_lvars PROVE [Book!Next]_(Book!bvars)
  OBVIOUS
<1> DEFINE acked == {w \in Writer : phase[w] = "ok"}
           r == Readable
<1>1. LTypeOK /\ r \in BOOLEAN /\ r' \in BOOLEAN /\ (~r => ~r')
  <2>1. ~Readable => ~Readable'
    BY DamageStays DEF LInv
  <2> QED BY <2>1 DEF LInv, Readable
<1>2. text' = text => Entries' = Entries /\ r' = r
  BY DEF Entries, Readable, OwnLine
<1>3. ASSUME NEW t \in Writer \cup {"newline", "cut"}, text' = Append(text, t)
      PROVE  Entries' = IF t \in Writer THEN Append(Entries, t) ELSE Entries
  <2> DEFINE All == Writer \cup {"newline", "cut"}
  <2>1. text \in Seq(All) /\ t \in All
    BY <1>1 DEF LTypeOK
  <2> HIDE DEF All
  <2> QED BY <1>3, <2>1, KeepAppend DEF Entries
<1>4. "newline" \notin Writer /\ "cut" \notin Writer
  BY LogAssumption
<1>5. r' = r \/ r' = FALSE
  BY <1>1
<1> HIDE DEF r
<1>6. ASSUME NEW w \in Writer, WriteLine(w) PROVE Book!Add(w)
  <2>1. acked' = acked
    BY <1>1, <1>6 DEF WriteLine, Goes, LTypeOK
  <2>2. ~Book!Recorded(w)
    BY <1>1, <1>6, RecordedIs DEF WriteLine, LInv, Placed
  <2>3. Entries' = Append(Entries, w)
    BY <1>3, <1>6 DEF WriteLine
  <2> QED BY <1>5, <2>1, <2>2, <2>3 DEF Book!Add, r
<1>7. ASSUME NEW w \in Writer, Sync(w) PROVE Book!Acknowledge(w)
  <2>1. acked' = acked \cup {w}
    BY <1>1, <1>7 DEF Sync, Goes, LTypeOK
  <2>2. Book!Recorded(w)
    BY <1>1, <1>7, RecordedIs DEF Sync, LInv, Placed
  <2>3. Entries' = Entries /\ r' = r
    BY <1>2, <1>7 DEF Sync
  <2> QED BY <2>1, <2>2, <2>3 DEF Book!Acknowledge, r
<1>8. ASSUME NEW w \in Writer, Open(w) \/ WriteNewline(w) \/ Stops(w)
      PROVE  Book!Spoil \/ UNCHANGED (Book!bvars)
  <2>1. acked' = acked
    BY <1>1, <1>8 DEF Open, WriteNewline, Stops, Appending, Goes, LTypeOK
  <2>2. text' = text \/ text' = Append(text, "newline") \/ text' = Append(text, "cut")
    BY <1>8 DEF Open, WriteNewline, Stops
  <2>3. Entries' = Entries
    BY <1>2, <1>3, <1>4, <2>2
  <2>4. CASE r' = r
    BY <2>1, <2>3, <2>4 DEF Book!bvars, r
  <2>5. CASE r' = FALSE
    BY <2>1, <2>3, <2>5 DEF Book!Spoil, r
  <2> QED BY <1>5, <2>4, <2>5
<1>9. CASE UNCHANGED lvars
  <2>1. acked' = acked /\ Entries' = Entries /\ r' = r
    BY <1>2, <1>9 DEF lvars
  <2> QED BY <2>1 DEF Book!bvars, r
<1> QED BY <1>6, <1>7, <1>8, <1>9 DEF LNext, GoesOn, Book!Next

(* The detailed log implements the ledger: records stay, in their order, once
   each; who is acknowledged is among them; and damage is for good. *)
THEOREM LogImplementsLedger == LSpec => ImplementsLedger
<1>1. LInit => Book!Init
  <2>1. ASSUME LInit PROVE Entries = <<>> /\ Readable = TRUE
    BY <2>1, KeepEmpty DEF LInit, Entries, Readable
  <2>2. ASSUME LInit PROVE {w \in Writer : phase[w] = "ok"} = {}
    BY <2>2 DEF LInit
  <2> QED BY <2>1, <2>2 DEF Book!Init
<1>2. LInv /\ [LNext]_lvars => LInv'
  BY TypeNext, PlacedNext DEF LInv
<1> QED
  BY LInvInit, <1>1, <1>2, LedgerStep, PTL DEF LSpec, ImplementsLedger, Book!Spec
-----------------------------------------------------------------------------
(* While appends stay apart and none is stopped: every line is on a line of its
   own, and one that has no newline yet is the last, its append still under way. *)
Orderly ==
  /\ \A w, u \in Writer : Appending(w) /\ Appending(u) => w = u
  /\ Readable
  /\ \A i \in DOMAIN text :
       i = Len(text) /\ text[i] # "newline" => \E w \in Writer : phase[w] = "newline"

Stopped == \E w \in Writer : phase[w] = "err"

DamageInv == LTypeOK /\ (apart => Stopped \/ Orderly) /\ apart \in BOOLEAN

LEMMA DamageInit == GInit => DamageInv
BY DEF GInit, LInit, DamageInv, LTypeOK, Orderly, Appending, Readable, Stopped

(* A file that ends with a newline takes another line. *)
LEMMA LineAdded ==
  ASSUME LTypeOK, Readable, NEW w \in Writer, text' = Append(text, w),
         \A i \in DOMAIN text : i = Len(text) => text[i] = "newline"
  PROVE  Readable'
<1>1. /\ Len(text) \in Nat /\ DOMAIN text = 1 .. Len(text)
      /\ Len(text') = Len(text) + 1 /\ DOMAIN text' = 1 .. Len(text')
      /\ text'[Len(text) + 1] = w
      /\ \A i \in DOMAIN text : text'[i] = text[i]
  BY DEF LTypeOK
<1>2. w # "cut"
  BY LogAssumption
<1>3. ASSUME NEW i \in DOMAIN text', text'[i] # "newline" PROVE OwnLine(i)'
  <2>1. CASE i = Len(text) + 1
    <3>1. text'[i] # "cut" /\ ~(i < Len(text'))
      BY <1>1, <1>2, <2>1
    <3>2. ASSUME i > 1 PROVE text'[i - 1] = "newline"
      <4>1. Len(text) \in DOMAIN text /\ i - 1 = Len(text)
        BY <1>1, <2>1, <3>2
      <4>2. text[Len(text)] = "newline"
        BY <4>1
      <4> QED
        BY <1>1, <4>1, <4>2
    <3> QED
      BY <3>1, <3>2 DEF OwnLine
  <2>2. CASE i \in DOMAIN text
    BY <1>1, <1>3, <2>2 DEF Readable, OwnLine
  <2> QED
    BY <1>1, <1>3, <2>1, <2>2
<1> QED
  BY <1>3 DEF Readable

LEMMA NewlineAdded ==
  ASSUME LTypeOK, Readable, text' = Append(text, "newline")
  PROVE  Readable'
<1>1. /\ Len(text) \in Nat /\ DOMAIN text = 1 .. Len(text)
      /\ Len(text') = Len(text) + 1 /\ DOMAIN text' = 1 .. Len(text')
      /\ text'[Len(text) + 1] = "newline"
      /\ \A i \in DOMAIN text : text'[i] = text[i]
  BY DEF LTypeOK
<1>2. ASSUME NEW i \in DOMAIN text', text'[i] # "newline" PROVE OwnLine(i)'
  <2>1. i \in DOMAIN text
    BY <1>1, <1>2
  <2> QED
    BY <1>1, <1>2, <2>1 DEF Readable, OwnLine
<1> QED
  BY <1>2 DEF Readable

LEMMA OrderlyNext ==
  ASSUME LTypeOK, Orderly, LNext, ~Stopped',
         \A w, u \in Writer : Appending(w)' /\ Appending(u)' => w = u
  PROVE  Orderly'
<1> PICK w \in Writer : Open(w) \/ GoesOn(w) \/ Stops(w)
  BY DEF LNext
<1>1. ~Stops(w)
  BY DEF Stops, Goes, Stopped, LTypeOK
<1>2. CASE Open(w) \/ Sync(w)
  <2>1. text' = text
    BY <1>2 DEF Open, Sync
  <2>2. Readable'
    BY <2>1 DEF Orderly, Readable, OwnLine
  <2>3. \A u \in Writer : phase[u] = "newline" => phase'[u] = "newline"
    BY <1>2 DEF Open, Sync, Goes, LTypeOK
  <2> QED
    BY <2>1, <2>2, <2>3 DEF Orderly
<1>3. CASE WriteLine(w)
  <2>1. \A u \in Writer : phase[u] # "newline"
    BY <1>3 DEF WriteLine, Orderly, Appending
  <2>2. Readable'
    BY <1>3, <2>1, LineAdded DEF WriteLine, Orderly
  <2>3. phase'[w] = "newline"
    BY <1>3 DEF WriteLine, Goes, LTypeOK
  <2> QED
    BY <2>2, <2>3 DEF Orderly
<1>4. CASE WriteNewline(w)
  <2>1. text' = Append(text, "newline")
    BY <1>4 DEF WriteNewline
  <2>2. Readable'
    BY <2>1, NewlineAdded DEF Orderly
  <2>3. text'[Len(text')] = "newline"
    BY <2>1 DEF LTypeOK
  <2> QED
    BY <2>2, <2>3 DEF Orderly
<1> QED
  BY <1>1, <1>2, <1>3, <1>4 DEF GoesOn

LEMMA DamageNext == DamageInv /\ [GNext]_<<lvars, apart>> => DamageInv'
<1> SUFFICES ASSUME DamageInv, [GNext]_<<lvars, apart>> PROVE DamageInv'
  OBVIOUS
<1>1. CASE GNext
  <2>1. LTypeOK' /\ apart' \in BOOLEAN
    BY <1>1, TypeNext DEF DamageInv, GNext
  <2>2. Stopped => Stopped'
    BY <1>1 DEF DamageInv, GNext, LNext, Open, GoesOn, WriteLine, WriteNewline, Sync, Stops,
                Goes, Appending, LTypeOK, Stopped
  <2>3. ASSUME apart', ~Stopped' PROVE Orderly'
    <3>1. apart /\ \A w, u \in Writer : Appending(w)' /\ Appending(u)' => w = u
      BY <1>1, <2>3 DEF GNext, DamageInv
    <3>2. Orderly
      BY <2>2, <2>3, <3>1 DEF DamageInv
    <3> QED
      BY <1>1, <2>3, <3>1, <3>2, OrderlyNext DEF GNext, DamageInv
  <2> QED
    BY <2>1, <2>3 DEF DamageInv
<1>2. CASE UNCHANGED <<lvars, apart>>
  BY <1>2 DEF lvars, DamageInv, LTypeOK, Orderly, Stopped, Appending, Readable, OwnLine
<1> QED
  BY <1>1, <1>2

(* Appends that do not overlap, and of which none is stopped (lib.rs:450-460),
   never make a file unreadable, however many there are. *)
THEOREM OnlyStopsDamageHolds == GSpec => []OnlyStopsDamage
<1>1. DamageInv => OnlyStopsDamage
  BY DEF DamageInv, Orderly, Stopped, OnlyStopsDamage
<1> QED
  BY DamageInit, DamageNext, <1>1, PTL DEF GSpec
-----------------------------------------------------------------------------
(* A client that leafs: an event it has not been sent is still ahead of it, not
   counting from the newest, which change, but from the oldest. *)
Ahead(e) == \E k \in DOMAIN Entries : Entries[k] = e /\ k + offset <= Len(Entries)

(* What the client had before it when it began is ahead of it or has been seen. *)
PageInv ==
  /\ LTypeOK
  /\ limit \in Int /\ offset \in 0..(MaxOffset + 1)
  /\ reader = "new" => offset = 0
  /\ reader = "reads" => \A e \in had \ seen : Ahead(e)
  /\ reader = "done" => had \subseteq seen

LEMMA PageInit == PInit => PageInv
BY LInvInit, PagesAssumption DEF PInit, GInit, PageInv, LInv

LEMMA EntriesTyped == LTypeOK => Entries \in Seq(Writer)
<1> SUFFICES ASSUME LTypeOK PROVE Entries \in Seq(Writer)
  OBVIOUS
<1>1. text \in Seq(Writer \cup {"newline", "cut"})
  BY DEF LTypeOK
<1>2. Keep(text, Writer) \in Seq((Writer \cup {"newline", "cut"}) \cap Writer)
  BY <1>1, KeepPlaces
<1> QED BY <1>2 DEF Entries

(* What the log has it keeps, each entry at its place. *)
LEMMA EntriesGrow ==
  ASSUME LTypeOK, [LNext]_lvars
  PROVE  Entries' = Entries \/ \E w \in Writer : Entries' = Append(Entries, w)
<1>1. text \in Seq(Writer \cup {"newline", "cut"})
  BY DEF LTypeOK
<1>2. CASE text' = text
  BY <1>2 DEF Entries
<1>3. ASSUME NEW t \in Writer \cup {"newline", "cut"}, text' = Append(text, t)
      PROVE  Entries' = Entries \/ \E w \in Writer : Entries' = Append(Entries, w)
  <2>1. Keep(Append(text, t), Writer)
          = IF t \in Writer THEN Append(Keep(text, Writer), t) ELSE Keep(text, Writer)
    BY <1>1, KeepAppend
  <2> QED BY <1>3, <2>1 DEF Entries
<1> QED BY <1>2, <1>3, TextGrows

LEMMA PageAppends ==
  ASSUME PageInv, [LNext]_lvars, UNCHANGED pagevars
  PROVE  PageInv'
<1>1. LTypeOK'
  BY TypeNext DEF PageInv
<1>2. /\ Entries \in Seq(Writer)
      /\ Entries' = Entries \/ \E w \in Writer : Entries' = Append(Entries, w)
  BY EntriesTyped, EntriesGrow DEF PageInv
<1> DEFINE Longer ==
      /\ \A k \in DOMAIN Entries : k \in DOMAIN Entries' /\ Entries'[k] = Entries[k]
      /\ Len(Entries) <= Len(Entries') /\ Len(Entries) \in Nat /\ Len(Entries') \in Nat
<1>3. Longer
  <2>1. CASE Entries' = Entries
    BY <1>2, <2>1
  <2>2. ASSUME NEW w \in Writer, Entries' = Append(Entries, w) PROVE Longer
    BY <1>2, <2>2
  <2> QED BY <1>2, <2>1, <2>2
<1>4. offset \in Int /\ DOMAIN Entries \subseteq Int
  BY <1>2 DEF PageInv
<1>5. ASSUME NEW e, Ahead(e) PROVE Ahead(e)'
  BY <1>3, <1>4, <1>5 DEF Ahead, pagevars
<1> QED BY <1>1, <1>5 DEF PageInv, pagevars

(* A page holds the newest events from the offset on, at most as many as asked
   for, but one at least if there are any. *)
LEMMA PageHolds ==
  ASSUME PageInv,
         NEW k \in DOMAIN Entries, k + offset <= Len(Entries)
  PROVE  /\ Page(offset, limit) # <<>>
         /\ Len(Page(offset, limit)) \in Nat
         /\ \/ Entries[k] \in ToSet(Page(offset, limit))
            \/ k + Clamp(offset + Len(Page(offset, limit)), 0, MaxOffset + 1) <= Len(Entries)
<1> DEFINE n == Len(Entries)
           from == Clamp(offset, 0, MaxOffset)
           lim == Clamp(limit, 1, MaxLimit)
           to == Clamp(from + lim, 0, n)
           page == SubSeq(Reverse(Entries), from + 1, to)
<1>1. Entries \in Seq(Writer)
  BY EntriesTyped DEF PageInv
<1>2. Reverse(Entries) \in Seq(Writer) /\ Len(Reverse(Entries)) = n
      /\ \A i \in 1..n : Reverse(Entries)[i] = Entries[n - i + 1]
  BY <1>1 DEF Reverse
<1>3. Page(offset, limit) = page
  BY <1>2 DEF Page
<1>4. /\ n \in Nat /\ k \in 1..n /\ offset \in 0..(MaxOffset + 1) /\ MaxOffset \in Nat
      /\ limit \in Int /\ MaxLimit \in Nat \ {0}
  BY <1>1, PagesAssumption DEF PageInv
<1> HIDE DEF n
<1>5. /\ from \in Nat /\ from <= offset /\ from <= MaxOffset /\ offset <= from + 1
      /\ (offset <= MaxOffset => from = offset)
      /\ lim \in Nat /\ 1 <= lim
  BY <1>4 DEF Clamp
<1> HIDE DEF from, lim
<1>6. to = IF from + lim < n THEN from + lim ELSE n
  BY <1>4, <1>5 DEF Clamp
<1> HIDE DEF to
<1>7. from < n /\ from + 1 <= to /\ to <= n /\ to \in Nat
  BY <1>4, <1>5, <1>6 DEF n
<1>8. /\ page \in Seq(Writer) /\ Len(page) = to - from
      /\ \A i \in 1..(to - from) : page[i] = Entries[n - (from + i) + 1]
  BY <1>2, <1>4, <1>5, <1>7
<1> HIDE DEF page
<1>9. page # <<>> /\ Len(page) \in Nat
  BY <1>5, <1>7, <1>8
<1>10. CASE n - k + 1 <= to
  <2> DEFINE i == n - k + 1 - from
  <2>0. k + offset <= n
    BY DEF n
  <2>1. i \in 1..(to - from) /\ n - (from + i) + 1 = k
    BY <2>0, <1>4, <1>5, <1>7, <1>10
  <2>2. i \in DOMAIN page
    BY <1>8, <2>1
  <2> HIDE DEF i
  <2>3. page[i] = Entries[k]
    BY <1>8, <2>1
  <2> QED BY <1>3, <1>9, <2>2, <2>3 DEF ToSet
<1>11. CASE to < n - k + 1
  <2>1. to = from + lim /\ Len(page) = lim
    BY <1>4, <1>5, <1>6, <1>8, <1>11
  <2>2. k + Clamp(offset + lim, 0, MaxOffset + 1) <= n
    BY <1>4, <1>5, <1>11, <2>1 DEF Clamp
  <2> QED BY <1>3, <1>9, <2>1, <2>2 DEF n
<1> QED BY <1>4, <1>7, <1>10, <1>11

LEMMA PageStep ==
  ASSUME PageInv, GetPage
  PROVE  PageInv'
<1> DEFINE page == Page(offset, limit)
<1>1. LTypeOK' /\ Entries' = Entries /\ UNCHANGED limit
  BY DEF GetPage, PageInv, LTypeOK, lvars, Entries
<1>2. CASE reader' \in {"refused", "misled"} /\ UNCHANGED <<seen, offset>>
  BY <1>1, <1>2 DEF GetPage, PageInv
<1>3. CASE ~ (reader' \in {"refused", "misled"} /\ UNCHANGED <<seen, offset>>)
  <2>1. /\ had' = IF reader = "new" THEN ToSet(Entries) ELSE had
        /\ seen' = seen \cup ToSet(page)
        /\ offset' = Clamp(offset + Len(page), 0, MaxOffset + 1)
        /\ reader' = IF page = <<>> THEN "done" ELSE "reads"
    BY <1>3 DEF GetPage
  <2>2. \A e \in had' \ seen : Ahead(e)
    <3>1. CASE reader = "new"
      <4>1. Entries \in Seq(Writer) /\ offset = 0
        BY <3>1, EntriesTyped DEF PageInv
      <4> QED BY <2>1, <3>1, <4>1 DEF Ahead, ToSet
    <3>2. CASE reader = "reads"
      BY <2>1, <3>2 DEF PageInv
    <3> QED BY <3>1, <3>2 DEF GetPage
  <2>3. offset' \in 0..(MaxOffset + 1)
    <3> DEFINE new == Reverse(Entries)
               from == Clamp(offset, 0, MaxOffset)
               to == Clamp(from + Clamp(limit, 1, MaxLimit), 0, Len(new))
    <3>1. page = SubSeq(new, from + 1, to)
      BY DEF Page
    <3>2. new \in Seq(Writer) /\ Len(new) \in Nat
      BY EntriesTyped DEF PageInv, Reverse
    <3>3. offset \in Nat /\ MaxOffset \in Nat /\ limit \in Int /\ MaxLimit \in Nat
      BY PagesAssumption DEF PageInv
    <3> HIDE DEF new
    <3>4. from \in Nat /\ to \in 0..Len(new)
      BY <3>2, <3>3 DEF Clamp
    <3> HIDE DEF page, from, to
    <3>5. Len(page) \in Nat
      BY <3>1, <3>2, <3>4
    <3> QED BY <2>1, <3>3, <3>5 DEF Clamp
  <2>4. ASSUME NEW e \in had' \ seen' PROVE page # <<>> /\ Ahead(e)'
    <3>1. e \in had' \ seen /\ e \notin ToSet(page)
      BY <2>1, <2>4
    <3>2. PICK k \in DOMAIN Entries : Entries[k] = e /\ k + offset <= Len(Entries)
      BY <2>2, <3>1 DEF Ahead
    <3>3. page # <<>> /\ k + offset' <= Len(Entries)
      BY <2>1, <3>1, <3>2, PageHolds
    <3> QED BY <1>1, <3>2, <3>3 DEF Ahead
  <2> HIDE DEF page
  <2>5. reader' # "new" /\ (reader' = "done" => had' \subseteq seen')
    BY <2>1, <2>4
  <2> QED BY <1>1, <2>3, <2>4, <2>5 DEF PageInv
<1> QED BY <1>2, <1>3

(* Who leafs through GET /audit to the end (routes.rs:759-765, lib.rs:339-348)
   has seen every event that was there when he began, whatever is appended
   meanwhile, for any limit and any number of searches. *)
THEOREM NoneSkippedHolds == PSpec => []NoneSkipped
<1>1. PageInv /\ [PNext]_<<lvars, apart, pagevars>> => PageInv'
  <2> SUFFICES ASSUME PageInv, [PNext]_<<lvars, apart, pagevars>> PROVE PageInv'
    OBVIOUS
  <2>1. CASE GNext /\ UNCHANGED pagevars
    BY <2>1, PageAppends DEF GNext
  <2>2. CASE GetPage
    BY <2>2, PageStep
  <2>3. CASE UNCHANGED <<lvars, apart, pagevars>>
    BY <2>3, PageAppends
  <2> QED BY <2>1, <2>2, <2>3 DEF PNext
<1>2. PageInv => NoneSkipped
  BY DEF PageInv, NoneSkipped
<1> QED BY PageInit, <1>1, <1>2, PTL DEF PSpec
=============================================================================
