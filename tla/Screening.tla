------------------------------ MODULE Screening ------------------------------
(***************************************************************************)
(* What a screening answers: parse_external_json (csl-ingest), build and   *)
(* search of the engine (engine.rs, tlp.rs), the service's answer          *)
(* (csl-service main.rs) and the gateway's decision (routes.rs).           *)
(* Names, tokens and trigrams are abstracted to how well a record fits the *)
(* one query: its Jaro-Winkler strength in hundredths, its BM25 score in   *)
(* hundredths of the reference, and whether it shares enough trigrams.     *)
(* Candidates come out of a HashMap: equal scores are in any order, another*)
(* one for every search.                                                   *)
(***************************************************************************)
EXTENDS Filter, FiniteSets, FiniteSetsExt, SequencesExt, Functions

CONSTANTS
  Stem,       \* what an id begins with, numbers after a "#" left off
  Record,     \* records of a feed: [id, name, source, type]
  FeedSize,   \* bound: records in a feed
  Missing,    \* an id or a name that a record does not have
  Fit,        \* what a query may find: [jw, bm, near]
  Sources,    \* source filters a client may send; All for none
  Types,      \* entity_types filters, the same; lists of names
  All,
  Limits,     \* values of limit
  TopK        \* RERANK_TOP_K, 200 in the code

ASSUME ScreeningAssumption ==
  /\ FeedSize \in Nat /\ TopK \in Nat \ {0} /\ Limits \subseteq Nat
  /\ \A f \in Fit : f.jw \in 0..100 /\ f.bm \in 0..100 /\ f.near \in BOOLEAN
  /\ \A f \in Fit : f.jw = 100 => f.bm > 0 \/ f.near   \* the same words or trigrams
  /\ \A r \in Record : r.id # Missing => r.id \in [stem : Stem, nos : Seq(Nat)]

VARIABLES
  published, \* the feed that was parsed; history, of its ids
  entries,   \* the engine's entries, as ingested: [id, source, type]
  fit,       \* fit[d]: how well entry d fits the query
  order,     \* the candidates in the order of their BM25 scores
  ask,       \* the request: [sources, types, fuzzy, limit]
  stage      \* "feed", "indexed", "answered"

vars == <<published, entries, fit, order, ask, stage>>
-----------------------------------------------------------------------------
EntityType(t) ==
  CASE t \in {"individual", "person"} -> "individual"
    [] t \in {"entity", "company", "organization"} -> "entity"
    [] t \in {"vessel", "ship"} -> "vessel"
    [] t \in {"aircraft", "plane"} -> "aircraft"
    [] OTHER -> "unknown"

(* An id is a string: a stem and the numbers after each "#" at its end, so that
   "X#2" is one and the same whether a feed has it or the code makes it. *)
Id(stem, nos) == [stem |-> stem, nos |-> nos]

(* raw_id: the record's own id, or "<source>-<row>" if it has none. *)
RawId(feed, i) ==
  IF feed[i].id = Missing THEN Id(<<feed[i].source, i - 1>>, <<>>) ELSE feed[i].id

Named(feed) == {i \in DOMAIN feed : feed[i].name # Missing}

(* Mutant of EntryId: rows with the same id keep it. *)
EntryIdRaw(feed, i) == RawId(feed, i)

(* The second row of a raw id gets "#2" behind it, the third "#3": even if a row
   brings that very id along. *)
EntryId(feed, i) ==
  LET raw == RawId(feed, i)
      before == Cardinality({j \in Named(feed) : j < i /\ RawId(feed, j) = raw})
  IN IF before = 0 THEN raw ELSE Id(raw.stem, Append(raw.nos, before + 1))

(* parse_external_json: rows without a name are left out. *)
Ingested(feed) ==
  LET rows == Keep([i \in DOMAIN feed |-> i], Named(feed))
  IN [k \in DOMAIN rows |->
        [id |-> EntryId(feed, rows[k]), source |-> feed[rows[k]].source,
         type |-> EntityType(feed[rows[k]].type)]]

(* entry: by_id holds the last entry of an id; csl_get finds the first. *)
ById(id) == Max({d \in DOMAIN entries : entries[d].id = id})
CslGet(id) == Min({d \in DOMAIN entries : entries[d].id = id})

(* The entry that a hit's tags and citation are taken from, and the one that
   its id leads to (/csl/entries/<id>, while csl.json is the engine's list). *)
Snapshot(d) == ById(entries[d].id)
EntryPage(d) == CslGet(entries[d].id)
-----------------------------------------------------------------------------
Exact(d) == fit[d].jw = 100

(* Stage 1: a query term in the record, or, if fuzzy, half of its trigrams. *)
Candidates(f, a) == {d \in DOMAIN f : f[d].bm > 0 \/ (a.fuzzy /\ f[d].near)}

(* Stage 2: the sort by BM25, over a HashMap's entries. *)
Orders(f, docs) ==
  {s \in [1..Cardinality(docs) -> docs] :
     /\ IsInjective(s)
     /\ \A i, j \in DOMAIN s : i < j => f[s[i]].bm >= f[s[j]].bm}

Cut(s, n) == SubSeq(s, 1, Min({n, Len(s)}))

Reranked == Cut(order, TopK)

(* Stage 3: similarity against BM25, 7 to 3; in thousandths. *)
Blended(d) == 7 * fit[d].jw + 3 * fit[d].bm

(* The request's type names: those the service does not know are dropped. *)
Asked(types) ==
  {t \in types : t \in {"individual", "entity", "vessel", "aircraft", "unknown"}}

Ofac == {"SDN", "NS-MBS", "NS-ISA", "FSE", "SSI", "CAPTA", "PLC"}
Pep == {"PLC"}

(* The lists a request is held against: /screen/ofac and /screen/pep do not heed
   those of the body. *)
Merged(route, sources) ==
  CASE route = "ofac" -> Ofac
    [] route = "pep" -> Pep
    [] OTHER -> sources

(* Stage 4: retain ... *)
Passes(d, a) ==
  /\ a.sources # All => entries[d].source \in a.sources
  /\ a.types # All => entries[d].type \in Asked(a.types)

(* ... and the stable sort by the blended score: in front of the i-th of s go
   those that score higher, and of those that score the same the earlier ones. *)
Before(s, i) ==
  {j \in DOMAIN s : \/ Blended(s[j]) > Blended(s[i])
                    \/ Blended(s[j]) = Blended(s[i]) /\ j < i}

ByScore(s) ==
  [k \in DOMAIN s |-> s[CHOOSE i \in DOMAIN s : Cardinality(Before(s, i)) = k - 1]]

AtLeastOne(n) == IF n = 0 THEN 1 ELSE n

(* Mutant of Hits: the page is cut before it is sorted. *)
HitsCutFirst(a) ==
  ByScore(Cut(Keep(Reranked, {d \in DOMAIN entries : Passes(d, a)}), AtLeastOne(a.limit)))

(* The hits of the page. *)
Hits(a) ==
  Cut(ByScore(Keep(Reranked, {d \in DOMAIN entries : Passes(d, a)})), AtLeastOne(a.limit))

(* Mutant of ExactAliasMatch: the top hit is the exact one. *)
ExactOnTop(a) == Hits(a) # <<>> /\ Exact(Hits(a)[1])

(* Mutant of ExactAliasMatch: an exact match anywhere will do. *)
ExactAnywhere(a) == \E d \in ToSet(Reranked) : Exact(d)

(* exact_alias_match: the first exact match of stage 3, before any filter, is
   on the page. *)
ExactAliasMatch(a) ==
  LET exact == Keep(Reranked, {d \in DOMAIN entries : Exact(d)})
  IN exact # <<>> /\ exact[1] \in ToSet(Hits(a))

Band(jw) == IF jw >= 95 THEN "red" ELSE IF jw >= 75 THEN "yellow" ELSE "green"

(* band: the light of the page ... *)
Light(a) ==
  IF ExactAliasMatch(a) THEN "red"
  ELSE IF Hits(a) = <<>> THEN "green" ELSE Band(fit[Hits(a)[1]].jw)

(* ... and what the gateway logs and answers. *)
Decision(a) ==
  CASE Light(a) = "green" -> "auto-green"
    [] Light(a) = "yellow" -> "pending-review"
    [] OTHER -> IF ExactAliasMatch(a) THEN "auto-block" ELSE "pending-block"
-----------------------------------------------------------------------------
Init ==
  /\ stage = "feed" /\ published = <<>>
  /\ entries = <<>> /\ fit = <<>> /\ order = <<>>
  /\ ask = [sources |-> All, types |-> All, fuzzy |-> TRUE, limit |-> 1]

(* A list is parsed and an engine built of it. *)
Ingest ==
  /\ stage = "feed"
  /\ \E n \in 0..FeedSize : published' \in [1..n -> Record]
  /\ entries' = Ingested(published')
  /\ stage' = "indexed"
  /\ UNCHANGED <<fit, order, ask>>

(* One search; the engine remembers nothing of it. *)
Search ==
  /\ stage = "indexed"
  /\ fit' \in [DOMAIN entries -> Fit]
  /\ \E route \in {"search", "ofac", "pep"} :
       ask' \in [sources : {Merged(route, s) : s \in Sources}, types : Types,
                 fuzzy : BOOLEAN, limit : Limits]
  /\ order' \in Orders(fit', Candidates(fit', ask'))
  /\ stage' = "answered"
  /\ UNCHANGED <<published, entries>>

Next == Ingest \/ Search

Spec == Init /\ [][Next]_vars
-----------------------------------------------------------------------------
Answered == stage = "answered"

(* An id that is made for one row, and that another row has of its own. *)
Clashes(feed, id) ==
  \E i, j \in Named(feed) :
    EntryId(feed, i) = id /\ RawId(feed, i) # id /\ RawId(feed, j) = id

(* What the answer says of a hit (its list, its type, its citation) is found by
   its id, in the engine and, for the entry's page, in csl.json.  Both find the
   record that was scored, though a feed repeats ids, leaves some out and has
   some that look as if the code had made them (csl-ingest lib.rs:150-153).  Only
   an id made for one row which another row has of its own leads astray: the
   second X of a feed X, X, "X#2". *)
HitIsItself ==
  Answered => \A d \in ToSet(Hits(ask)) :
    Clashes(published, entries[d].id) \/ (Snapshot(d) = d /\ EntryPage(d) = d)

(* A larger page of the same search, out of the same candidates in the same order,
   never looks cleaner and shows what the smaller one shows.  (A second search may
   put candidates of equal score in another order, and cut others off.) *)
LargerPageNotCleaner ==
  Answered => \A n \in Limits : n >= ask.limit =>
    LET wider == [ask EXCEPT !.limit = n]
    IN /\ IsPrefix(Hits(ask), Hits(wider))
       /\ ExactAliasMatch(ask) => ExactAliasMatch(wider)
       /\ Light(ask) = "red" => Light(wider) = "red"

(* Whoever is on the list under the very name asked for is blocked at once, by
   a search of all lists and types whose page and candidates are not cut. *)
ExactBlocks ==
  /\ Answered /\ ask.fuzzy /\ ask.sources = All /\ ask.types = All
  /\ Len(order) <= TopK /\ Len(order) <= ask.limit
  /\ \E d \in DOMAIN entries : Exact(d)
  => Decision(ask) = "auto-block"

(* Nobody is blocked without review but for an exact match among the hits on
   the page, of the lists and types asked for. *)
BlockShowsExact ==
  Answered /\ Decision(ask) = "auto-block" =>
    \E d \in ToSet(Hits(ask)) : Exact(d) /\ Passes(d, ask)

(* Claim of engine.rs:439-442: the flag is set when the query is a name or an
   alias of the top hit. *)
TopHitFlagged ==
  Answered /\ Hits(ask) # <<>> /\ Exact(Hits(ask)[1]) => ExactAliasMatch(ask)
=============================================================================
