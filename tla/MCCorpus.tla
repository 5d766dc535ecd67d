------------------------------ MODULE MCCorpus ------------------------------
(* The corpus with one or two refreshes, three lists and one crash.  "a" is
   what data.trade.gov serves; the empty list comes from seed.json. *)
EXTENDS Corpus, TLC

CONSTANT a

MCCorpora == {Empty, Fixture, a}
FeedOrNone == {a, "none"}
FeedOrJunk == {a, "junk", "none"}

Requests == Permutations(Req)
=============================================================================
