------------------------------- MODULE Corpus -------------------------------
(***************************************************************************)
(* The screening list's way from data.trade.gov to the engine that answers *)
(* searches.  It is kept three times: /data/csl.json (live), the index     *)
(* cache /data/search-index.bin (cache) and the engine in csl-service's    *)
(* memory.  It is replaced from two sides that share no lock:              *)
(*   - every POST /api/v1/csl/refresh runs in an api-gateway instance of   *)
(*     its own (routes.rs csl_refresh): fetch, else seed.json; parse;      *)
(*     csl_bulk_replace; then the Refresh operation over TCP;              *)
(*   - csl-service (main.rs, bootstrap.rs) seeds an empty volume at boot   *)
(*     and updates the list itself, at start and once a day.               *)
(* Both replace csl.json with write_atomic (AtomicReplace).  csl-service   *)
(* is one thread: between two awaits its steps are not interleaved with    *)
(* its own handlers, but any gateway may step in.                          *)
(***************************************************************************)
EXTENDS Naturals

CONSTANTS
  Req,          \* refresh requests, each a gateway instance that runs once
  Svc,          \* the csl-service process, as a writer of csl.json
  Corpora,      \* parsed lists
  Empty,        \* the list without entries
  Fixture,      \* the list embedded in csl-service (EMBEDDED_SEED)
  Feed,         \* what a fetch may bring: lists, "junk" (no JSON), "none"
  SeedJson,     \* what /data/csl/seed.json holds: as Feed
  MaxCrashes    \* bound: how often csl-service dies

ASSUME CorpusAssumption ==
  /\ Svc \notin Req
  /\ {Empty, Fixture} \subseteq Corpora /\ Empty # Fixture
  /\ Corpora \cap {"absent", "blank", "torn", "nothing", "junk", "none", "error"} = {}
  /\ Feed \subseteq Corpora \cup {"junk", "none"}
  /\ SeedJson \in Corpora \cup {"junk", "none"}
  /\ MaxCrashes \in Nat
  /\ Req \cap {"boot", "update", "nobody"} = {}
  /\ Svc \notin {"boot", "update", "nobody"}

VARIABLES
  live, tmp, fd, step, doc,   \* csl.json: see AtomicReplace
  cache,        \* search-index.bin: a list's index, "torn" or "absent"
  svc,          \* where csl-service is
  engine,       \* the list its engine holds, while it listens
  job,          \* the list an engine is being built from
  caller,       \* for whom: a request, "update", "boot", or "nobody"
  upd,          \* the scheduler: "fetching" or "asleep"
  pc,           \* pc[r]: "new", "storing", "call", "wait", or r's answer
  call,         \* call[r]: r's Refresh operation on the wire
  crashes,
  by, astray, clean, stored   \* history: see Init

writer == Req \cup {Svc}
File == INSTANCE AtomicReplace WITH
  Writer <- writer, Data <- Corpora, Serial <- FALSE

filevars == <<live, tmp, fd, step, doc>>
svcvars == <<svc, engine, job, caller, upd>>
reqvars == <<pc, call>>
vars == <<filevars, cache, svcvars, reqvars, crashes, by, astray, clean, stored>>

Answer == {"200", "200 index_error", "400", "500", "503", "aborted"}
Listening == svc \in {"idle", "storing", "persist", "swap"} /\ caller # "boot"

(* Searches are answered between two jobs of the one thread. *)
Serving == svc = "idle"

(* What csl.json holds; a missing file is an empty list. *)
ListAll == IF live = "absent" THEN Empty ELSE live

(* csl_list_all, one reading of it: an unparsable file is an error, and so is one
   that cannot be opened or read; a file whose stat fails counts as missing
   (Path::exists is false). *)
Readings ==
  {Empty} \cup ({live} \cap Corpora) \cup (IF live = "absent" THEN {} ELSE {"error"})

Init ==
  /\ File!RInit
  /\ cache = "absent"
  /\ svc = "down" /\ engine = Empty /\ job = Empty /\ caller = "nobody"
  /\ upd = "asleep"
  /\ pc = [r \in Req |-> "new"]
  /\ call = [r \in Req |-> "none"]
  /\ crashes = 0
  /\ by = "nobody"      \* the process whose step last touched csl.json
  /\ astray = {}        \* copies that a disk error has put apart: see Mark
  /\ clean = TRUE       \* no two replacements of csl.json have overlapped
  /\ stored = {}        \* every list csl.json has held
-----------------------------------------------------------------------------
(* History: who touched csl.json, what it held, whether writers overlapped. *)
Record(w, touched) ==
  /\ by' = IF touched THEN w ELSE by
  /\ clean' = (clean /\ \A u \in writer \ {w} : ~File!Busy(u))
  /\ stored' = stored \cup ({live'} \cap Corpora)

(* History: "job" and "engine" go astray when they are built from a reading that did
   not show what csl.json holds, "index" (the cache file) when it is written from
   such a job, or when a write fails and keeps the older one; a copy of an astray
   copy is astray, and one built from a good reading is not. *)
Mark(copy, bad) == IF bad THEN astray \cup {copy} ELSE astray \ {copy}

Begin(w, list) == File!Create(w, list) /\ Record(w, FALSE)

(* The steps of a write_atomic under way, by what they tell the caller. *)
GoesOn(w) == File!Write(w) /\ Record(w, fd[w] = "live")
Succeeds(w) == File!Rename(w) /\ Record(w, TRUE)
Fails(w) ==
  \/ File!WriteFails(w) /\ Record(w, fd[w] = "live")
  \/ File!RenameFails(w) /\ Record(w, FALSE)
-----------------------------------------------------------------------------
(* csl_refresh up to File::create: fetch (unless ?source=seed), fall back on
   seed.json, if that can be read, when the fetch brought nothing, parse.  No file,
   no list and no temporary file are the early returns 503, 400 and 500. *)
Bytes(f) == IF f = "none" THEN {SeedJson, "none"} ELSE {f}
Refused(bytes) ==
  CASE bytes = "none" -> "503" [] bytes = "junk" -> "400" [] OTHER -> "500"

Ingest(r, f) ==
  /\ pc[r] = "new"
  /\ \E bytes \in Bytes(f) :
       \/ /\ pc' = [pc EXCEPT ![r] = Refused(bytes)]
          /\ UNCHANGED <<filevars, by, clean, stored>>
       \/ /\ bytes \in Corpora
          /\ pc' = [pc EXCEPT ![r] = "storing"]
          /\ Begin(r, bytes)
  /\ UNCHANGED <<cache, svcvars, call, crashes, astray>>

(* csl_bulk_replace: ok leads to the Refresh call, an error to 500. *)
Store(r) ==
  /\ pc[r] = "storing"
  /\ \/ GoesOn(r) /\ UNCHANGED pc
     \/ Succeeds(r) /\ pc' = [pc EXCEPT ![r] = "call"]
     \/ Fails(r) /\ pc' = [pc EXCEPT ![r] = "500"]
  /\ UNCHANGED <<cache, svcvars, call, crashes, astray>>

(* csl_client::call(Op::Refresh): a connection of its own, refused when
   csl-service does not listen. *)
Call(r) ==
  /\ pc[r] = "call"
  /\ IF Listening
       THEN /\ pc' = [pc EXCEPT ![r] = "wait"]
            /\ call' = [call EXCEPT ![r] = "queued"]
       ELSE /\ pc' = [pc EXCEPT ![r] = "200 index_error"]
            /\ UNCHANGED call
  /\ UNCHANGED <<filevars, cache, svcvars, crashes, by, astray, clean, stored>>

(* The reply, a reset connection, or a reply whose first bytes come after the
   deadline: the 30 s are looked at only between two blocking reads. *)
Reply(r) ==
  /\ pc[r] = "wait"
  /\ call[r] \in {"served", "failed", "reset"}
  /\ \/ call[r] = "served" /\ pc' = [pc EXCEPT ![r] = "200"]
     \/ pc' = [pc EXCEPT ![r] = "200 index_error"]
  /\ call' = [call EXCEPT ![r] = "none"]
  /\ UNCHANGED <<filevars, cache, svcvars, crashes, by, astray, clean, stored>>

(* The instance is dropped in mid-request; its operation may be in the queue. *)
Abort(r) ==
  /\ pc[r] \in {"storing", "call", "wait"}
  /\ pc' = [pc EXCEPT ![r] = "aborted"]
  /\ IF File!Busy(r) THEN File!Die(r) ELSE UNCHANGED filevars
  /\ UNCHANGED <<cache, svcvars, call, crashes, by, astray, clean, stored>>
-----------------------------------------------------------------------------
(* main: JsonFsStorage::open, then stage_environment. *)
Boot ==
  /\ svc = "down"
  /\ svc' = "staging"
  /\ UNCHANGED <<filevars, cache, engine, job, caller, upd, reqvars, crashes,
                 by, astray, clean, stored>>

(* stage_environment: seed the list when it reads as empty OR cannot be read; go on
   if it needs none, or if the temporary file cannot be created. *)
Stage ==
  /\ svc = "staging"
  /\ \E list \in Readings :
       \/ list \in {Empty, "error"} /\ svc' = "seeding" /\ Begin(Svc, Fixture)
       \/ svc' = "loading" /\ UNCHANGED <<filevars, by, clean, stored>>
  /\ UNCHANGED <<cache, engine, job, caller, upd, reqvars, crashes, astray>>

(* `let _ = csl_bulk_replace(..)`: whatever came of it, boot goes on. *)
Seed ==
  /\ svc = "seeding"
  /\ \/ GoesOn(Svc) /\ UNCHANGED svc
     \/ (Succeeds(Svc) \/ Fails(Svc)) /\ svc' = "loading"
  /\ UNCHANGED <<cache, engine, job, caller, upd, reqvars, crashes, astray>>

(* The index is loaded, if it decodes. *)
LoadWarm ==
  /\ cache \in Corpora
  /\ svc' = "binding" /\ engine' = cache
  /\ astray' = Mark("engine", "index" \in astray)
  /\ UNCHANGED <<job, caller>>

(* csl.json is read: an index is built if that lists anything; else, on an error
   too, the engine is that of the empty list. *)
LoadCold ==
  \E list \in Readings :
    IF list \in {Empty, "error"}
      THEN /\ svc' = "binding" /\ engine' = Empty
           /\ astray' = Mark("engine", list # ListAll)
           /\ UNCHANGED <<job, caller>>
      ELSE /\ svc' = "persist" /\ job' = list /\ caller' = "boot"
           /\ UNCHANGED <<engine, astray>>

(* Mutant of Load: the index is used without asking whether it decodes. *)
LoadUnchecked ==
  /\ svc = "loading"
  /\ svc' = "binding"
  /\ engine' = IF cache = "absent" THEN Empty ELSE cache
  /\ astray' = Mark("engine", "index" \in astray)
  /\ UNCHANGED <<filevars, cache, job, caller, upd, reqvars, crashes, by, clean,
                 stored>>

(* Mutant of Load: no rebuild from csl.json when the index does not decode. *)
LoadCacheOnly ==
  /\ svc = "loading"
  /\ \/ LoadWarm
     \/ /\ cache \notin Corpora
        /\ svc' = "binding" /\ engine' = Empty
        /\ UNCHANGED <<job, caller, astray>>
  /\ UNCHANGED <<filevars, cache, upd, reqvars, crashes, by, clean, stored>>

(* build_engine: the index, else csl.json.  Reading the index file can fail, whatever
   it holds. *)
Load ==
  /\ svc = "loading"
  /\ LoadWarm \/ LoadCold
  /\ UNCHANGED <<filevars, cache, upd, reqvars, crashes, by, clean, stored>>

(* TcpListener::bind, an await after build_engine has read; then serve and the
   scheduler begin, which starts with an update.  (A bind that fails ends main:
   see Crash.) *)
Bind ==
  /\ svc = "binding"
  /\ svc' = "idle" /\ upd' = "fetching"
  /\ UNCHANGED <<filevars, cache, engine, job, caller, reqvars, crashes, by, astray,
                 clean, stored>>

(* Mutant of Refresh: the error path returns without an answer. *)
RefreshSilent(r) ==
  /\ svc = "idle" /\ call[r] = "queued"
  /\ \E list \in Readings :
       IF list = "error"
         THEN /\ call' = [call EXCEPT ![r] = "none"]
              /\ UNCHANGED <<svc, job, caller, astray>>
         ELSE /\ svc' = "persist" /\ job' = list /\ caller' = r
              /\ astray' = Mark("job", list # ListAll)
              /\ UNCHANGED call
  /\ UNCHANGED <<filevars, cache, engine, upd, pc, crashes, by, clean, stored>>

(* handle_line, Refresh: build_engine_safely reads csl.json; an error is
   answered and the engine stays. *)
Refresh(r) ==
  /\ svc = "idle"
  /\ call[r] = "queued"
  /\ \E list \in Readings :
       IF list = "error"
         THEN /\ call' = [call EXCEPT ![r] = "failed"]
              /\ UNCHANGED <<svc, job, caller, astray>>
         ELSE /\ svc' = "persist" /\ job' = list /\ caller' = r
              /\ astray' = Mark("job", list # ListAll)
              /\ UNCHANGED call
  /\ UNCHANGED <<filevars, cache, engine, upd, pc, crashes, by, clean, stored>>

(* Mutant of Persist: only a boot writes the index it has built. *)
PersistAtBoot ==
  /\ svc = "persist"
  /\ svc' = "swap"
  /\ cache' = IF caller = "boot" THEN job ELSE cache
  /\ UNCHANGED <<filevars, engine, job, caller, upd, reqvars, crashes, by, astray,
                 clean, stored>>

(* `let _ = fs::write(INDEX_CACHE_PATH, ..)`, which can fail before or after it
   has truncated the old index. *)
Persist ==
  /\ svc = "persist"
  /\ svc' = "swap"
  /\ \/ cache' = job /\ astray' = Mark("index", "job" \in astray)
     \/ cache' = "torn" /\ astray' = Mark("index", FALSE)
     \/ UNCHANGED cache /\ astray' = Mark("index", cache \in Corpora)
  /\ UNCHANGED <<filevars, engine, job, caller, upd, reqvars, crashes, by, clean,
                 stored>>

(* The engine is swapped in; a Refresh is answered, a boot goes on to the bind. *)
SwapEngine ==
  /\ svc = "swap"
  /\ engine' = job /\ job' = Empty
  /\ astray' = Mark("engine", "job" \in astray) \ {"job"}
  /\ svc' = IF caller = "boot" THEN "binding" ELSE "idle"
  /\ caller' = "nobody"
  /\ upd' = IF caller = "update" THEN "asleep" ELSE upd
  /\ call' = [r \in Req |-> IF r = caller THEN "served" ELSE call[r]]
  /\ UNCHANGED <<filevars, cache, pc, crashes, by, clean, stored>>

(* Mutant of Update: the scheduler returns on the first failed update. *)
UpdateOnce(f) ==
  /\ svc = "idle"
  /\ upd = "fetching"
  /\ \/ /\ upd' = "ended"
        /\ UNCHANGED <<filevars, svc, by, clean, stored>>
     \/ /\ f \in Corpora
        /\ svc' = "storing"
        /\ Begin(Svc, f)
        /\ UNCHANGED upd
  /\ UNCHANGED <<cache, engine, job, caller, reqvars, crashes, astray>>

(* run_update after its await: a failed fetch, parse or File::create ends this
   update; otherwise csl.json is replaced ... *)
Update(f) ==
  /\ svc = "idle"
  /\ upd = "fetching"
  /\ \/ /\ upd' = "asleep"
        /\ UNCHANGED <<filevars, svc, by, clean, stored>>
     \/ /\ f \in Corpora
        /\ svc' = "storing"
        /\ Begin(Svc, f)
        /\ UNCHANGED upd
  /\ UNCHANGED <<cache, engine, job, caller, reqvars, crashes, astray>>

(* Mutant of UpdateStore: a list that could not be stored is served anyway. *)
UpdateUnstored ==
  /\ svc = "storing"
  /\ \/ GoesOn(Svc) /\ UNCHANGED <<svc, job, caller>>
     \/ /\ Succeeds(Svc) \/ Fails(Svc)
        /\ svc' = "persist" /\ job' = doc[Svc] /\ caller' = "update"
  /\ UNCHANGED <<cache, engine, upd, reqvars, crashes, astray>>

(* ... and, with no await in between, the engine rebuilt from the same entries;
   an error leaves the engine and waits for tomorrow. *)
UpdateStore ==
  /\ svc = "storing"
  /\ \/ GoesOn(Svc) /\ UNCHANGED <<svc, job, caller, upd>>
     \/ /\ Succeeds(Svc)
        /\ svc' = "persist" /\ job' = doc[Svc] /\ caller' = "update"
        /\ UNCHANGED upd
     \/ /\ Fails(Svc)
        /\ svc' = "idle" /\ upd' = "asleep"
        /\ UNCHANGED <<job, caller>>
  /\ UNCHANGED <<cache, engine, reqvars, crashes, astray>>

(* scheduler: the sleep until the next run is over. *)
Tick ==
  /\ upd = "asleep" /\ Listening
  /\ upd' = "fetching"
  /\ UNCHANGED <<filevars, cache, svc, engine, job, caller, reqvars, crashes, by,
                 astray, clean, stored>>

(* csl-service dies, or cannot bind: its memory is gone, its connections are reset. *)
Crash ==
  /\ svc # "down" /\ crashes < MaxCrashes
  /\ crashes' = crashes + 1
  /\ svc' = "down" /\ engine' = Empty /\ job' = Empty /\ caller' = "nobody"
  /\ upd' = "asleep" /\ astray' = astray \cap {"index"}
  /\ call' = [r \in Req |-> IF call[r] = "queued" THEN "reset" ELSE call[r]]
  /\ IF File!Busy(Svc) THEN File!Die(Svc) ELSE UNCHANGED filevars
  /\ UNCHANGED <<cache, pc, by, clean, stored>>
-----------------------------------------------------------------------------
Request(r) == (\E f \in Feed \cup {"none"} : Ingest(r, f)) \/ Store(r) \/ Call(r) \/ Reply(r)

Service ==
  \/ Stage \/ Seed \/ Load \/ Bind \/ Persist \/ SwapEngine \/ UpdateStore
  \/ \E r \in Req : Refresh(r)

Updater == \E f \in Feed : Update(f)

Next ==
  \/ \E r \in Req : Request(r) \/ Abort(r)
  \/ Boot \/ Service \/ Updater \/ Tick \/ Crash

Spec == Init /\ [][Next]_vars

(* Requests run to their end; the executor polls both halves of main's zip, so
   a handler's work and a queued operation get their turn; time passes; the
   host restarts a dead service.  Nothing is assumed of feeds and crashes. *)
Fairness ==
  /\ \A r \in Req : WF_vars(Store(r) \/ Call(r) \/ Reply(r)) /\ SF_vars(Refresh(r))
  /\ WF_vars(Boot) /\ WF_vars(Service) /\ SF_vars(Updater) /\ WF_vars(Tick)

FairSpec == Spec /\ Fairness
-----------------------------------------------------------------------------
(* Type invariant. *)
TypeOK ==
  /\ File!RTypeOK
  /\ cache \in Corpora \cup {"absent", "torn"}
  /\ svc \in {"down", "staging", "seeding", "loading", "binding", "idle",
              "storing", "persist", "swap"}
  /\ engine \in Corpora /\ job \in Corpora
  /\ caller \in Req \cup {"nobody", "boot", "update"}
  /\ upd \in {"asleep", "fetching"}
  /\ pc \in [Req -> {"new", "storing", "call", "wait"} \cup Answer]
  /\ call \in [Req -> {"none", "queued", "served", "failed", "reset"}]
  /\ crashes \in 0 .. MaxCrashes
  /\ by \in writer \cup {"nobody"}
  /\ astray \subseteq {"job", "engine", "index"} /\ clean \in BOOLEAN
  /\ stored \subseteq Corpora

(* A refresh that answers 200 without index_error (routes.rs:371-386) promises
   that searches now run on the csl.json it stored.  The promise stands, through
   restarts, late operations of dropped requests and updates that fail, until
   somebody else touches csl.json.  Only a disk error breaks it, and only until an
   engine is built from a good reading: an index write that failed and kept an older
   index, a reading that took csl.json for missing or, at boot, found it unreadable. *)
IndexedServed ==
  \A r \in Req :
    pc[r] = "200" /\ by = r /\ Serving /\ "engine" \notin astray => engine = live

(* Searches never run on a list that csl.json has not held (main.rs: "Holds the
   parsed CSL corpus"; run_update replaces the file before it swaps the engine
   and drops the list when the file cannot be replaced). *)
OnlyStoredServed ==
  clean /\ Listening => engine \in stored \cup {Empty}

(* While csl.json is as the service itself left it, by the seed or by an update, the
   service searches that list (main.rs:58-60 "so the app is usable immediately,
   even offline"), however it died and failed on the way and whatever gateways did
   before; or else what it found in the index file when it came up, which may be
   older, or of an empty list.  Disk errors are excepted as above, and so are
   replacements that overlap: a rename may then publish the rival's list. *)
OwnListServed ==
  clean /\ by = Svc /\ Serving /\ "engine" \notin astray => engine \in {live, cache}

(* Every refresh is answered, whatever csl-service does meanwhile: a reply, a
   refused connection or a reset one (csl_client.rs:27-87). *)
RefreshAnswered ==
  \A r \in Req : (pc[r] # "new") ~> (pc[r] \in Answer)

(* An update that is tried again and again is in the end fetched, written and
   renamed. *)
Recovery ==
  /\ SF_vars(\E f \in Corpora : Update(f) /\ Begin(Svc, f))
  /\ SF_vars(UpdateStore /\ GoesOn(Svc))
  /\ SF_vars(UpdateStore /\ Succeeds(Svc))

(* Whatever failures left the engine and csl.json apart, the daily update brings
   them together again, once fetches and writes succeed again. *)
UpdateHeals ==
  Recovery => []<>(Serving /\ engine = live)
-----------------------------------------------------------------------------
(* What keeps IndexedServed, step by step (proved inductive in CorpusProofs). *)

Building == svc \in {"persist", "swap"}
Loaded == svc \in {"binding", "idle", "storing"}

(* A refresh touches csl.json only while it is storing, and has an operation on
   the wire only after that; an engine is built for somebody. *)
Phases ==
  /\ \A w \in writer : doc[w] = "nothing" <=> ~File!Busy(w)
  /\ \A r \in Req : File!Busy(r) => pc[r] = "storing"
  /\ \A r \in Req : call[r] # "none" => pc[r] \in {"wait", "aborted"}
  /\ \A r \in Req : caller = r /\ Building => call[r] = "queued"
  /\ ~Building => caller = "nobody" /\ "job" \notin astray
  /\ by # "nobody" => live # "absent"
  /\ \A w \in writer : fd[w] = "live" => live # "absent"

(* The service has rebuilt its engine for r, and nobody has touched csl.json
   since r did. *)
Settled(r) == by = r /\ (pc[r] = "200" \/ call[r] = "served")

InStep ==
  /\ \A r \in Req : by = r /\ caller = r /\ Building /\ "job" \notin astray => job = live
  /\ svc = "swap" /\ "index" \notin astray =>
       /\ cache \in {job, "absent", "torn"}
       /\ "job" \in astray => cache \in {"absent", "torn"}
  /\ \A r \in Req : Settled(r) =>
       /\ Building /\ "job" \notin astray => job = live
       /\ "index" \notin astray => cache \in {live, "absent", "torn"}
       /\ Loaded /\ "engine" \notin astray => engine = live

IInv == TypeOK /\ Phases /\ InStep
=============================================================================
