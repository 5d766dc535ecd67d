---------------------------- MODULE CorpusProofs ----------------------------
(***************************************************************************)
(* Proofs about the corpus, for any set of refreshes and lists, any feed   *)
(* and any number of crashes.                                              *)
(***************************************************************************)
EXTENDS Corpus, TLAPS

FileTyped ==
  /\ File!RTypeOK
  /\ \A w \in writer : doc[w] = "nothing" <=> ~File!Busy(w)

(* The steps of write_atomic keep the file variables typed. *)
LEMMA CreateTyped ==
  ASSUME FileTyped, NEW w \in writer, NEW d \in Corpora, File!Create(w, d)
  PROVE  FileTyped'
BY CorpusAssumption DEF FileTyped, File!RTypeOK, File!Content, File!Partial,
   File!Busy, File!Create

LEMMA WriteTyped ==
  ASSUME FileTyped, NEW w \in writer, File!Write(w)
  PROVE  FileTyped'
<1> USE DEF FileTyped, File!RTypeOK, File!Content, File!Partial, File!Busy
<1>1. doc[w] \in Corpora
  BY DEF File!Write
<1>2. /\ File!Landed(w, tmp) \subseteq Corpora \cup {"torn"}
      /\ File!Landed(w, live) \subseteq Corpora \cup {"torn"}
  BY <1>1 DEF File!Landed
<1> QED
  BY <1>2 DEF File!Write, File!Put

LEMMA WriteFailsTyped ==
  ASSUME FileTyped, NEW w \in writer, File!WriteFails(w)
  PROVE  FileTyped'
BY DEF FileTyped, File!RTypeOK, File!Content, File!Partial, File!Busy,
   File!WriteFails, File!Put, File!Return

LEMMA RenameTyped ==
  ASSUME FileTyped, NEW w \in writer, File!Rename(w)
  PROVE  FileTyped'
BY DEF FileTyped, File!RTypeOK, File!Content, File!Partial, File!Busy,
   File!Rename, File!Return, File!Moved

LEMMA RenameFailsTyped ==
  ASSUME FileTyped, NEW w \in writer, File!RenameFails(w)
  PROVE  FileTyped'
BY DEF FileTyped, File!RTypeOK, File!Content, File!Partial, File!Busy,
   File!RenameFails, File!Return

LEMMA DieTyped ==
  ASSUME FileTyped, NEW w \in writer, File!Die(w)
  PROVE  FileTyped'
BY DEF FileTyped, File!RTypeOK, File!Content, File!Partial, File!Busy,
   File!Die, File!Return
-----------------------------------------------------------------------------
(* What a caller of write_atomic may rely on: the file variables and the history
   keep their types, and only w's mark goes with a change of csl.json. *)
StoreInv ==
  /\ FileTyped
  /\ by \in writer \cup {"nobody"} /\ clean \in BOOLEAN /\ stored \subseteq Corpora
  /\ by # "nobody" => live # "absent"
  /\ \A w \in writer : fd[w] = "live" => live # "absent"

Marked(w) == by' = w \/ (by' = by /\ live' = live)
OthersWait(w) == \A u \in writer \ {w} : File!Busy(u)' <=> File!Busy(u)

LEMMA RecordTyped ==
  ASSUME StoreInv, NEW w \in writer, NEW t \in BOOLEAN, Record(w, t)
  PROVE  /\ by' \in writer \cup {"nobody"} /\ clean' \in BOOLEAN
         /\ stored' \subseteq Corpora
BY DEF StoreInv, Record

LEMMA BeginStore ==
  ASSUME StoreInv, NEW w \in writer, NEW d \in Corpora, Begin(w, d)
  PROVE  StoreInv' /\ Marked(w) /\ OthersWait(w) /\ File!Busy(w)'
<1>1. FileTyped'
  BY CreateTyped DEF Begin, StoreInv
<1>2. by' = by /\ live' = live
  BY DEF Begin, Record, File!Create
<1>3. /\ by' \in writer \cup {"nobody"} /\ clean' \in BOOLEAN
      /\ stored' \subseteq Corpora
  BY RecordTyped DEF Begin
<1>4. \A u \in writer : fd'[u] = "live" => live' # "absent"
  BY DEF Begin, File!Create, StoreInv, FileTyped, File!RTypeOK
<1>5. OthersWait(w) /\ File!Busy(w)'
  BY DEF OthersWait, File!Busy, Begin, File!Create, StoreInv, FileTyped, File!RTypeOK
<1> QED
  BY <1>1, <1>2, <1>3, <1>4, <1>5 DEF StoreInv, Marked

LEMMA GoesOnStore ==
  ASSUME StoreInv, NEW w \in writer, GoesOn(w)
  PROVE  StoreInv' /\ Marked(w) /\ OthersWait(w) /\ File!Busy(w)
<1> USE DEF GoesOn
<1>1. FileTyped'
  BY WriteTyped DEF StoreInv
<1>2. doc[w] # "absent"
  BY CorpusAssumption DEF File!Write, File!Busy, StoreInv, FileTyped, File!RTypeOK
<1>3. live' = live \/ (fd[w] = "live" /\ live' # "absent")
  BY <1>2 DEF File!Write, File!Put, File!Landed
<1>4. /\ by' \in writer \cup {"nobody"} /\ clean' \in BOOLEAN
      /\ stored' \subseteq Corpora
  BY RecordTyped
<1>5. Marked(w)
  BY <1>3 DEF Marked, Record, File!Write, File!Put
<1>6. by' # "nobody" => live' # "absent"
  BY <1>3 DEF StoreInv, Record, File!Write, File!Put
<1>7. \A u \in writer : fd'[u] = "live" => live' # "absent"
  BY <1>3 DEF StoreInv, FileTyped, File!RTypeOK, File!Write, File!Put
<1>8. OthersWait(w) /\ File!Busy(w)
  BY DEF OthersWait, File!Busy, File!Write, StoreInv, FileTyped, File!RTypeOK
<1> QED
  BY <1>1, <1>4, <1>5, <1>6, <1>7, <1>8 DEF StoreInv

LEMMA SucceedsStore ==
  ASSUME StoreInv, NEW w \in writer, Succeeds(w)
  PROVE  /\ StoreInv' /\ Marked(w) /\ OthersWait(w) /\ File!Busy(w)
         /\ ~File!Busy(w)' /\ by' = w
<1> USE DEF Succeeds
<1>1. FileTyped'
  BY RenameTyped DEF StoreInv
<1>2. by' = w /\ live' # "absent"
  BY DEF Record, File!Rename
<1>3. /\ by' \in writer \cup {"nobody"} /\ clean' \in BOOLEAN
      /\ stored' \subseteq Corpora
  BY RecordTyped
<1>4. OthersWait(w) /\ File!Busy(w) /\ ~File!Busy(w)'
  BY DEF OthersWait, File!Busy, File!Rename, File!Return, StoreInv, FileTyped,
         File!RTypeOK
<1> QED
  BY <1>1, <1>2, <1>3, <1>4 DEF StoreInv, Marked

LEMMA FailsStore ==
  ASSUME StoreInv, NEW w \in writer, Fails(w)
  PROVE  StoreInv' /\ Marked(w) /\ OthersWait(w) /\ File!Busy(w) /\ ~File!Busy(w)'
<1>1. CASE File!WriteFails(w) /\ Record(w, fd[w] = "live")
  <2> USE <1>1
  <2>1. FileTyped'
    BY WriteFailsTyped DEF StoreInv
  <2>2. live' = live \/ (fd[w] = "live" /\ live' = "torn")
    BY DEF File!WriteFails, File!Put
  <2>3. /\ by' \in writer \cup {"nobody"} /\ clean' \in BOOLEAN
        /\ stored' \subseteq Corpora
    BY RecordTyped
  <2>4. Marked(w)
    BY <2>2 DEF Marked, Record
  <2>5. by' # "nobody" => live' # "absent"
    BY <2>2 DEF StoreInv, Record
  <2>6. \A u \in writer : fd'[u] = "live" => live' # "absent"
    BY <2>2 DEF StoreInv, FileTyped, File!RTypeOK, File!WriteFails, File!Put
  <2>7. OthersWait(w) /\ File!Busy(w) /\ ~File!Busy(w)'
    BY DEF OthersWait, File!Busy, File!WriteFails, File!Return, StoreInv,
           FileTyped, File!RTypeOK
  <2> QED
    BY <2>1, <2>3, <2>4, <2>5, <2>6, <2>7 DEF StoreInv
<1>2. CASE File!RenameFails(w) /\ Record(w, FALSE)
  <2> USE <1>2
  <2>1. FileTyped'
    BY RenameFailsTyped DEF StoreInv
  <2>2. UNCHANGED <<live, fd, by>>
    BY DEF File!RenameFails, Record
  <2>3. /\ by' \in writer \cup {"nobody"} /\ clean' \in BOOLEAN
        /\ stored' \subseteq Corpora
    BY RecordTyped
  <2>4. OthersWait(w) /\ File!Busy(w) /\ ~File!Busy(w)'
    BY DEF OthersWait, File!Busy, File!RenameFails, File!Return, StoreInv,
           FileTyped, File!RTypeOK
  <2> QED
    BY <2>1, <2>2, <2>3, <2>4 DEF StoreInv, Marked
<1> QED
  BY <1>1, <1>2 DEF Fails

LEMMA DieStore ==
  ASSUME StoreInv, NEW w \in writer, UNCHANGED <<by, clean, stored>>,
         IF File!Busy(w) THEN File!Die(w) ELSE UNCHANGED filevars
  PROVE  StoreInv' /\ OthersWait(w) /\ ~File!Busy(w)' /\ live' = live
<1>1. CASE File!Busy(w)
  <2>1. FileTyped'
    BY <1>1, DieTyped DEF StoreInv
  <2> QED
    BY <1>1, <2>1 DEF StoreInv, FileTyped, File!RTypeOK, OthersWait, File!Busy,
       File!Die, File!Return
<1>2. CASE ~File!Busy(w)
  <2>1. UNCHANGED filevars
    BY <1>2
  <2> QED
    BY <1>2, <2>1 DEF filevars, StoreInv, FileTyped, File!RTypeOK, OthersWait,
       File!Busy
<1> QED
  BY <1>1, <1>2
-----------------------------------------------------------------------------
(* IInv, cut along the line between csl.json and the rest. *)
RestTyped ==
  /\ cache \in Corpora \cup {"absent", "torn"}
  /\ svc \in {"down", "staging", "seeding", "loading", "binding", "idle",
              "storing", "persist", "swap"}
  /\ engine \in Corpora /\ job \in Corpora
  /\ caller \in Req \cup {"nobody", "boot", "update"}
  /\ upd \in {"asleep", "fetching"}
  /\ pc \in [Req -> {"new", "storing", "call", "wait"} \cup Answer]
  /\ call \in [Req -> {"none", "queued", "served", "failed", "reset"}]
  /\ crashes \in 0 .. MaxCrashes
  /\ astray \subseteq {"job", "engine", "index"}

ReqPhases ==
  /\ \A r \in Req : File!Busy(r) => pc[r] = "storing"
  /\ \A r \in Req : call[r] # "none" => pc[r] \in {"wait", "aborted"}
  /\ \A r \in Req : caller = r /\ Building => call[r] = "queued"
  /\ ~Building => caller = "nobody" /\ "job" \notin astray

LEMMA Parts == IInv <=> StoreInv /\ RestTyped /\ ReqPhases /\ InStep
BY DEF IInv, TypeOK, Phases, StoreInv, FileTyped, RestTyped, ReqPhases, Building

LEMMA PartsNext == (IInv <=> StoreInv /\ RestTyped /\ ReqPhases /\ InStep)'
BY Parts, PTL

LEMMA InvInit == Init => IInv
<1> SUFFICES ASSUME Init PROVE IInv
  OBVIOUS
<1> USE CorpusAssumption DEF Init
<1>1. StoreInv
  BY DEF StoreInv, FileTyped, File!RInit, File!RTypeOK, File!Content, File!Busy
<1>2. RestTyped
  <2>1. crashes \in 0 .. MaxCrashes
    OBVIOUS
  <2>2. astray \subseteq {"job", "engine", "index"}
    OBVIOUS
  <2>3. pc \in [Req -> {"new", "storing", "call", "wait"} \cup Answer]
    OBVIOUS
  <2>4. call \in [Req -> {"none", "queued", "served", "failed", "reset"}]
    OBVIOUS
  <2> QED
    BY <2>1, <2>2, <2>3, <2>4 DEF RestTyped
<1>3. ReqPhases
  BY DEF ReqPhases, File!Busy, File!RInit, Building, writer
<1>4. InStep
  BY DEF InStep, Settled, Building
<1> QED
  BY <1>1, <1>2, <1>3, <1>4, Parts

(* A step of a request's own write_atomic. *)
LEMMA RequestStores ==
  ASSUME IInv, NEW r \in Req, pc[r] \in {"new", "storing"},
         NEW p \in {"storing", "call", "500"},
         StoreInv', Marked(r), OthersWait(r), File!Busy(r)' => p = "storing",
         pc' = [pc EXCEPT ![r] = p],
         UNCHANGED <<cache, svcvars, call, crashes, astray>>
  PROVE  IInv'
<1> USE Parts
<1>0. /\ svc' = svc /\ engine' = engine /\ job' = job /\ caller' = caller
      /\ upd' = upd /\ cache' = cache /\ crashes' = crashes /\ astray' = astray
  BY DEF svcvars
<1>1. RestTyped'
  BY <1>0 DEF RestTyped, Answer
<1>2. call[r] = "none" /\ ~(caller = r /\ Building)
  BY DEF ReqPhases, RestTyped
<1>3. ReqPhases'
  BY <1>0, <1>2 DEF ReqPhases, RestTyped, OthersWait, writer, Building
<1>4. InStep'
  <2>1. \A q \in Req : Settled(q)' => q # r
    BY <1>2 DEF Settled, RestTyped
  <2>2. \A q \in Req : q # r /\ by' = q => by = q /\ live' = live
    BY DEF Marked
  <2>3. \A q \in Req : q # r /\ Settled(q)' => Settled(q)
    BY <2>2 DEF Settled, RestTyped
  <2>4. \A q \in Req : Settled(q)' => Settled(q) /\ live' = live
    BY <2>1, <2>2, <2>3 DEF Settled
  <2>5. \A q \in Req :
          by' = q /\ caller' = q /\ Building' /\ "job" \notin astray' => job' = live'
    BY <1>0, <1>2, <2>2 DEF InStep, Building
  <2> QED
    BY <1>0, <2>4, <2>5 DEF InStep, Building, Loaded
<1> QED
  BY <1>1, <1>3, <1>4, PartsNext

(* A step of a request that leaves csl.json alone. *)
LEMMA RequestMoves ==
  ASSUME IInv, NEW r \in Req, NEW p \in {"wait"} \cup Answer, NEW c,
         c \in {"none", "queued", "served", "failed", "reset"},
         pc' = [pc EXCEPT ![r] = p], call' = [call EXCEPT ![r] = c],
         StoreInv', OthersWait(r), ~File!Busy(r)', UNCHANGED <<live, by>>,
         c # "none" => p \in {"wait", "aborted"},
         caller = r /\ Building => c = "queued",
         c = "served" \/ p = "200" => call[r] = "served",
         UNCHANGED <<cache, svcvars, crashes, astray>>
  PROVE  IInv'
<1> USE Parts
<1>0. /\ svc' = svc /\ engine' = engine /\ job' = job /\ caller' = caller
      /\ upd' = upd /\ cache' = cache /\ crashes' = crashes /\ astray' = astray
  BY DEF svcvars
<1>1. RestTyped'
  BY <1>0 DEF RestTyped, Answer
<1>2. ReqPhases'
  BY <1>0 DEF ReqPhases, RestTyped, OthersWait, writer, Building
<1>3. InStep'
  <2>1. \A q \in Req : Settled(q)' => Settled(q)
    BY DEF Settled, RestTyped
  <2> QED
    BY <1>0, <2>1 DEF InStep, Building, Loaded
<1> QED
  BY <1>1, <1>2, <1>3, PartsNext
-----------------------------------------------------------------------------
LEMMA StoreSame ==
  ASSUME StoreInv, UNCHANGED <<filevars, by, clean, stored>>
  PROVE  /\ StoreInv' /\ live' = live /\ by' = by
         /\ \A w \in writer : File!Busy(w)' <=> File!Busy(w)
BY DEF StoreInv, FileTyped, File!RTypeOK, File!Content, File!Partial, File!Busy,
   filevars

(* A step of the service's own write_atomic, or one that goes on without it. *)
LEMMA ServiceStores ==
  ASSUME IInv, ~Building, StoreInv', Marked(Svc), OthersWait(Svc),
         svc' \in {"seeding", "loading", "idle", "storing"},
         upd' \in {"asleep", "fetching"}, Loaded' => Loaded,
         UNCHANGED <<cache, engine, job, caller, reqvars, crashes, astray>>
  PROVE  IInv'
<1> USE Parts, CorpusAssumption
<1>0. /\ engine' = engine /\ job' = job /\ caller' = caller /\ cache' = cache
      /\ crashes' = crashes /\ astray' = astray /\ pc' = pc /\ call' = call
  BY DEF reqvars
<1>1. RestTyped'
  BY <1>0 DEF RestTyped, Answer
<1>2. ~Building'
  BY DEF Building
<1>3. ReqPhases'
  BY <1>0, <1>2 DEF ReqPhases, OthersWait, writer
<1>4. \A q \in Req : by' = q => by = q /\ live' = live
  BY DEF Marked
<1>5. \A q \in Req : Settled(q)' => Settled(q) /\ live' = live
  BY <1>0, <1>4 DEF Settled
<1>6. InStep'
  BY <1>0, <1>2, <1>5 DEF InStep, Building
<1> QED
  BY <1>1, <1>3, <1>6, PartsNext

LEMMA ServiceStored ==
  ASSUME IInv, UpdateStore, Succeeds(Svc), svc' = "persist", job' = doc[Svc],
         caller' = "update", UNCHANGED upd
  PROVE  IInv'
<1> USE Parts, CorpusAssumption
<1>0. /\ engine' = engine /\ cache' = cache /\ upd' = upd
      /\ crashes' = crashes /\ astray' = astray /\ pc' = pc /\ call' = call
  BY DEF UpdateStore, reqvars
<1>1. StoreInv' /\ OthersWait(Svc) /\ by' = Svc
  BY SucceedsStore DEF writer
<1>2. doc[Svc] \in Corpora
  BY DEF Succeeds, File!Rename, File!Busy, StoreInv, FileTyped, File!RTypeOK, writer
<1>3. RestTyped'
  BY <1>0, <1>2 DEF RestTyped, Answer
<1>4. ReqPhases'
  BY <1>0, <1>1 DEF ReqPhases, OthersWait, writer, Building
<1>5. InStep'
  BY <1>0, <1>1 DEF InStep, Settled
<1> QED
  BY <1>1, <1>3, <1>4, <1>5, PartsNext

LEMMA CallStep == ASSUME IInv, NEW r \in Req, Call(r) PROVE IInv'
<1> USE Parts
<1>1. StoreInv' /\ live' = live /\ by' = by /\ OthersWait(r)
  BY StoreSame DEF Call, OthersWait
<1>2. call[r] = "none" /\ ~File!Busy(r) /\ ~File!Busy(r)'
  BY StoreSame DEF Call, ReqPhases, RestTyped, writer
<1>3. ~(caller = r /\ Building)
  BY <1>2 DEF ReqPhases
<1>4. CASE Listening
  BY <1>1, <1>2, <1>3, <1>4, RequestMoves DEF Call
<1>5. CASE ~Listening
  <2>1. call' = [call EXCEPT ![r] = "none"]
    BY <1>2, <1>5 DEF Call, RestTyped
  <2> QED
    BY <1>1, <1>2, <1>3, <1>5, <2>1, RequestMoves DEF Call, Answer
<1> QED
  BY <1>4, <1>5

LEMMA ReplyStep == ASSUME IInv, NEW r \in Req, Reply(r) PROVE IInv'
<1> USE Parts
<1>1. StoreInv' /\ live' = live /\ by' = by /\ OthersWait(r)
  BY StoreSame DEF Reply, OthersWait
<1>2. ~File!Busy(r)'
  BY StoreSame DEF Reply, ReqPhases, writer
<1>3. ~(caller = r /\ Building)
  BY DEF Reply, ReqPhases
<1> QED
  BY <1>1, <1>2, <1>3, RequestMoves DEF Reply, Answer

LEMMA AbortStep == ASSUME IInv, NEW r \in Req, Abort(r) PROVE IInv'
<1> USE Parts
<1>1. /\ IF File!Busy(r) THEN File!Die(r) ELSE UNCHANGED filevars
      /\ UNCHANGED <<by, clean, stored>>
  BY DEF Abort
<1>2. StoreInv' /\ live' = live /\ OthersWait(r) /\ ~File!Busy(r)'
  BY <1>1, DieStore DEF writer
<1>3. call' = [call EXCEPT ![r] = call[r]] /\ pc' = [pc EXCEPT ![r] = "aborted"]
  BY DEF Abort, RestTyped
<1>4. caller = r /\ Building => call[r] = "queued"
  BY DEF ReqPhases
<1>5. call[r] \in {"none", "queued", "served", "failed", "reset"}
  BY DEF RestTyped
<1>6. UNCHANGED <<cache, svcvars, crashes, astray>> /\ by' = by
  BY DEF Abort
<1> QED
  BY <1>2, <1>3, <1>4, <1>5, <1>6, RequestMoves DEF Answer
-----------------------------------------------------------------------------
LEMMA IngestStep ==
  ASSUME IInv, NEW r \in Req, NEW f \in Feed \cup {"none"}, Ingest(r, f)
  PROVE  IInv'
<1> USE Parts
<1>1. ASSUME NEW bytes \in Bytes(f),
             pc' = [pc EXCEPT ![r] = Refused(bytes)],
             UNCHANGED <<filevars, by, clean, stored>>
      PROVE  IInv'
  <2>1. StoreInv' /\ live' = live /\ by' = by /\ OthersWait(r)
    BY <1>1, StoreSame DEF OthersWait
  <2>2. call[r] = "none" /\ ~File!Busy(r)'
    BY <1>1, StoreSame DEF Ingest, ReqPhases, RestTyped, writer
  <2>3. call' = [call EXCEPT ![r] = "none"]
    BY <2>2 DEF Ingest, RestTyped
  <2>4. ~(caller = r /\ Building)
    BY <2>2 DEF ReqPhases
  <2>5. Refused(bytes) \in Answer \ {"200"}
    BY DEF Refused, Answer
  <2>6. UNCHANGED <<cache, svcvars, crashes, astray>>
    BY DEF Ingest
  <2> QED
    BY <1>1, <2>1, <2>2, <2>3, <2>4, <2>5, <2>6, RequestMoves
<1>2. ASSUME NEW bytes \in Bytes(f), bytes \in Corpora,
             pc' = [pc EXCEPT ![r] = "storing"],
             Begin(r, bytes)
      PROVE  IInv'
  <2>1. StoreInv' /\ Marked(r) /\ OthersWait(r)
    BY <1>2, BeginStore DEF writer
  <2> QED
    BY <1>2, <2>1, RequestStores DEF Ingest
<1> QED
  BY <1>1, <1>2 DEF Ingest

LEMMA StoreStep == ASSUME IInv, NEW r \in Req, Store(r) PROVE IInv'
<1> USE Parts
<1>1. CASE GoesOn(r) /\ UNCHANGED pc
  <2>1. StoreInv' /\ Marked(r) /\ OthersWait(r)
    BY <1>1, GoesOnStore DEF writer
  <2>2. pc' = [pc EXCEPT ![r] = "storing"]
    BY <1>1 DEF Store, RestTyped
  <2> QED
    BY <2>1, <2>2, RequestStores DEF Store
<1>2. CASE Succeeds(r) /\ pc' = [pc EXCEPT ![r] = "call"]
  <2>1. StoreInv' /\ Marked(r) /\ OthersWait(r) /\ ~File!Busy(r)'
    BY <1>2, SucceedsStore DEF writer
  <2> QED
    BY <1>2, <2>1, RequestStores DEF Store
<1>3. CASE Fails(r) /\ pc' = [pc EXCEPT ![r] = "500"]
  <2>1. StoreInv' /\ Marked(r) /\ OthersWait(r) /\ ~File!Busy(r)'
    BY <1>3, FailsStore DEF writer
  <2> QED
    BY <1>3, <2>1, RequestStores DEF Store
<1> QED
  BY <1>1, <1>2, <1>3 DEF Store

(* What leaves csl.json and its history alone. *)
LEMMA SameStore ==
  ASSUME IInv, UNCHANGED <<filevars, by, clean, stored>>
  PROVE  /\ StoreInv' /\ Marked(Svc) /\ OthersWait(Svc)
         /\ live' = live /\ by' = by
         /\ \A w \in writer : File!Busy(w)' <=> File!Busy(w)
BY Parts, StoreSame DEF Marked, OthersWait

LEMMA StageStep == ASSUME IInv, Stage PROVE IInv'
<1>1. StoreInv' /\ Marked(Svc) /\ OthersWait(Svc)
  <2>1. CASE Begin(Svc, Fixture)
    BY <2>1, Parts, BeginStore, CorpusAssumption DEF writer
  <2>2. CASE UNCHANGED <<filevars, by, clean, stored>>
    BY <2>2, SameStore
  <2> QED
    BY <2>1, <2>2 DEF Stage
<1>2. /\ svc' \in {"seeding", "loading"} /\ upd' = upd
      /\ UNCHANGED <<cache, engine, job, caller, reqvars, crashes, astray>>
  BY DEF Stage
<1>3. upd' \in {"asleep", "fetching"} /\ ~Loaded' /\ ~Building
  BY <1>2, Parts DEF Stage, RestTyped, Loaded, Building
<1> QED
  BY <1>1, <1>2, <1>3, ServiceStores

LEMMA SeedStep == ASSUME IInv, Seed PROVE IInv'
<1>1. StoreInv' /\ Marked(Svc) /\ OthersWait(Svc)
  BY Parts, GoesOnStore, SucceedsStore, FailsStore DEF Seed, writer
<1>2. /\ svc' \in {"seeding", "loading"} /\ upd' = upd
      /\ UNCHANGED <<cache, engine, job, caller, reqvars, crashes, astray>>
  BY DEF Seed
<1>3. upd' \in {"asleep", "fetching"} /\ ~Loaded' /\ ~Building
  BY <1>2, Parts DEF Seed, RestTyped, Loaded, Building
<1> QED
  BY <1>1, <1>2, <1>3, ServiceStores

LEMMA UpdateStep == ASSUME IInv, NEW f \in Feed, Update(f) PROVE IInv'
<1>1. StoreInv' /\ Marked(Svc) /\ OthersWait(Svc)
  <2>1. CASE f \in Corpora /\ Begin(Svc, f)
    BY <2>1, Parts, BeginStore DEF writer
  <2>2. CASE UNCHANGED <<filevars, by, clean, stored>>
    BY <2>2, SameStore
  <2> QED
    BY <2>1, <2>2 DEF Update
<1>2. /\ svc' \in {"idle", "storing"} /\ svc = "idle"
      /\ upd' \in {"asleep", "fetching"}
      /\ UNCHANGED <<cache, engine, job, caller, reqvars, crashes, astray>>
  BY Parts DEF Update, RestTyped
<1>3. (Loaded' => Loaded) /\ ~Building
  BY <1>2 DEF Loaded, Building
<1> QED
  BY <1>1, <1>2, <1>3, ServiceStores

LEMMA UpdateStoreStep == ASSUME IInv, UpdateStore PROVE IInv'
<1>1. CASE /\ Succeeds(Svc)
           /\ svc' = "persist" /\ job' = doc[Svc] /\ caller' = "update"
           /\ UNCHANGED upd
  BY <1>1, ServiceStored
<1>2. CASE \/ GoesOn(Svc) /\ UNCHANGED <<svc, job, caller, upd>>
           \/ /\ Fails(Svc)
              /\ svc' = "idle" /\ upd' = "asleep"
              /\ UNCHANGED <<job, caller>>
  <2>1. StoreInv' /\ Marked(Svc) /\ OthersWait(Svc)
    BY <1>2, Parts, GoesOnStore, FailsStore DEF writer
  <2>2. /\ svc' \in {"idle", "storing"} /\ svc = "storing"
        /\ upd' \in {"asleep", "fetching"}
        /\ UNCHANGED <<cache, engine, job, caller, reqvars, crashes, astray>>
    BY <1>2, Parts DEF UpdateStore, RestTyped
  <2>3. (Loaded' => Loaded) /\ ~Building
    BY <2>2 DEF Loaded, Building
  <2> QED
    BY <2>1, <2>2, <2>3, ServiceStores
<1> QED
  BY <1>1, <1>2 DEF UpdateStore
-----------------------------------------------------------------------------
LEMMA BootStep == ASSUME IInv, Boot PROVE IInv'
<1>1. StoreInv' /\ Marked(Svc) /\ OthersWait(Svc)
  BY SameStore DEF Boot
<1> USE Parts DEF Boot, reqvars
<1>2. RestTyped'
  BY DEF RestTyped, Answer
<1>3. ReqPhases'
  BY <1>1, SameStore DEF ReqPhases, Building, writer
<1>4. InStep'
  BY SameStore DEF InStep, Building, Settled, Loaded
<1> QED
  BY <1>1, <1>2, <1>3, <1>4, PartsNext

LEMMA TickStep == ASSUME IInv, Tick PROVE IInv'
<1>1. StoreInv' /\ Marked(Svc) /\ OthersWait(Svc)
  BY SameStore DEF Tick
<1> USE Parts DEF Tick, reqvars
<1>2. RestTyped'
  BY DEF RestTyped, Answer
<1>3. ReqPhases'
  BY <1>1, SameStore DEF ReqPhases, Building, writer
<1>4. InStep'
  BY SameStore DEF InStep, Building, Settled, Loaded
<1> QED
  BY <1>1, <1>2, <1>3, <1>4, PartsNext

(* What a reading of csl.json returns, and when it shows what the file holds. *)
LEMMA ReadingsAre ==
  ASSUME StoreInv, NEW list \in Readings
  PROVE  /\ list \in Corpora \cup {"error"}
         /\ list \in {Empty, live, "error"}
         /\ by # "nobody" /\ list = ListAll => list = live
BY CorpusAssumption DEF Readings, ListAll, StoreInv

LEMMA LoadStep == ASSUME IInv, Load PROVE IInv'
<1> USE Parts, CorpusAssumption
<1>1. StoreInv' /\ live' = live /\ by' = by
  BY SameStore DEF Load
<1>0. /\ cache' = cache /\ crashes' = crashes /\ upd' = upd /\ pc' = pc
      /\ call' = call /\ svc = "loading" /\ Empty \in Corpora
      /\ "job" \notin astray /\ astray \subseteq {"job", "engine", "index"}
  BY DEF Load, reqvars, ReqPhases, RestTyped, Building
<1>2. \A q \in Req : Settled(q)' <=> Settled(q)
  BY <1>0, <1>1 DEF Settled
<1>3. ASSUME NEW list \in Readings, list \notin {Empty, "error"},
             svc' = "persist" /\ job' = list /\ caller' = "boot",
             UNCHANGED <<engine, astray>>
      PROVE  IInv'
  <2>1. list \in Corpora /\ list = live
    BY <1>3, ReadingsAre
  <2>2. RestTyped'
    BY <1>0, <1>3, <2>1 DEF RestTyped, Answer
  <2>3. ReqPhases'
    BY <1>0, <1>3, SameStore DEF ReqPhases, Load, writer, Building
  <2>4. InStep'
    BY <1>0, <1>1, <1>2, <1>3, <2>1 DEF InStep, Loaded
  <2> QED
    BY <1>1, <2>2, <2>3, <2>4, PartsNext
<1>4. ASSUME svc' = "binding", UNCHANGED <<job, caller>>, engine' \in Corpora,
             astray' \in {astray \cup {"engine"}, astray \ {"engine"}},
             \A q \in Req : Settled(q) /\ "engine" \notin astray' => engine' = live
      PROVE  IInv'
  <2>1. /\ astray' \subseteq {"job", "engine", "index"} /\ "job" \notin astray'
        /\ "index" \in astray' <=> "index" \in astray
    BY <1>0, <1>4
  <2>2. RestTyped'
    BY <1>0, <1>4, <2>1 DEF RestTyped, Answer
  <2>3. ReqPhases'
    BY <1>0, <1>4, <2>1, SameStore DEF ReqPhases, Load, writer, Building
  <2>4. InStep'
    BY <1>0, <1>1, <1>2, <1>4, <2>1 DEF InStep, Building
  <2> QED
    BY <1>1, <2>2, <2>3, <2>4, PartsNext
<1>5. CASE LoadWarm
  <2>1. \A q \in Req : Settled(q) /\ "index" \notin astray => cache = live
    BY <1>5 DEF LoadWarm, InStep
  <2>2. /\ svc' = "binding" /\ engine' = cache /\ cache \in Corpora
        /\ UNCHANGED <<job, caller>>
        /\ astray' \in {astray \cup {"engine"}, astray \ {"engine"}}
        /\ "engine" \notin astray' => "index" \notin astray
    BY <1>5 DEF LoadWarm, Mark
  <2>3. \A q \in Req : Settled(q) /\ "engine" \notin astray' => engine' = live
    BY <2>1, <2>2
  <2> QED
    BY <1>4, <2>2, <2>3
<1>6. CASE LoadCold
  <2>1. PICK list \in Readings :
          IF list \in {Empty, "error"}
            THEN /\ svc' = "binding" /\ engine' = Empty
                 /\ astray' = Mark("engine", list # ListAll)
                 /\ UNCHANGED <<job, caller>>
            ELSE /\ svc' = "persist" /\ job' = list /\ caller' = "boot"
                 /\ UNCHANGED <<engine, astray>>
    BY <1>6 DEF LoadCold
  <2>2. CASE list \notin {Empty, "error"}
    BY <1>3, <2>1, <2>2
  <2>3. CASE list \in {Empty, "error"}
    <3>1. ASSUME NEW q \in Req, Settled(q), list = ListAll PROVE live = Empty
      <4>1. list = live /\ by # "nobody"
        BY <3>1, ReadingsAre DEF Settled
      <4>2. live # "error"
        BY DEF StoreInv, FileTyped, File!RTypeOK, File!Content, File!Partial
      <4> QED BY <2>3, <4>1, <4>2
    <3>2. /\ astray' \in {astray \cup {"engine"}, astray \ {"engine"}}
          /\ "engine" \notin astray' => list = ListAll
      BY <2>1, <2>3 DEF Mark
    <3> QED
      BY <1>0, <1>4, <2>1, <2>3, <3>1, <3>2
  <2> QED
    BY <2>2, <2>3
<1> QED
  BY <1>5, <1>6 DEF Load

LEMMA BindStep == ASSUME IInv, Bind PROVE IInv'
<1>1. StoreInv' /\ Marked(Svc) /\ OthersWait(Svc)
  BY SameStore DEF Bind
<1>2. /\ svc' = "idle" /\ upd' = "fetching" /\ svc = "binding"
      /\ UNCHANGED <<cache, engine, job, caller, reqvars, crashes, astray>>
  BY DEF Bind
<1> QED
  BY <1>1, <1>2, ServiceStores DEF Loaded, Building

LEMMA RefreshStep == ASSUME IInv, NEW r \in Req, Refresh(r) PROVE IInv'
<1> USE Parts, CorpusAssumption
<1>1. StoreInv' /\ live' = live /\ by' = by
  BY SameStore DEF Refresh
<1>0. /\ cache' = cache /\ crashes' = crashes /\ pc' = pc
      /\ engine' = engine /\ upd' = upd /\ svc = "idle" /\ call[r] = "queued"
      /\ "job" \notin astray /\ astray \subseteq {"job", "engine", "index"}
  BY DEF Refresh, ReqPhases, RestTyped, Building
<1>2. ASSUME NEW list \in Readings, list # "error",
             svc' = "persist" /\ job' = list /\ caller' = r,
             astray' = Mark("job", list # ListAll), UNCHANGED call
      PROVE  IInv'
  <2>1. list \in Corpora
    BY <1>2, ReadingsAre
  <2>m. /\ astray' \subseteq {"job", "engine", "index"}
        /\ "index" \in astray' <=> "index" \in astray
        /\ "job" \notin astray' => list = ListAll
    BY <1>0, <1>2 DEF Mark
  <2>2. RestTyped'
    BY <1>0, <1>2, <2>1, <2>m DEF RestTyped, Answer
  <2>3. ReqPhases'
    BY <1>0, <1>2, SameStore DEF ReqPhases, Refresh, writer, Building
  <2>4. \A q \in Req : by = q /\ "job" \notin astray' => list = live
    BY <2>m, ReadingsAre
  <2>5. \A q \in Req : Settled(q)' <=> Settled(q)
    BY <1>0, <1>1, <1>2 DEF Settled
  <2>6. \A q \in Req : Settled(q) => by = q
    BY DEF Settled
  <2>8. InStep'
    BY <1>0, <1>1, <1>2, <2>m, <2>4, <2>5, <2>6 DEF InStep, Loaded
  <2> QED
    BY <1>1, <2>2, <2>3, <2>8, PartsNext
<1>3. CASE call' = [call EXCEPT ![r] = "failed"] /\ UNCHANGED <<svc, job, caller, astray>>
  <2>2. RestTyped'
    BY <1>0, <1>3 DEF RestTyped, Answer
  <2>3. ~Building /\ ~Building'
    BY <1>0, <1>3 DEF Building
  <2>4. ReqPhases'
    BY <1>0, <1>3, <2>3, SameStore DEF ReqPhases, Refresh, writer, RestTyped
  <2>5. \A q \in Req : Settled(q)' => Settled(q)
    BY <1>0, <1>1, <1>3 DEF Settled, RestTyped
  <2>6. Loaded' <=> Loaded
    BY <1>3 DEF Loaded
  <2>7. InStep'
    BY <1>0, <1>1, <1>3, <2>3, <2>5, <2>6 DEF InStep
  <2> QED
    BY <1>1, <2>2, <2>4, <2>7, PartsNext
<1> QED
  BY <1>2, <1>3 DEF Refresh
-----------------------------------------------------------------------------
LEMMA PersistStep == ASSUME IInv, Persist PROVE IInv'
<1> USE Parts
<1>1. StoreInv' /\ live' = live /\ by' = by
  BY SameStore DEF Persist
<1>0. /\ engine' = engine /\ job' = job /\ caller' = caller /\ upd' = upd
      /\ crashes' = crashes /\ pc' = pc /\ call' = call
      /\ svc = "persist" /\ svc' = "swap"
  BY DEF Persist, reqvars
<1>2. /\ \/ cache' = job /\ ("job" \in astray => "index" \in astray')
         \/ cache' = "torn"
         \/ cache' = cache /\ (cache \in Corpora => "index" \in astray')
      /\ astray' \subseteq {"job", "engine", "index"}
      /\ "job" \in astray' <=> "job" \in astray
  BY DEF Persist, Mark, RestTyped
<1>3. RestTyped'
  <2>1. cache' \in Corpora \cup {"absent", "torn"}
    BY <1>2 DEF RestTyped
  <2> QED
    BY <1>0, <1>2, <2>1 DEF RestTyped, Answer
<1>4. ReqPhases'
  BY <1>0, SameStore DEF Persist, ReqPhases, Building, writer
<1>5. Building /\ Building' /\ ~Loaded'
  BY <1>0 DEF Building, Loaded
<1>6. "index" \notin astray' =>
        /\ cache' \in {job, "absent", "torn"}
        /\ "job" \in astray => cache' \in {"absent", "torn"}
  BY <1>2 DEF RestTyped
<1>7. \A q \in Req : Settled(q)' <=> Settled(q)
  BY <1>0, <1>1 DEF Settled
<1>8. InStep'
  BY <1>0, <1>1, <1>2, <1>5, <1>6, <1>7 DEF InStep
<1> QED
  BY <1>1, <1>3, <1>4, <1>8, PartsNext

LEMMA SwapEngineStep == ASSUME IInv, SwapEngine PROVE IInv'
<1> USE Parts, CorpusAssumption
<1>1. StoreInv' /\ live' = live /\ by' = by
  BY SameStore DEF SwapEngine
<1>0. /\ engine' = job /\ job' = Empty /\ caller' = "nobody"
      /\ svc = "swap" /\ svc' \in {"binding", "idle"} /\ cache' = cache
      /\ crashes' = crashes /\ pc' = pc
  BY DEF SwapEngine
<1>2. upd' \in {"asleep", "fetching"}
  BY DEF SwapEngine, RestTyped
<1>3. /\ call' \in [Req -> {"none", "queued", "served", "failed", "reset"}]
      /\ \A q \in Req : q # caller => call'[q] = call[q]
      /\ \A q \in Req : q = caller => call'[q] = "served"
  BY DEF SwapEngine, RestTyped
<1>m. /\ astray' \subseteq {"job", "engine", "index"} /\ "job" \notin astray'
      /\ "index" \in astray' <=> "index" \in astray
      /\ "engine" \in astray' <=> "job" \in astray
  BY DEF SwapEngine, Mark, RestTyped
<1>4. RestTyped'
  BY <1>0, <1>2, <1>3, <1>m DEF RestTyped, Answer
<1>5. Building /\ ~Building'
  BY <1>0 DEF Building
<1>6. ReqPhases'
  <2>1. \A q \in Req : call'[q] # "none" => call[q] # "none"
    BY <1>3, <1>5 DEF ReqPhases
  <2> QED
    BY <1>0, <1>5, <1>m, <2>1, SameStore DEF SwapEngine, ReqPhases, writer
<1>7. ASSUME NEW q \in Req, Settled(q)'
      PROVE  /\ "job" \notin astray => job = live
             /\ "index" \notin astray => cache \in {live, "absent", "torn"}
  <2>1. CASE q = caller
    <3>1. by = q /\ ("job" \notin astray => job = live)
      BY <1>1, <1>5, <1>7, <2>1 DEF Settled, InStep
    <3> QED
      BY <1>0, <3>1 DEF InStep
  <2>2. CASE q # caller
    BY <1>0, <1>1, <1>3, <1>5, <1>7, <2>2 DEF Settled, InStep
  <2> QED
    BY <2>1, <2>2
<1>8. InStep'
  BY <1>0, <1>1, <1>5, <1>7, <1>m DEF InStep
<1> QED
  BY <1>1, <1>4, <1>6, <1>8, PartsNext

LEMMA CrashStep == ASSUME IInv, Crash PROVE IInv'
<1> USE Parts, CorpusAssumption
<1>1. StoreInv' /\ OthersWait(Svc) /\ live' = live /\ by' = by
  BY DieStore DEF Crash, writer
<1>0. /\ svc' = "down" /\ engine' = Empty /\ job' = Empty
      /\ caller' = "nobody" /\ upd' = "asleep"
      /\ cache' = cache /\ pc' = pc /\ astray' = astray \cap {"index"}
  BY DEF Crash
<1>2. crashes' \in 0 .. MaxCrashes
  BY DEF Crash, RestTyped
<1>3. call' \in [Req -> {"none", "queued", "served", "failed", "reset"}]
  BY DEF Crash, RestTyped
<1>4. \A q \in Req : call'[q] \in {call[q], "reset"} /\ (call'[q] # "none" <=> call[q] # "none")
  BY DEF Crash
<1>5. RestTyped'
  BY <1>0, <1>2, <1>3 DEF RestTyped, Answer
<1>6. ~Building' /\ ~Loaded'
  BY <1>0 DEF Building, Loaded
<1>7. ReqPhases'
  BY <1>0, <1>1, <1>4, <1>6 DEF ReqPhases, OthersWait, writer
<1>8. \A q \in Req : Settled(q)' => Settled(q)
  BY <1>0, <1>1, <1>4 DEF Settled
<1>9. InStep'
  BY <1>0, <1>1, <1>6, <1>8 DEF InStep
<1> QED
  BY <1>1, <1>5, <1>7, <1>9, PartsNext

LEMMA StutterStep == ASSUME IInv, UNCHANGED vars PROVE IInv'
<1> USE Parts DEF vars, svcvars, reqvars
<1>1. StoreInv' /\ live' = live /\ by' = by
  BY SameStore
<1>2. RestTyped'
  BY DEF RestTyped, Answer
<1>3. ReqPhases'
  BY SameStore DEF ReqPhases, Building, writer
<1>4. InStep'
  BY <1>1 DEF InStep, Building, Settled, Loaded
<1> QED
  BY <1>1, <1>2, <1>3, <1>4, PartsNext
-----------------------------------------------------------------------------
LEMMA InvNext == IInv /\ [Next]_vars => IInv'
<1> SUFFICES ASSUME IInv, [Next]_vars PROVE IInv'
  OBVIOUS
<1>1. CASE \E r \in Req : Request(r) \/ Abort(r)
  BY <1>1, IngestStep, StoreStep, CallStep, ReplyStep, AbortStep DEF Request
<1>2. CASE Boot
  BY <1>2, BootStep
<1>3. CASE Service
  BY <1>3, StageStep, SeedStep, LoadStep, BindStep, PersistStep, SwapEngineStep,
     UpdateStoreStep, RefreshStep DEF Service
<1>4. CASE Updater
  BY <1>4, UpdateStep DEF Updater
<1>5. CASE Tick
  BY <1>5, TickStep
<1>6. CASE Crash
  BY <1>6, CrashStep
<1>7. CASE UNCHANGED vars
  BY <1>7, StutterStep
<1> QED
  BY <1>1, <1>2, <1>3, <1>4, <1>5, <1>6, <1>7 DEF Next

(* The strengthened invariant holds in every reachable state. *)
THEOREM Inductive == Spec => []IInv
  BY InvInit, InvNext, PTL DEF Spec

(* The variables of the corpus keep their types. *)
THEOREM TypeCorrect == Spec => []TypeOK
<1>1. IInv => TypeOK
  BY DEF IInv
<1> QED
  BY Inductive, <1>1, PTL

(* A refresh answered 200 (routes.rs:371-386) is served from the list it stored
   until another process touches csl.json or a disk error puts the engine apart from
   it, through any number of crashes, updates and other requests. *)
THEOREM IndexedServedHolds == Spec => []IndexedServed
<1>1. IInv => IndexedServed
  BY DEF IInv, InStep, Settled, IndexedServed, Serving, Loaded
<1> QED
  BY Inductive, <1>1, PTL
-----------------------------------------------------------------------------
(* What searches may run on: only lists csl.json has held (OnlyStoredServed), and
   what the service itself has stored (OwnListServed). *)

(* While no two replacements have overlapped: one writer at a time, which finds
   the temporary file blank and leaves its own list there. *)
OneWriter ==
  /\ \A u, w \in writer : File!Busy(u) /\ File!Busy(w) => u = w
  /\ \A w \in writer :
       /\ step[w] = "open" => fd[w] = "tmp" /\ tmp = "blank"
       /\ step[w] = "closed" => tmp = doc[w]
       /\ step[w] # "open" => fd[w] = "none"

LiveStored == live \in Corpora => live \in stored

Held == stored \cup {Empty}

(* Every copy of a list has been in csl.json. *)
CopiesStored ==
  /\ engine \in Held
  /\ cache \in Corpora => cache \in Held
  /\ Building => job \in Held

FileInv == clean => OneWriter /\ LiveStored
ServedInv == FileInv /\ (clean => CopiesStored)

LEMMA ServedInit == Init => ServedInv
BY CorpusAssumption DEF Init, ServedInv, FileInv, OneWriter, LiveStored, CopiesStored, Held,
   Building, File!RInit, File!Busy
-----------------------------------------------------------------------------
(* The steps of write_atomic. *)
LEMMA BeginFile ==
  ASSUME StoreInv, FileInv, NEW w \in writer, NEW d \in Corpora, Begin(w, d)
  PROVE  FileInv' /\ (clean' => clean) /\ stored \subseteq stored'
<1> USE DEF Begin, Record, File!Create, StoreInv, FileTyped, File!RTypeOK, File!Busy
<1>1. clean' => clean /\ \A u \in writer \ {w} : ~File!Busy(u)
  OBVIOUS
<1>2. clean' => OneWriter'
  BY <1>1 DEF FileInv, OneWriter
<1>3. clean' => LiveStored'
  BY <1>1 DEF LiveStored
<1> QED BY <1>1, <1>2, <1>3 DEF FileInv

LEMMA GoesOnFile ==
  ASSUME StoreInv, FileInv, NEW w \in writer, GoesOn(w)
  PROVE  FileInv' /\ (clean' => clean) /\ stored \subseteq stored'
<1> USE DEF GoesOn, Record, StoreInv, FileTyped, File!RTypeOK, File!Busy
<1>1. /\ clean' => clean /\ \A u \in writer \ {w} : ~File!Busy(u)
      /\ step[w] = "open" /\ step' = [step EXCEPT ![w] = "closed"] /\ doc' = doc
      /\ File!Put(w, File!Landed(w, tmp), File!Landed(w, live))
  BY DEF File!Write
<1>2. ASSUME clean' PROVE File!Landed(w, tmp) = {doc[w]} /\ fd[w] = "tmp"
  BY <1>1, <1>2 DEF FileInv, OneWriter, File!Landed
<1>3. clean' => tmp' = doc[w] /\ fd' = [fd EXCEPT ![w] = "none"]
  BY <1>1, <1>2 DEF File!Put
<1>4. clean' => OneWriter'
  BY <1>1, <1>3 DEF FileInv, OneWriter
<1>5. clean' => LiveStored'
  BY DEF LiveStored
<1> QED BY <1>1, <1>4, <1>5 DEF FileInv

LEMMA SucceedsFile ==
  ASSUME StoreInv, FileInv, NEW w \in writer, Succeeds(w)
  PROVE  /\ FileInv' /\ (clean' => clean) /\ stored \subseteq stored'
         /\ clean' => doc[w] \in stored'
<1> USE DEF Succeeds, Record, StoreInv, FileTyped, File!RTypeOK, File!Busy
<1>1. /\ clean' => clean /\ \A u \in writer \ {w} : ~File!Busy(u)
      /\ step[w] = "closed" /\ live' = tmp /\ step' = [step EXCEPT ![w] = "idle"]
      /\ fd' = [u \in writer |-> File!Moved(fd[u])]
  BY DEF File!Rename, File!Return
<1>2. clean' => tmp = doc[w] /\ \A u \in writer : fd[u] = "none"
  BY <1>1 DEF FileInv, OneWriter
<1>3. clean' => OneWriter'
  BY <1>1, <1>2 DEF FileInv, OneWriter, File!Moved
<1>4. clean' => LiveStored'
  BY DEF LiveStored
<1>5. doc[w] \in Corpora
  BY <1>1
<1>6. clean' => doc[w] \in stored'
  BY <1>1, <1>2, <1>5
<1> QED BY <1>1, <1>3, <1>4, <1>6 DEF FileInv

LEMMA FailsFile ==
  ASSUME StoreInv, FileInv, NEW w \in writer, Fails(w)
  PROVE  FileInv' /\ (clean' => clean) /\ stored \subseteq stored'
<1> USE DEF Record, StoreInv, FileTyped, File!RTypeOK, File!Busy
<1>1. /\ clean' => clean /\ \A u \in writer \ {w} : ~File!Busy(u)
      /\ step' = [step EXCEPT ![w] = "idle"] /\ stored \subseteq stored'
      /\ live' \in Corpora => live' \in stored'
  BY DEF Fails, File!WriteFails, File!RenameFails, File!Return
<1>2. fd' = [fd EXCEPT ![w] = "none"] \/ (step[w] = "closed" /\ fd' = fd)
  BY DEF Fails, File!WriteFails, File!RenameFails, File!Put
<1>3. clean' => OneWriter'
  BY <1>1, <1>2 DEF FileInv, OneWriter
<1>4. clean' => LiveStored'
  BY <1>1 DEF LiveStored
<1> QED BY <1>1, <1>3, <1>4 DEF FileInv

LEMMA DieFile ==
  ASSUME StoreInv, FileInv, NEW w \in writer, UNCHANGED <<by, clean, stored>>,
         IF File!Busy(w) THEN File!Die(w) ELSE UNCHANGED filevars
  PROVE  FileInv' /\ (clean' => clean) /\ stored \subseteq stored'
<1> USE DEF StoreInv, FileTyped, File!RTypeOK, File!Busy
<1>1. CASE File!Busy(w)
  <2>1. /\ step' = [step EXCEPT ![w] = "idle"] /\ fd' = [fd EXCEPT ![w] = "none"]
        /\ doc' = [doc EXCEPT ![w] = "nothing"] /\ UNCHANGED <<live, tmp>>
    BY <1>1 DEF File!Die, File!Return
  <2>2. clean => OneWriter'
    BY <2>1 DEF FileInv, OneWriter
  <2>3. clean => LiveStored'
    BY <2>1 DEF FileInv, LiveStored
  <2> QED BY <2>2, <2>3 DEF FileInv
<1>2. CASE ~File!Busy(w)
  BY <1>2 DEF filevars, FileInv, OneWriter, LiveStored
<1> QED BY <1>1, <1>2

LEMMA SameFile ==
  ASSUME FileInv, UNCHANGED <<filevars, clean, stored>>
  PROVE  FileInv' /\ (clean' => clean) /\ stored \subseteq stored'
BY DEF filevars, FileInv, OneWriter, LiveStored, File!Busy
-----------------------------------------------------------------------------
(* A step that changes no list but csl.json. *)
LEMMA CopiesStay ==
  ASSUME ServedInv, FileInv', clean' => clean, stored \subseteq stored',
         UNCHANGED <<engine, cache, job>>, Building' => Building
  PROVE  ServedInv'
BY DEF ServedInv, CopiesStored, Held

(* A request's step. *)
LEMMA RequestServed ==
  ASSUME IInv, ServedInv, NEW r \in Req, Request(r) \/ Abort(r)
  PROVE  ServedInv'
<1> USE DEF Request
<1>1. StoreInv /\ FileInv /\ r \in writer
  BY Parts DEF ServedInv, writer
<1>2. UNCHANGED <<engine, cache, job, svc>>
  BY DEF Ingest, Store, Call, Reply, Abort, svcvars
<1>3. FileInv' /\ (clean' => clean) /\ stored \subseteq stored'
  <2>1. CASE \E f \in Feed \cup {"none"} : Ingest(r, f)
    BY <1>1, <2>1, BeginFile, SameFile DEF Ingest
  <2>2. CASE Store(r)
    BY <1>1, <2>2, GoesOnFile, SucceedsFile, FailsFile DEF Store
  <2>3. CASE Call(r) \/ Reply(r)
    BY <1>1, <2>3, SameFile DEF Call, Reply
  <2>4. CASE Abort(r)
    BY <1>1, <2>4, DieFile DEF Abort
  <2> QED BY <2>1, <2>2, <2>3, <2>4
<1> QED BY <1>2, <1>3, CopiesStay DEF Building

(* A step of the service that builds no engine. *)
LEMMA ServiceWrites ==
  ASSUME IInv, ServedInv, Stage \/ Seed \/ \E f \in Feed : Update(f)
  PROVE  ServedInv'
<1>1. StoreInv /\ FileInv /\ Svc \in writer
  BY Parts DEF ServedInv, writer
<1>2. UNCHANGED <<engine, cache, job>> /\ ~Building'
  BY DEF Stage, Seed, Update, Building
<1>3. FileInv' /\ (clean' => clean) /\ stored \subseteq stored'
  <2>1. CASE Stage
    BY <1>1, <2>1, BeginFile, SameFile, CorpusAssumption DEF Stage
  <2>2. CASE Seed
    BY <1>1, <2>2, GoesOnFile, SucceedsFile, FailsFile DEF Seed
  <2>3. CASE \E f \in Feed : Update(f)
    BY <1>1, <2>3, BeginFile, SameFile DEF Update
  <2> QED BY <2>1, <2>2, <2>3
<1> QED BY <1>2, <1>3, CopiesStay

LEMMA UpdateServed == ASSUME IInv, ServedInv, UpdateStore PROVE ServedInv'
<1>1. StoreInv /\ FileInv /\ Svc \in writer
  BY Parts DEF ServedInv, writer
<1>2. engine' = engine /\ cache' = cache
  BY DEF UpdateStore
<1>3. CASE Succeeds(Svc) /\ job' = doc[Svc]
  <2>1. /\ FileInv' /\ (clean' => clean) /\ stored \subseteq stored'
        /\ clean' => doc[Svc] \in stored'
    BY <1>1, <1>3, SucceedsFile
  <2> QED BY <1>2, <1>3, <2>1 DEF ServedInv, CopiesStored, Held
<1>4. CASE (GoesOn(Svc) \/ Fails(Svc)) /\ UNCHANGED job /\ svc' \in {"storing", "idle"}
  <2>1. FileInv' /\ (clean' => clean) /\ stored \subseteq stored'
    BY <1>1, <1>4, GoesOnFile, FailsFile
  <2> QED BY <1>2, <1>4, <2>1, CopiesStay DEF Building
<1> QED BY <1>3, <1>4 DEF UpdateStore

(* A step of the service that leaves csl.json alone. *)
LEMMA ServiceServed ==
  ASSUME IInv, ServedInv,
         Boot \/ Load \/ Bind \/ Persist \/ SwapEngine \/ Tick \/ \E r \in Req : Refresh(r)
  PROVE  ServedInv'
<1>1. UNCHANGED <<filevars, clean, stored>>
  BY DEF Boot, Load, Bind, Persist, SwapEngine, Tick, Refresh
<1>2. FileInv' /\ clean' = clean /\ Held' = Held
  BY <1>1, SameFile DEF ServedInv, Held
<1>3. StoreInv
  BY Parts
<1>4. clean => \A list \in Readings : list # "error" => list \in Held
  BY <1>3, ReadingsAre DEF ServedInv, FileInv, LiveStored, Held
<1>5. ASSUME clean PROVE CopiesStored'
  <2> USE <1>2, <1>5 DEF ServedInv, CopiesStored
  <2>1. CASE Boot \/ Tick \/ Bind
    BY <2>1 DEF Boot, Tick, Bind, Building
  <2>2. CASE Load
    <3>1. cache' = cache
      BY <2>2 DEF Load
    <3>2. engine' \in Held
      BY <2>2 DEF Load, LoadWarm, LoadCold, Held
    <3>3. Building' => job' \in Held
      BY <1>4, <2>2 DEF Load, LoadWarm, LoadCold, Building
    <3> QED BY <3>1, <3>2, <3>3
  <2>3. CASE Persist
    <3>1. Building /\ Building' /\ UNCHANGED <<engine, job>>
      BY <2>3 DEF Persist, Building
    <3>2. cache' \in {job, "torn", cache}
      BY <2>3 DEF Persist
    <3>3. "torn" \notin Corpora
      BY CorpusAssumption
    <3> QED BY <3>1, <3>2, <3>3
  <2>4. CASE SwapEngine
    <3>1. Building /\ ~Building' /\ engine' = job /\ cache' = cache
      BY <2>4 DEF SwapEngine, Building
    <3> QED BY <3>1
  <2>5. CASE \E r \in Req : Refresh(r)
    <3>1. UNCHANGED <<engine, cache>>
      BY <2>5 DEF Refresh
    <3>2. Building' => job' \in Held
      BY <1>4, <2>5 DEF Refresh, Building
    <3> QED BY <3>1, <3>2
  <2> QED BY <2>1, <2>2, <2>3, <2>4, <2>5
<1> QED BY <1>2, <1>5 DEF ServedInv

LEMMA CrashServed == ASSUME IInv, ServedInv, Crash PROVE ServedInv'
<1>1. StoreInv /\ FileInv /\ Svc \in writer
  BY Parts DEF ServedInv, writer
<1>2. FileInv' /\ clean' = clean /\ stored' = stored
  BY <1>1, DieFile DEF Crash
<1>3. cache' = cache /\ engine' = Empty /\ ~Building'
  BY DEF Crash, Building
<1> QED BY <1>2, <1>3 DEF ServedInv, CopiesStored, Held

LEMMA ServedStutter == ASSUME ServedInv, UNCHANGED vars PROVE ServedInv'
<1>1. UNCHANGED <<engine, cache, job, svc>> /\ UNCHANGED <<filevars, clean, stored>>
  BY DEF vars, svcvars
<1> QED BY <1>1, SameFile, CopiesStay DEF ServedInv, Building

LEMMA ServedNext == IInv /\ ServedInv /\ [Next]_vars => ServedInv'
BY RequestServed, ServiceWrites, UpdateServed, ServiceServed, CrashServed, ServedStutter
   DEF Next, Service, Updater

(* Searches run on no list that csl.json has not held, as long as no two
   replacements of it have overlapped (bootstrap.rs:65-74 replaces the file
   before it swaps the engine, and drops the list if it cannot). *)
THEOREM OnlyStoredServedHolds == Spec => []OnlyStoredServed
<1>1. ServedInv => OnlyStoredServed
  BY DEF ServedInv, CopiesStored, Held, OnlyStoredServed
<1> QED
  BY ServedInit, ServedNext, Inductive, <1>1, PTL DEF Spec
-----------------------------------------------------------------------------
(* While csl.json is as the service left it, each engine under construction is built
   from it, and the one that is loaded is, too, or is the index file's. *)
OwnInStep ==
  clean /\ by = Svc =>
    /\ Building /\ "job" \notin astray => job = live
    /\ Loaded /\ "engine" \notin astray => engine \in {live, cache}

LEMMA OwnInit == Init => OwnInStep
BY CorpusAssumption DEF Init, OwnInStep, writer

(* Whoever writes: the mark goes with the file, or both stay. *)
LEMMA OwnStays ==
  ASSUME OwnInStep, clean' => clean, by' = Svc => (by = Svc /\ live' = live),
         Loaded' => Loaded, ~Building' \/ (Building /\ job' = job),
         UNCHANGED <<engine, cache, astray>>
  PROVE  OwnInStep'
BY DEF OwnInStep

LEMMA RequestOwn ==
  ASSUME IInv, ServedInv, OwnInStep, NEW r \in Req, Request(r) \/ Abort(r)
  PROVE  OwnInStep'
<1> USE DEF Request
<1>1. StoreInv /\ FileInv /\ r \in writer /\ r # Svc
  BY Parts, CorpusAssumption DEF ServedInv, writer
<1>2. UNCHANGED <<engine, cache, job, svc, astray>>
  BY DEF Ingest, Store, Call, Reply, Abort, svcvars
<1>3. (clean' => clean) /\ (by' = Svc => by = Svc /\ live' = live)
  <2>1. CASE \E f \in Feed \cup {"none"} : Ingest(r, f)
    BY <1>1, <2>1, BeginFile, BeginStore, SameFile, StoreSame DEF Ingest, Marked, ServedInv
  <2>2. CASE Store(r)
    BY <1>1, <2>2, GoesOnFile, SucceedsFile, FailsFile, GoesOnStore, SucceedsStore,
       FailsStore DEF Store, Marked
  <2>3. CASE Call(r) \/ Reply(r)
    <3>1. UNCHANGED <<filevars, by, clean>>
      BY <2>3 DEF Call, Reply
    <3> QED BY <3>1 DEF filevars
  <2>4. CASE Abort(r)
    BY <1>1, <2>4, DieStore DEF Abort
  <2> QED BY <2>1, <2>2, <2>3, <2>4
<1> QED BY <1>2, <1>3, OwnStays DEF Loaded, Building

(* The service's own replacements: until one succeeds, csl.json stays. *)
LEMMA ServiceOwn ==
  ASSUME IInv, ServedInv, OwnInStep, Stage \/ Seed \/ UpdateStore \/ \E f \in Feed : Update(f)
  PROVE  OwnInStep'
<1>1. /\ StoreInv /\ FileInv /\ Svc \in writer
      /\ ~Building => "job" \notin astray
  BY Parts DEF ServedInv, ReqPhases, writer
<1>2. UNCHANGED <<engine, cache, astray>> /\ ~Building
  BY DEF Stage, Seed, Update, UpdateStore, Building
<1>3. CASE Succeeds(Svc) /\ UpdateStore
  <2>1. job' = doc[Svc] /\ svc' = "persist" /\ ~Loaded'
    <3>1. ~GoesOn(Svc) /\ ~Fails(Svc)
      BY <1>1, <1>3 DEF GoesOn, Succeeds, Fails, File!Write, File!Rename, File!WriteFails,
         File!RenameFails, Record
    <3> QED BY <1>3, <3>1 DEF UpdateStore, Loaded
  <2>2. clean' => live' = doc[Svc]
    BY <1>1, <1>3 DEF Succeeds, Record, File!Rename, File!Busy, FileInv, OneWriter
  <2> QED BY <2>1, <2>2 DEF OwnInStep
<1>4. ASSUME GoesOn(Svc) \/ Fails(Svc) PROVE clean' => clean /\ live' = live /\ by' = by
  <2>1. clean' => clean /\ \A u \in writer \ {Svc} : ~File!Busy(u)
    BY <1>4 DEF GoesOn, Fails, Record
  <2>2. clean' => fd[Svc] # "live"
    BY <1>1, <2>1, <1>4 DEF GoesOn, Fails, File!Write, File!WriteFails, File!RenameFails,
       File!Busy, FileInv, OneWriter
  <2> QED
    BY <2>1, <2>2, <1>4 DEF GoesOn, Fails, Record, File!Write, File!WriteFails,
       File!RenameFails, File!Put
<1>5. CASE Seed
  BY <1>5 DEF OwnInStep, Seed, Building, Loaded
<1>6. CASE Stage
  BY <1>6 DEF OwnInStep, Stage, Building, Loaded
<1>7. CASE UpdateStore /\ (GoesOn(Svc) \/ Fails(Svc)) /\ svc' \in {"storing", "idle"}
  BY <1>2, <1>4, <1>7, OwnStays DEF UpdateStore, Building, Loaded, OwnInStep
<1>8. CASE \E f \in Feed : Update(f)
  <2>1. (clean' => clean) /\ by' = by /\ live' = live
    <3>1. PICK f \in Feed : Update(f)
      BY <1>8
    <3>2. CASE UNCHANGED <<filevars, by, clean>>
      BY <3>2 DEF filevars
    <3>3. CASE Begin(Svc, f)
      BY <1>1, <3>3 DEF Begin, Record, File!Create, StoreInv
    <3> QED BY <3>1, <3>2, <3>3 DEF Update
  <2>2. svc' \in {"storing", "idle"} /\ svc = "idle"
    BY <1>8 DEF Update
  <2> QED BY <1>2, <2>1, <2>2, OwnStays DEF Building, Loaded
<1> QED BY <1>3, <1>5, <1>6, <1>7, <1>8 DEF UpdateStore

(* What leaves csl.json alone. *)
LEMMA EngineOwn ==
  ASSUME IInv, OwnInStep,
         Boot \/ Load \/ Bind \/ Persist \/ SwapEngine \/ Tick \/ \E r \in Req : Refresh(r)
  PROVE  OwnInStep'
<1>1. /\ StoreInv /\ live' = live /\ by' = by /\ clean' = clean /\ Svc # "nobody"
      /\ by \in writer \cup {"nobody"} /\ astray \subseteq {"job", "engine", "index"}
      /\ ~Building => "job" \notin astray
  BY Parts, CorpusAssumption DEF Boot, Load, Bind, Persist, SwapEngine, Tick, Refresh,
     filevars, StoreInv, RestTyped, ReqPhases
<1>2. CASE Boot \/ Tick \/ Bind
  BY <1>1, <1>2, OwnStays DEF Boot, Tick, Bind, Building, Loaded
<1>3. CASE Load
  <2>1. CASE LoadWarm
    BY <1>1, <1>3, <2>1 DEF OwnInStep, Load, LoadWarm, Building
  <2>2. ASSUME LoadCold, by = Svc PROVE OwnInStep'
    <3>1. PICK list \in Readings :
            IF list \in {Empty, "error"}
              THEN /\ svc' = "binding" /\ engine' = Empty
                   /\ astray' = Mark("engine", list # ListAll)
                   /\ UNCHANGED <<job, caller>>
              ELSE /\ svc' = "persist" /\ job' = list /\ caller' = "boot"
                   /\ UNCHANGED <<engine, astray>>
      BY <2>2 DEF LoadCold
    <3>2. /\ list \in {Empty, live, "error"}
          /\ list = ListAll => list = live
          /\ live # "error"
      BY <1>1, <2>2, ReadingsAre, CorpusAssumption
         DEF StoreInv, FileTyped, File!RTypeOK, File!Content, File!Partial
    <3>3. CASE list \in {Empty, "error"}
      BY <1>1, <3>1, <3>2, <3>3 DEF OwnInStep, Mark, Building
    <3>4. CASE list \notin {Empty, "error"}
      BY <1>1, <3>1, <3>2, <3>4 DEF OwnInStep, Loaded
    <3> QED BY <3>3, <3>4
  <2>3. CASE by # Svc
    BY <1>1, <2>3 DEF OwnInStep
  <2> QED BY <1>3, <2>1, <2>2, <2>3 DEF Load
<1>4. CASE Persist
  <2>1. /\ Building /\ Building' /\ ~Loaded' /\ job' = job
        /\ "job" \in astray' <=> "job" \in astray
    BY <1>4 DEF Persist, Building, Loaded, Mark
  <2> QED BY <1>1, <2>1 DEF OwnInStep
<1>5. CASE SwapEngine
  <2>1. /\ Building /\ ~Building' /\ engine' = job
        /\ "engine" \in astray' <=> "job" \in astray
    BY <1>5 DEF SwapEngine, Building, Mark
  <2> QED BY <1>1, <2>1 DEF OwnInStep
<1>6. ASSUME NEW r \in Req, Refresh(r), by = Svc PROVE OwnInStep'
  <2>1. PICK list \in Readings :
          IF list = "error"
            THEN UNCHANGED <<svc, job, caller, astray>>
            ELSE /\ svc' = "persist" /\ job' = list
                 /\ astray' = Mark("job", list # ListAll)
    BY <1>6 DEF Refresh
  <2>2. engine' = engine /\ cache' = cache /\ ~Building
    BY <1>6 DEF Refresh, Building
  <2>3. list = ListAll => list = live
    BY <1>1, <1>6, ReadingsAre
  <2>4. CASE list = "error"
    BY <1>1, <2>1, <2>2, <2>4 DEF OwnInStep, Loaded, Building
  <2>5. CASE list # "error"
    BY <1>1, <2>1, <2>3, <2>5 DEF OwnInStep, Mark, Loaded
  <2> QED BY <2>4, <2>5
<1>7. CASE (\E r \in Req : Refresh(r)) /\ by # Svc
  BY <1>1, <1>7 DEF OwnInStep
<1> QED
  BY <1>2, <1>3, <1>4, <1>5, <1>6, <1>7

LEMMA OwnNext == IInv /\ ServedInv /\ OwnInStep /\ [Next]_vars => OwnInStep'
<1> SUFFICES ASSUME IInv, ServedInv, OwnInStep, [Next]_vars PROVE OwnInStep'
  OBVIOUS
<1>1. CASE Crash
  BY <1>1 DEF Crash, OwnInStep, Building, Loaded
<1>2. CASE UNCHANGED vars
  BY <1>2 DEF vars, filevars, svcvars, OwnInStep, Building, Loaded
<1> QED
  BY <1>1, <1>2, RequestOwn, ServiceOwn, EngineOwn DEF Next, Service, Updater

(* What the service itself has stored it searches, or what its index file holds
   (bootstrap.rs:65-74, main.rs:126-159), as long as no two replacements have
   overlapped and no disk error has put the engine apart from the file. *)
THEOREM OwnListServedHolds == Spec => []OwnListServed
<1>1. OwnInStep => OwnListServed
  BY DEF OwnInStep, OwnListServed, Serving, Loaded
<1> QED
  BY Inductive, ServedInit, ServedNext, OwnInit, OwnNext, <1>1, PTL DEF Spec
-----------------------------------------------------------------------------
(* What each part of a request or of the service does to csl.json is one step of
   one write_atomic, or nothing. *)
LEMMA StoreSteps ==
  ASSUME NEW w \in writer
  PROVE  /\ \A d \in Corpora : Begin(w, d) => File!RNext
         /\ GoesOn(w) \/ Succeeds(w) \/ Fails(w) => File!RNext
         /\ File!Die(w) => File!RNext
BY DEF Begin, GoesOn, Succeeds, Fails, File!RNext

LEMMA CorpusStepsFile == [Next]_vars => [File!RNext]_(File!rvars)
<1> SUFFICES ASSUME [Next]_vars PROVE [File!RNext]_(File!rvars)
  OBVIOUS
<1>a. UNCHANGED filevars => [File!RNext]_(File!rvars)
  BY DEF filevars, File!rvars
<1>b. \A r \in Req : r \in writer
  BY DEF writer
<1>c. Svc \in writer
  BY DEF writer
<1>1. ASSUME NEW r \in Req, NEW f, Ingest(r, f) PROVE [File!RNext]_(File!rvars)
  BY <1>1, <1>a, <1>b, StoreSteps DEF Ingest
<1>2. ASSUME NEW r \in Req, Store(r) PROVE [File!RNext]_(File!rvars)
  BY <1>2, <1>a, <1>b, StoreSteps DEF Store
<1>3. ASSUME NEW r \in Req, Call(r) \/ Reply(r) \/ Refresh(r) PROVE [File!RNext]_(File!rvars)
  BY <1>3, <1>a DEF Call, Reply, Refresh
<1>4. ASSUME NEW r \in Req, Abort(r) PROVE [File!RNext]_(File!rvars)
  BY <1>4, <1>a, <1>b, StoreSteps DEF Abort
<1>5. ASSUME Stage PROVE [File!RNext]_(File!rvars)
  BY <1>5, <1>a, <1>c, StoreSteps, CorpusAssumption DEF Stage
<1>6. ASSUME Seed PROVE [File!RNext]_(File!rvars)
  BY <1>6, <1>a, <1>c, StoreSteps DEF Seed
<1>7. ASSUME UpdateStore PROVE [File!RNext]_(File!rvars)
  BY <1>7, <1>a, <1>c, StoreSteps DEF UpdateStore
<1>8. ASSUME NEW f \in Feed, Update(f) PROVE [File!RNext]_(File!rvars)
  BY <1>8, <1>a, <1>c, StoreSteps DEF Update
<1>9. ASSUME Crash PROVE [File!RNext]_(File!rvars)
  BY <1>9, <1>a, <1>c, StoreSteps DEF Crash
<1>10. ASSUME Boot \/ Load \/ Bind \/ Persist \/ SwapEngine \/ Tick PROVE [File!RNext]_(File!rvars)
  BY <1>10, <1>a DEF Boot, Load, Bind, Persist, SwapEngine, Tick
<1>11. ASSUME UNCHANGED vars PROVE [File!RNext]_(File!rvars)
  BY <1>11, <1>a DEF vars
<1> QED
  BY <1>1, <1>2, <1>3, <1>4, <1>5, <1>6, <1>7, <1>8, <1>9, <1>10, <1>11
  DEF Next, Request, Service, Updater

(* All that happens to csl.json in the whole system, requests dropped and the
   service dying included, is write_atomic by several writers. *)
THEOREM CorpusUsesFile == Spec => File!RSpec
<1>1. Init => File!RInit
  BY DEF Init
<1> QED BY <1>1, CorpusStepsFile, PTL DEF Spec, File!RSpec
=============================================================================
