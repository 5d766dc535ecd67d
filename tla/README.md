# OcelAudit in TLA+

OcelAudit screens names against the Consolidated Screening List (CSL), keeps an
audit record of every search, and has people decide on the doubtful ones. This
directory models the parts of it whose correctness depends on the order in which
several processes do things, checks them with TLC and proves the central facts
with TLAPS. Paths below are relative to the repository (`src/` here).

## 1. The system

Two WebAssembly workloads share one volume, `/data`.

* **api-gateway** (`components/api-gateway`): a fresh instance per HTTP request.
  It keeps nothing in memory between requests; every instance opens the files of
  `/data` for itself and no lock is shared between two of them.
* **csl-service** (`components/csl-service`): one long-lived process on one
  thread. It holds the parsed list and its index (the *engine*), answers a
  line-based JSON protocol on TCP port 7878, one connection at a time, and
  replaces the list itself at start and once a day. If it dies, the host starts
  it again.

| Component | State | Operations | Hard because |
|---|---|---|---|
| storage-jsonfs, whole files (`storage-jsonfs/src/lib.rs`) | `csl.json`, `users.json`, `*.tmp` | `write_atomic`, `read_csl_snapshot`, `csl_*`, `users_*` | one fixed temporary name for all writers; failures and deaths between steps |
| storage-jsonfs, logs | `audit.jsonl`, `workflow.jsonl` | `append_jsonl`, `read_jsonl`, `audit_*`, `workflow_*` | a line and its newline are two writes; one bad line fails the whole reading |
| Screening list: refresh, boot, daily update (`routes.rs` `csl_refresh`, `csl_client.rs`, `main.rs`, `bootstrap.rs`) | `csl.json`, `search-index.bin`, the engine | refresh, `Refresh` operation, seed, warm boot, `run_update` | three copies of one list, two unsynchronised writers, crashes, lost and late replies |
| Search, audit, review (`routes.rs`) | the two logs | `search`, `review_decide`, `review_queue`, `audit_list`, `audit_get` | check-then-act across requests; several reads for one answer |
| Sessions and login (`auth.rs`, `state.rs`, `routes.rs`) | `session.key`, `users.json`, the cookies handed out | startup, login, logout, `current_session`, `from_env_or_keyfile`, `users_seed_if_empty` | every request is an instance that starts up: any of them may be the one to seed the users or make the key |
| Search engine (`components/search`), ingest (`components/csl-ingest`) | an index built from a list | `build`, `search`, `entry`, `autocomplete`; `parse_external_json` | exact match, filter, limit and light interact; candidates come out of a hash map; ids may collide |
| Scheduler arithmetic (`bootstrap.rs`) | the clock, when it last slept | `secs_until_next_run` and the calendar | the offset of *now* is used for a target beyond a change of the clock |
| storage-memory, backend choice (`storage-memory/src/lib.rs`, `config.rs`) | a root directory per instance | `parse_storage_backend`, `root_path` | its state lives for one request |
| HTTP plumbing, static assets, UI, WIT, tools | | | sequential or pure I/O |

**What makes each correct.** A replaced file is always one whole document, and a
replacement that reports success has taken effect. A log loses nothing it has
acknowledged. Searches run on the list that was last stored, or the caller of the
refresh has been told otherwise. A search that was answered is on record; a
decision refers to a record; the latest decision is in force; whatever waits for
a decision is shown. A session once handed out is taken by every later instance,
and the right password is never refused. Whoever is on the list under the very
name asked for is blocked, and nobody is for an entry the answer does not show.
The list is updated once on every day, at its hour. The hazards behind these are
listed, line by line, in `PROJECT.json`.

## 2. The modules

| Module | Models | Reads on from |
|---|---|---|
| `WholeFile` | the promise of `csl_bulk_replace`: a register that is replaced as a whole or not at all | |
| `AtomicReplace` | `write_atomic`, step by step, for any writers | implements `WholeFile` |
| `ReplaceHistory` | `AtomicReplace` with what each writer was told and whom it overlapped | extends `AtomicReplace` |
| `Ledger` | the promise of `audit_log` and `workflow_log`: records stay, once each; all are shown or, for good, none | |
| `AppendLog` | `append_jsonl`, `read_jsonl` | implements `Ledger` |
| `LogHistory` | `AppendLog` with a memory of overlaps | extends `AppendLog` |
| `LogPages` | `audit_list` and its paging, under a client that leafs | extends `LogHistory` |
| `Corpus` | refreshes, boot, daily update, crash, the engine | instantiates `AtomicReplace` as `File` |
| `Review` | searches, reviewers, the queue | instantiates `AppendLog` twice |
| `Session` | an instance's startup, the signing key, the users file, login and the checks of `dispatch` | instantiates `AtomicReplace` as `Users` |
| `Screening` | `parse_external_json`, the engine's `search`, the service's answer, the gateway's decision | |
| `Schedule` | the scheduler's loop and its calendar | |
| `Filter` | `Keep`: the members of a set that are in a sequence, in their order (`filter`, `retain`, the lines `read_jsonl` returns) | extended by `AppendLog` and `Screening` |
| `MCCorpus`, `MCSession`, `MCListService` | values and symmetry for TLC; the last one runs `Screening` and `Schedule` side by side | extend the above |
| `FilterProofs`, `ReplaceProofs`, `LogProofs`, `CorpusProofs`, `ReviewProofs`, `SessionProofs`, `ScheduleProofs`, `ScreeningProofs` | lemmas and theorems | extend the above |

### AtomicReplace
A file is its content: a document, `"blank"` (just truncated), `"torn"` (cut off,
or bytes of two documents), or `"absent"`. A descriptor is the *name its file has
now*, so a rename by somebody else turns `"tmp"` into `"live"` under a writer that
still has it open. Actions are `File::create`, write + sync + drop, `rename`, the
failure of each, and the death of the process. Writes through a shared or
non-empty file may give either a document or a mix.

### AppendLog
The text is a sequence of whole lines (named by the process that writes them),
`"cut"` lines and `"newline"`s. `Readable` and `Entries` are `read_jsonl`: no
recursion is needed because a line is one value exactly when it is its own
neighbour to a newline, or to an end of the file, on both sides. A disk error that
hides a log from one reading is part of the readers' modules, `LogPages` and `Review`.

`LogPages` adds `audit_list`: `Page` is `parse_paging`'s clamps, then reverse, skip
and take. The client asks with any limit from 0 to one more than the largest, and
counts its offset up by what it was sent. A page that fails ends the reading
(`"refused"`); a page of a log whose stat fails is empty, and the client takes it for the
end (`"misled"`).

### Corpus
`live`, `tmp`, `fd`, `step`, `doc` are `AtomicReplace`'s; `cache` is
`search-index.bin`; `engine`, `job`, `caller`, `upd`, `svc` are csl-service;
`pc[r]`, `call[r]` are a refresh request and its operation on the wire.
csl-service's boot is `Boot`, `Stage`, `Seed`, `Load` (`LoadWarm` from the index, `LoadCold`
from csl.json) and, an await later, `Bind`: a gateway may replace csl.json between what
`Load` read and the bind. The Refresh operation is
`Refresh`, `Persist`, `SwapEngine`; the scheduler is `Tick`, `Update`,
`UpdateStore`, and the same `Persist`, `SwapEngine`. The service is one thread:
`svc` is where that thread is, and its steps interleave with gateways only. The
fetch is awaited, so the service serves while `upd = "fetching"`; from the parsed
body to the swapped engine `run_update` awaits nothing, and no Refresh is taken
between. A gateway may be dropped at any step (`Abort`), and the service may die
at any step (`Crash`). `Readings` is what one reading of csl.json may give: what the file
holds, an error (it does not parse, cannot be opened or read), or nothing (no file, or one
whose stat fails, as `Path::exists` is then false). `by`, `astray`, `clean`, `stored` are
history; `astray` names the copies of the list that a disk error has put apart (`Mark`),
until they are built anew from a good reading.

### Review
`audit`/`aphase` and `workflow`/`wphase` are two logs. A search is `Screen`
(service answer, decision, open), `AuditLog` (the rest of the append) and
`Respond`; a review is `Decide` (the word, the lookup) or `Misspell`, `WorkflowLog`,
`Decided`; the queue is
`Queue` (one read of the audit log), a `QueueItem` per event (one read of the
workflow log each) and `QueueAnswer`. `"500"` also stands for an answer that never
arrived. A disk error may hide a log from any of the readings: an event not found is a
404, the queue is answered 500, or is empty if the stat failed, and an event whose history
cannot be read shows its own decision. `due`, `settled`, `after`, `misled` are history.
`Current` is the overlay that
`audit_list` and `audit_get` show too.

### Session
A request is an instance, and `at[r]` says where its startup is. `Arrive` is
`handle` up to the question whether there is a `users.json`, which a failed stat answers
with no; `Seed` (its `File::create` is `Begin`) is `users_seed_if_empty` over
`AtomicReplace`, over an existing table too, an error ends the request with 503;
`LoadKey`, `KeyUnread` and `MakeKey` are `from_env_or_keyfile`; `Dispatch` is
`dispatch` with `login` (`Verified`, on one of the `Readings` of the table), `logout`,
`current_session` and the admin check; `Dies` is
the instance, or the host, going down. A key is named by the request that made it,
so a session holds exactly if the key it was signed with is the key held now; a
key file of under 16 bytes is `"blank"`, which the code treats as missing. `backend`
and `keyed` are the deployment: `STORAGE_BACKEND` and `SESSION_SIGNING_KEY`. A
memory backend has a root directory of its own per instance, so its key never is
another's. `founders`, `fault`, `overlap` and `misread` are history.

### Screening
A record is how well it fits the one query: Jaro-Winkler in hundredths, BM25 in
hundredths of the reference score, whether half of its trigrams are the query's. `Ingest`
builds the engine's entries from every feed up to `FeedSize` rows (`EntryId`: a row without
an id, a row whose id was seen before, a row without a name). An id is a stem and the
numbers that stand after a "#" at its end, so `format!("{}#{}", ..)` appends a number, and
an id that a feed brings along may be the one the code makes for another row.
`published`, the feed, is history. `Search` chooses a
fit, a request and one of the orders the sort by BM25 may leave candidates
of equal scores in, as they come out of a `HashMap`; `Hits`, `ExactAliasMatch`,
`Light` and `Decision` are what follows from it: cut to `TopK`, exact match before
the filters, filters, stable sort by the blended score, limit, light. The sort is
said by places (`Before`: what goes in front of a hit), which is what `sort_by`, a stable
sort, does, and what a proof can count with.
`ScreeningAssumption` says of a fit that a record with the very name (`jw = 100`) shares
a word or enough trigrams with the query. The code justifies it: the name is not
empty, both sides are normalised alike, and `trigrams` gives even a name without a single
letter or digit one trigram, so the record has all of the query's.

### Schedule
`now` is the clock; `Update` lets an update take some time, `Sleep` asks for the
time and sleeps `SecsUntilNextRun`, a little too long at most. The calendar helpers are
translated as they stand (`DaysFromCivil`, `CivilFromDays`, `NthSunday`,
`EasternOffset`; 64-bit seconds do not overflow on any date the code can meet).

## 3. What the runs check

Every property of a passing run has a mutant in the module it is about: a
plausible slip in the code under which TLC finds the property violated.

| Run | Question | Bounds |
|---|---|---|
| `replace_serial` | Is `write_atomic` an atomic register (`ImplementsRegister`) when replacements do not overlap, whatever fails or dies? | 3 writers, 4 documents |
| `replace_overlap` | When they overlap: a writer that loses its temporary file was overtaken by a success (`LoserHasWinner`); failures alone never tear the file (`OnlyRivalsTear`); a success nobody overlapped holds exactly its own document (`SoloReplaceTakes`) | 3 writers, 2 documents |
| `replace_partial` (violated) | Does a reader never meet a partial document, as `lib.rs:233-234` says? | 2 writers |
| `corpus_safety` | `IndexedServed`, `OnlyStoredServed`, `OwnListServed`, `TypeOK` | 2 refreshes, 3 lists, 1 crash, symmetric requests |
| `corpus_liveness` | `RefreshAnswered`, `UpdateHeals` under fairness | 1 refresh, 3 lists and a body that does not parse, 1 crash |
| `log_overlap` | `AckedKept`, `OnlyStopsDamage`, `DamageLasts`; is a log the ledger, whoever overlaps, fails or dies (`ImplementsLedger`); who leafs through the growing log to its end has missed nothing (`NoneSkipped`) | 3 appends, pages of 1 or 2, offset up to 2 |
| `log_survive` (violated) | Do two processes that append both keep their lines, as `tests.rs:168-169` says? | 3 appends |
| `review_queue` | `AnsweredAudited`, `DecisionsGrounded`, `QueueFresh`, `QueueComplete` | 2 searches, 1 reviewer, window 1 |
| `review_rulings` | `LaterRulingWins`; `TypeOK`: only the new names of a decision are stored | 1 search, 2 reviewers, an old name, a new one and a wrong one |
| `session` | Are sessions and passwords taken that should be (`SessionsHold`, `RightPasswordTaken`), which are not (`MemoryForgets`), and what can lock everybody out (`OnlyRivalsLockOut`)? `TypeOK` | 3 symmetric requests, every backend, key set or not |
| `list_service` | The answer to a search: `HitIsItself`, `LargerPageNotCleaner`, `ExactBlocks`, `BlockShowsExact`; the timetable: `OnTime`, `EveryDayOnce`, `CalendarAgrees` | feeds of 3, cut at 2, limits 1 and 3, 7 fits; four years, 3 settings of the hour, 2 starts |
| `screening_exact` (violated) | Is the flag set when the query is a name of the top hit, as `engine.rs:439-442` says? | as `list_service` |

**What they show.**

* `IndexedServed` is the central one. A refresh answered 200 without
  `index_error` promises that searches use the list it stored. That holds through
  crashes, warm boots, aborted requests whose operation is still queued, and
  updates that fail, until another process touches `csl.json` (the service's own seed and
  update included), *or until a disk error puts a copy apart*: an index write that fails
  and keeps the older index file, from which the next boot is warm; a reading whose stat
  fails, so that an empty list is indexed; a boot without a usable index that cannot read
  csl.json and starts on the empty list. The exception ends with the next engine that is
  built from a good reading.
* `OwnListServed` is what remains of "usable immediately, even offline"
  (`main.rs:58-60`): while csl.json is as the service itself left it, searches run on that
  list or on the one in the index file. That an index wins over a newer csl.json, even an
  index of an empty list over a freshly seeded one, is what the code does at every warm
  boot. Beyond a disk error it excepts replacements that overlap, which may publish the
  rival's list under the service's rename. A list that a *gateway* stores between `Load` and
  `Bind` is searched only once its Refresh has been served: one that comes before the bind
  finds nobody to call, and is answered with `index_error`.
* A replacement that reports failure may still have changed the file when it
  overlaps another one, and one that reports success may have published the
  other's bytes; the three `replace_overlap` properties are what remains true.
* A `.jsonl` file that is once unreadable stays so: then every decision is
  answered 404, the audit list and the queue 500, while searches go on being
  logged and answered 200.
* A workflow log that cannot be read silently shows decided events as pending
  again (`unwrap_or_default`), for good if it does not parse, for one event if a disk
  error hid it from that reading: the reason for the conditions in `QueueFresh` and
  `LaterRulingWins`. An audit log whose stat fails makes an empty queue, answered 200, and
  an empty page: the exceptions of `QueueComplete` and `NoneSkipped`.
* A session holds across requests and restarts of the host as long as the key
  file can be read and written and only one request ever found none. Two first
  requests at once may sign with two keys, and one of their sessions is refused
  from then on: `SessionsHold` names that exception (`founders`) and a disk that
  fails (`fault`).
* Two requests that seed `users.json` at once can leave a torn file, which is not
  seeded again while it can be seen: every login is answered 500. Without an overlap no
  failure, death or seeding over a table taken for missing damages it
  (`OnlyRivalsLockOut`); a login is then answered 500 only if the disk failed that very
  reading. A failed stat lets one login find no users, and a right password is answered
  401: the one exception of `RightPasswordTaken`.
* With the memory backend no session is of any use, unless the key is in the
  environment (`MemoryForgets`): the next request has another root directory and
  another key.
* `screening_exact`: of two entries with the same name on two lists only the first
  exact match of the BM25 order is remembered, before filters and limit. If the
  filter drops it, the other is the top hit, matches exactly, and is answered
  `pending-block`. What remains true: without filters or cuts the very name is
  blocked (`ExactBlocks`); whoever is blocked is blocked for an entry on the page
  (`BlockShowsExact`); and a larger page of the same search never looks cleaner.
* The update comes at 07:00 by the clock in force when the scheduler went to
  sleep (`OnTime`), so at 08:00 on the Sunday in March, and on the Sunday in
  November at 06:00 and then at 07:00 again: the one day with two updates
  (`EveryDayOnce`). `bootstrap.rs:77` and `:121` say "daily at 07:00 US Eastern".
* Leafing newest first while events arrive shows events twice but passes none
  over. Beyond an offset of 100000 every page is the same, so a client that leafs
  until a page is empty does not finish with a longer log.
* The gateway answers 400 when a fetched body does not parse and does not fall
  back to `seed.json`, contrary to `README.md:310`; the model has it (`Ingest`,
  `Refused`), no run is spent on it.

**Other places where words and code differ**, without a run of their own, since
the model has them and a property above states what holds instead:

* `auth.rs:13-16` and `README.md:25`, `:308` say that sessions do not survive a
  restart of the host; the key is on disk, and they do (`SessionsHold`).
* `docs/storage-backends.md:51` says that with the memory backend sessions stay
  valid "within a single boot" (`MemoryForgets`).
* `routes.rs:968` lists "events with an effective decision of pending-*"; the queue
  looks at the 500 newest events only (`QueueComplete` says so).
* `PLAN.md:500-503` turns the light red for any single hit of 0.95 and yellow for three
  of 0.6 on one list; the code looks at the similarity of the page's top hit only,
  which is the hit with the best blend (`Light`).
* `csl-ingest/src/lib.rs:150-153` "keeps every row distinct" by adding "#2"; a feed with
  "X", "X" and "X#2" gets "X#2" twice, and then a hit's tags are those of the last such row and
  its page is that of the first. The run meets such feeds, and `HitIsItself` excepts the
  hits of exactly these ids (`Clashes`).

**Bounds.** Three writers are the least with a victim, a rival and a bystander;
four documents let a stale temporary file differ from each. Two refreshes with
the service make three writers of `csl.json`. One crash suffices for each
property to meet one between any two steps; the proofs cover any number. The
window of the queue is 1 instead of 500: what matters is that it can be smaller
than what waits. `Decider` and `Search` are requests, each used once, which
bounds the logs. Three requests of `Session` are two that race for the key or the users and one
that comes back with a session of either. Its run leaves out `use`, a weaker
`manage`, and `logout`, which changes nothing. Feeds of three rows meet an id twice,
a row without an id, a row whose own id is one the code makes of the row number ("PLC-0") or
of a repetition ("PLC-0#2"), one without a name, and a cut at two; limits 1 and 3
lie on both sides of it. A search is taken once per engine, which remembers
nothing of it. The timetable covers four years from a leap January and a March evening,
with updates that end at once or take most of a day: every kind
of change of the clock, on either side of the sleep; a time far ahead is
compared with the calendar's rules by `CalendarAgrees`. Bounds in guards are
`MaxCrashes` and `Horizon`, and the feed's `FeedSize` in `Ingest`.

**Deadlock** is checked for `AtomicReplace` and `ReplaceHistory`. The others end:
requests are used once, the service may stop, the timetable ends at its horizon.

**Fairness** (`Corpus!FairSpec`). Weak fairness of a request's own steps (an
instance runs to its answer unless it is dropped), of the service's steps and of
`Boot` (the host restarts it, README.md "SPOF until it's restarted"). Strong
fairness of `Refresh(r)`: the service is idle again and again, and the executor's
accept loop takes connections in turn; and of `Updater`, since `zip` polls both
futures. Nothing is assumed of the outside: fetches, writes and renames may fail
for ever, and `RefreshAnswered` holds regardless. `UpdateHeals` has its own
hypothesis, `Recovery`: updates that are tried infinitely often infinitely often
get through. A fetch that never ends (there is no timeout) is outside it. A service that
stays silent for ever, which would hold a gateway for ever too (its deadline is looked at only
between two reads), is excluded by the fairness of the service.

## 4. What is proved

For every value of the constants, from the named assumptions in the modules.

* `ReplaceProofs`: `TypeCorrect`; under `Serial = TRUE`, `SerialNeverPartial` and
  the refinement `SerialImplements`. Inductive invariant: at most one writer is
  busy, its descriptor is on the temporary file, which holds its whole document
  once it is written, and `live` is whole. `LoserHasWinnerHolds` needs no
  serialisation: a busy writer whose file has gone has `rival = "published"`.
  Neither do `SoloReplaceTakesHolds` and `OnlyRivalsTearHolds`: they say of one
  writer what the serial invariant says of all, for as long as it meets no rival
  (`Undisturbed`).
* `FilterProofs`: what `Keep` returns, on which the proofs about logs, queue, ingest and
  search rest: its members come from the places of the sequence that hold members of
  the set, in their order and all of them (`KeepPlaces`), appending and filtering twice
  are as expected (`KeepAppend`, `KeepKeep`), what is last stays last (`KeepLast`) and what is
  `n` places from the end stays within `n` (`KeepRest`). The library's induction
  theorems take an operator, which the provers cannot instantiate; induction is on
  *sets* of numbers and of sequences instead (`NumberInduction`,
  `SequenceInduction`), from the least number principle of `WellFoundedInduction`.
* `LogProofs`: `LogImplementsLedger`, the refinement: `records` is what `read_jsonl` returns,
  `whole` whether it does, `acked` those told Ok; writing a line adds a record, and
  everything else is a stutter, damage or an acknowledgement. `LogTyped`, `AckedKeptHolds`, `DamageLastsHolds`. The text only
  grows at its end; a line stands in one place from its write on; a spoiled line
  keeps its neighbours. `OnlyStopsDamageHolds`: as long as appends stay apart and
  none is stopped, the text is readable and ends in a newline, except for the
  line of the append under way (`Orderly`). `NoneSkippedHolds`: an event the client has
  not been sent is still `offset` places or more from the newest, counted so that what is
  appended meanwhile only moves it back (`Ahead`, in `PageInv`).
* `CorpusProofs`: `Inductive`, `TypeCorrect`, `IndexedServedHolds`. `IndexedServed`
  is not inductive: before the answer there is the operation on the wire, and
  before that the engine under construction. `InStep` says that while `r` was the
  last to touch the file, an engine built for it is built from `live`; that once
  it has been served (`Settled`) any engine under construction is, that the cache
  is then `live`'s index or unusable, and that the engine is `live` from `Load` on; each
  of a copy that is not astray. `Phases` ties a request's
  progress to its writing and its operation. The proof first shows what each step
  of `write_atomic` does for its caller (`BeginStore`, `GoesOnStore`, ...: the
  variables stay typed and only the caller's mark goes with a change), so that
  the cases of `Next` need not look inside the file.
  `OnlyStoredServedHolds`: while no replacements have overlapped, the temporary file is the one writer's
  (`OneWriter`), so what a rename publishes is a whole list; every copy of a list,
  in the engine, in the cache, under construction, has been in the file
  (`CopiesStored`). `OwnListServedHolds` needs of the same invariant that the service
  publishes its own document, and that while its list is in the file an engine is built
  from it or loaded from the index that is there (`OwnInStep`). `CorpusUsesFile`: the whole system, seen at
  `csl.json`, is `AtomicReplace` (`Spec => File!RSpec`), so nothing but `write_atomic`
  by several writers happens to that file.
* `ReviewProofs`: `AnsweredAuditedHolds` and `DecisionsGroundedHolds`. An event is in
  the log from the write of its line on (`Recorded`), and logs only grow; whoever
  has found its event goes on to write, and nobody else writes (`Grounded`).
  `ReviewTyped`, `LaterRulingWinsHolds`, `QueueFreshHolds`, `QueueCompleteHolds`: a decision
  is in the log before it is acknowledged, after those it came after (`Wrote`,
  `InOrder`), so the last one in the log is not an older one; of what waited, each
  event is listed, yet to be looked at, or has a window of newer ones behind it (`Reached`);
  `QInv` is their conjunction. `ReviewUsesLogs`: each log of the system is an `AppendLog`.
* `SessionProofs`: `SessionInductive`, `SessionTyped`, `SessionsHoldTheorem`,
  `RightPasswordTakenTheorem`, `MemoryForgetsTheorem`. With a disk that works and at
  most one founder, the key file once whole is the founder's and every key held
  is that of the environment or of the file; a request that has come up has found or
  left a `users.json`, which never goes away again. `OnlyRivalsLockOutTheorem`: while
  seedings do not overlap, one request at most is at the temporary file, what a rename
  publishes is its whole table, and the table is whole whenever it is there
  (`SeedsApart`, in `ApartInv`). `SessionUsesFile`: all that happens to
  `users.json` is `AtomicReplace`.
* `ScheduleProofs`: `SleepBounds`, `OnTimeTheorem`, `NthSundayIsSunday`,
  `EveryDayOnceTheorem`, `CalendarTheorem`, `CalendarSteps`: for every start, every hour
  and every horizon, from an assumption on the length of updates. The calendar helpers
  are compared with one closed form, the day number of a year's first of March
  (`March`): `days_from_civil` is `March` plus a day of the year, `civil_from_days` finds
  the year between whose `March` and the next the day lies (`MarchYear`), century by
  century and leap year by leap year, and so each day's date is the successor of the
  day's before. From the closed form it follows too that the Sundays of the two changes
  are at least half a year apart and that the clock goes back once a year; the
  inductive invariant `TInv` adds to `EveryDayOnce` when the scheduler went to sleep and when
  the last update began.
* `ScreeningProofs`: `HitIsItselfHolds`, `ExactBlocksHolds`, `BlockShowsExactHolds`,
  `LargerPageNotCleanerHolds`: for any list, query, filters, limit and order of the candidates.
  Ids made of the same raw id differ by their count; those made of different ones differ
  as these do, and one made for a row is another's only if that row brings it
  along (`EntryIdsDiffer`); the sort loses and adds nothing (`Sorted`), for of two
  places one is in front of the other and has fewer in front of it (`BeforeLess`); a page is the
  beginning of what is shown (`CutIs`), which does not depend on the limit. `SInv` says that
  ids tell the entries apart and that the candidates are in `order`, each once.

The assumptions say that the marks the models use (`"absent"`, `Unset`, `"none"`)
are no values of the constants, and that numbers are numbers; `ScheduleAssumption`
also says that an update, the change of the clock and a late sleep together take less
than a day.

Every safety property that a passing run checks is a theorem. Only model-checked:
liveness (`RefreshAnswered`, `UpdateHeals`), which rests on fairness and is out of the
prover's reach; and the three runs that find a violation, whose counterexamples are
their proof. Where a proof says less than one might read into it: `EveryDayOnce` takes the
clock as the code computes it, and `CalendarAgrees` is what compares that clock with the rules.

## 5. What is not modelled

The contents of entries, hits and events, except what a property tells apart; the
wording of errors; hashing and signatures, which are taken to do their work (a
session lasts as long as the browser keeps it); tokens, similarity and phonetics,
whose result is a record's fit; `autocomplete`, `stats`, `metrics` and `audit_get`,
which only read; the maps of `storage-memory`, which live for one request; HTTP
and TCP framing, and with them the decoding of paths; the static bundle staged at
boot; the UI, vendored interfaces, scripts and manifests. A line so long that `write_all`
needs several write calls may be seen half-written by a reader that comes in between; only
lines that are stopped there for good (`"cut"`) are in the model. Durability below
`sync_data` (a power failure that undoes a rename) is not modelled either: a death
keeps what the calls before it did. Disk errors are modelled at every write, and at the
readings of csl.json, seed.json, the index (`Corpus`), `users.json`, `session.key` (`Session`) and the
two logs (`Review`, `LogPages`).

## 6. Plan

Done:

1. `WholeFile`, `AtomicReplace`, `ReplaceHistory` and their proofs.
2. `Corpus`, its safety and liveness, its invariants proved.
3. `Ledger`, `AppendLog`, `LogHistory`, `LogPages` and proofs.
4. `Review`, and proofs of what searches and decisions rest on.
5. `Session` and its proofs.
6. `Screening`: ingest, search, decision.
7. `Schedule` and its proofs, the calendar's arithmetic included.
8. `Filter`: proofs of what filters logs and lists, and with it of the queue, the overlay, the
   paging and the screening; each composed module shown to use its files as
   `AtomicReplace` and `AppendLog` say.

Left:

9. `Protocol`: the service's connections, one at a time, the client's deadline
   between two reads, and the reading operations, composed with `Corpus`.

Steps 6 and 7 share one run, `list_service`, as nothing in one looks at the other:
a behaviour is a list and a search, or a timetable.
