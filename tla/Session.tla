------------------------------- MODULE Session -------------------------------
(***************************************************************************)
(* Sessions of the gateway: startup (state.rs), the signing key (auth.rs), *)
(* the user table (storage-jsonfs, storage-memory) and the middleware,     *)
(* login and logout of routes.rs.  Every request runs in an instance of    *)
(* its own, so every request starts up: it seeds users.json if there is    *)
(* none, finds or makes the signing key, and only then is dispatched.      *)
(* users.json is replaced by write_atomic (AtomicReplace); session.key is  *)
(* written in place.  A key, and the session signed with it, is named by   *)
(* the request that made it; HMAC and Argon2 are taken to do their work.   *)
(***************************************************************************)

CONSTANTS
  Request,    \* HTTP requests, each an instance of the gateway
  Purpose     \* what they ask for, a part of Login \cup Other

Login == {"admin", "compliance", "wrong"}   \* whose password, if anybody's
Other == {"use", "manage", "logout"}        \* any session, an admin's, none

ASSUME SessionAssumption ==
  /\ Purpose \subseteq Login \cup Other
  /\ Request \cap {"absent", "blank", "none", "env"} = {}

VARIABLES
  backend, keyed,                  \* the deployment: see Init
  users, utmp, ufd, ustep, udoc,   \* users.json: see AtomicReplace
  keyfile,    \* session.key: "absent", "blank" (under 16 bytes) or its maker
  at,         \* at[r]: where r's instance is
  key,        \* key[r]: the key its signer holds
  ask,        \* ask[r]: what r asks for
  cookie,     \* cookie[r]: the login whose session r presents
  reply,      \* reply[r]: its answer
  founders, fault, overlap, misread   \* history: see Init

Users == INSTANCE AtomicReplace WITH
  Writer <- Request, Data <- {"seed"}, Serial <- FALSE,
  live <- users, tmp <- utmp, fd <- ufd, step <- ustep, doc <- udoc

deployvars == <<backend, keyed>>
uservars == <<users, utmp, ufd, ustep, udoc>>
askvars == <<ask, cookie>>
history == <<founders, fault, overlap, misread>>
vars == <<deployvars, uservars, keyfile, at, key, askvars, reply, history>>

(* parse_storage_backend, over the forms of STORAGE_BACKEND it tells apart. *)
Backend(raw) ==
  CASE raw \in {"unset", "jsonfs:<dir>"} -> "jsonfs"
    [] raw \in {"memory", "memory:"} -> "memory"
    [] OTHER -> "invalid"    \* "jsonfs:", "sqlite:...", "turso:...", the rest

Init ==
  /\ backend \in {Backend(raw) : raw \in {"unset", "memory:", "jsonfs:"}}
  /\ keyed \in BOOLEAN    \* SESSION_SIGNING_KEY is set, and not empty
  /\ Users!RInit
  /\ keyfile = "absent"
  /\ at = [r \in Request |-> "new"]
  /\ key = [r \in Request |-> "none"]
  /\ ask = [r \in Request |-> "logout"]
  /\ cookie = [r \in Request |-> "none"]
  /\ reply = [r \in Request |-> "none"]
  /\ founders = {}     \* who looked for a key before the file held one
  /\ fault = FALSE     \* session.key could not be read or written once
  /\ overlap = FALSE   \* two requests were replacing users.json at once
  /\ misread = {}      \* whose login did not read what users.json holds

Goes(r, to) == at' = [at EXCEPT ![r] = to]

(* The answer ends the instance. *)
Answer(r, status) ==
  /\ Goes(r, "done")
  /\ reply' = [reply EXCEPT ![r] = status]

(* A session is handed out with the answer to a login. *)
Issued == {r \in Request : ask[r] \in Login /\ reply[r] = "200"}

Works(r) == at[r] \notin {"new", "done"}
-----------------------------------------------------------------------------
(* handle, and startup up to "is there a users.json": no instance comes up with
   an invalid backend or a root that cannot be opened; a memory backend is new
   and seeds itself.  A table whose stat fails counts as missing. *)
Arrive(r, a, c) ==
  /\ at[r] = "new"
  /\ ask' = [ask EXCEPT ![r] = a]
  /\ cookie' = [cookie EXCEPT ![r] = c]
  /\ \/ backend # "memory" /\ Answer(r, "503")
     \/ backend = "jsonfs" /\ Goes(r, "unseeded") /\ UNCHANGED reply
     \/ /\ backend = "memory" \/ (backend = "jsonfs" /\ users # "absent")
        /\ Goes(r, "unkeyed") /\ UNCHANGED reply
  /\ UNCHANGED <<deployvars, uservars, keyfile, key, history>>

(* File::create of the users' temporary file; history: is anybody else at it? *)
Begin(r) ==
  /\ Users!Create(r, "seed")
  /\ overlap' = (overlap \/ \E q \in Request \ {r} : Users!Busy(q))

(* Mutant of Seed: a failed seed is ignored. *)
SeedAnyway(r) ==
  /\ \/ at[r] = "unseeded" /\ Begin(r) /\ Goes(r, "seeding")
     \/ /\ UNCHANGED overlap
        /\ \/ at[r] = "seeding" /\ Users!Write(r) /\ UNCHANGED at
           \/ at[r] = "seeding" /\ Users!Rename(r) /\ Goes(r, "unkeyed")
           \/ /\ at[r] = "seeding" /\ Goes(r, "unkeyed")
              /\ Users!WriteFails(r) \/ Users!RenameFails(r)
           \/ at[r] = "unseeded" /\ Goes(r, "unkeyed") /\ UNCHANGED uservars
  /\ UNCHANGED <<deployvars, keyfile, key, askvars, reply, founders, fault, misread>>

(* Mutant of Seed: the errors of the write itself are dropped. *)
SeedUnseen(r) ==
  /\ \/ at[r] = "unseeded" /\ Begin(r) /\ Goes(r, "seeding") /\ UNCHANGED reply
     \/ /\ UNCHANGED overlap
        /\ \/ at[r] = "seeding" /\ Users!Write(r) /\ UNCHANGED <<at, reply>>
           \/ at[r] = "seeding" /\ Users!WriteFailsUnseen(r) /\ UNCHANGED <<at, reply>>
           \/ at[r] = "seeding" /\ Users!Rename(r) /\ Goes(r, "unkeyed") /\ UNCHANGED reply
           \/ at[r] = "seeding" /\ Users!RenameFails(r) /\ Answer(r, "503")
           \/ at[r] = "unseeded" /\ Answer(r, "503") /\ UNCHANGED uservars
  /\ UNCHANGED <<deployvars, keyfile, key, askvars, founders, fault, misread>>

(* users_seed_if_empty: hash the two passwords, then write_atomic, over whatever is
   there; an error ends the request. *)
Seed(r) ==
  /\ \/ at[r] = "unseeded" /\ Begin(r) /\ Goes(r, "seeding") /\ UNCHANGED reply
     \/ /\ UNCHANGED overlap
        /\ \/ at[r] = "seeding" /\ Users!Write(r) /\ UNCHANGED <<at, reply>>
           \/ at[r] = "seeding" /\ Users!Rename(r) /\ Goes(r, "unkeyed") /\ UNCHANGED reply
           \/ /\ at[r] = "seeding" /\ Answer(r, "503")
              /\ Users!WriteFails(r) \/ Users!RenameFails(r)
           \/ at[r] = "unseeded" /\ Answer(r, "503") /\ UNCHANGED uservars
  /\ UNCHANGED <<deployvars, keyfile, key, askvars, founders, fault, misread>>
-----------------------------------------------------------------------------
Holds(r, k) == key' = [key EXCEPT ![r] = k] /\ Goes(r, "ready")

Whole == keyfile \in Request     \* at least 16 bytes

(* Mutant of LoadKey: the length of the key is not looked at. *)
LoadAnyKey(r) ==
  /\ at[r] = "unkeyed"
  /\ \/ keyed /\ Holds(r, "env") /\ UNCHANGED founders
     \/ /\ ~keyed /\ backend = "memory"
        /\ Holds(r, r) /\ UNCHANGED founders
     \/ /\ ~keyed /\ backend = "jsonfs" /\ keyfile # "absent"
        /\ Holds(r, keyfile) /\ UNCHANGED founders
     \/ /\ ~keyed /\ backend = "jsonfs" /\ keyfile = "absent"
        /\ Goes(r, "making") /\ UNCHANGED key
        /\ founders' = founders \cup {r}
  /\ UNCHANGED <<deployvars, uservars, keyfile, askvars, reply, fault, overlap, misread>>

(* Mutant of LoadKey: every backend keeps its key under one root. *)
LoadSharedKey(r) ==
  /\ at[r] = "unkeyed"
  /\ \/ keyed /\ Holds(r, "env") /\ UNCHANGED founders
     \/ ~keyed /\ Whole /\ Holds(r, keyfile) /\ UNCHANGED founders
     \/ /\ ~keyed /\ ~Whole /\ Goes(r, "making") /\ UNCHANGED key
        /\ founders' = founders \cup {r}
  /\ UNCHANGED <<deployvars, uservars, keyfile, askvars, reply, fault, overlap, misread>>

(* from_env_or_keyfile: the environment's key, else the file's if it is there
   and long enough, else a new one.  The root of a memory backend is a new
   directory of its own (its name has the time in it), so its file is too. *)
LoadKey(r) ==
  /\ at[r] = "unkeyed"
  /\ \/ keyed /\ Holds(r, "env") /\ UNCHANGED founders
     \/ /\ ~keyed /\ backend = "memory"
        /\ Holds(r, r) /\ UNCHANGED founders
     \/ /\ ~keyed /\ backend = "jsonfs" /\ Whole
        /\ Holds(r, keyfile) /\ UNCHANGED founders
     \/ /\ ~keyed /\ backend = "jsonfs" /\ ~Whole
        /\ Goes(r, "making") /\ UNCHANGED key
        /\ founders' = founders \cup {r}
  /\ UNCHANGED <<deployvars, uservars, keyfile, askvars, reply, fault, overlap, misread>>

(* A key file that cannot be read is replaced like one that is not there. *)
KeyUnread(r) ==
  /\ at[r] = "unkeyed" /\ ~keyed /\ backend = "jsonfs" /\ Whole
  /\ Goes(r, "making") /\ fault' = TRUE
  /\ UNCHANGED <<deployvars, uservars, keyfile, key, askvars, reply, founders, overlap,
                 misread>>

(* Mutant of MakeKey: the new key is written but not held. *)
MakeKeyUnheld(r) ==
  /\ \/ at[r] = "making" /\ keyfile' = "blank" /\ Goes(r, "writing") /\ UNCHANGED fault
     \/ at[r] = "writing" /\ keyfile' = r /\ Goes(r, "ready") /\ UNCHANGED fault
     \/ /\ at[r] \in {"making", "writing"}
        /\ Goes(r, "ready") /\ fault' = TRUE /\ UNCHANGED keyfile
  /\ UNCHANGED <<deployvars, uservars, key, askvars, reply, founders, overlap,
                 misread>>

(* fs::write opens the file truncated, then writes: 32 bytes from the start,
   whoever else does the same.  The error is dropped, the key used. *)
MakeKey(r) ==
  /\ \/ /\ at[r] = "making"
        /\ keyfile' = "blank" /\ Goes(r, "writing") /\ UNCHANGED <<key, fault>>
     \/ at[r] = "writing" /\ keyfile' = r /\ Holds(r, r) /\ UNCHANGED fault
     \/ /\ at[r] \in {"making", "writing"}
        /\ Holds(r, r) /\ fault' = TRUE /\ UNCHANGED keyfile
  /\ UNCHANGED <<deployvars, uservars, askvars, reply, founders, overlap,
                 misread>>
-----------------------------------------------------------------------------
(* users_list: what is stored, and what one reading of it may return.  No file is
   nobody, and so is one whose stat fails; a file that does not parse is an error,
   and so is one that cannot be opened or read. *)
Table ==
  CASE users = "absent" -> "nobody" [] users = "seed" -> "seed" [] OTHER -> "error"

Readings == {Table, "nobody"} \cup (IF users = "absent" THEN {} ELSE {"error"})

(* users_verify, then issue.  The memory backend has the seeded users. *)
Verified(account, table) ==
  CASE table = "error" -> "500"
    [] table = "seed" /\ account # "wrong" -> "200"
    [] OTHER -> "401"

(* current_session: the cookie's signature verifies under the key held now. *)
Session(r) == cookie[r] # "none" /\ key[cookie[r]] = key[r]

Authorized(r) ==
  IF ask[r] = "logout" THEN "200"
  ELSE IF ~Session(r) THEN "401"
  ELSE IF ask[r] = "manage" /\ ask[cookie[r]] # "admin" THEN "403" ELSE "200"

(* dispatch: public routes, the session, the admin's routes. *)
Dispatch(r) ==
  /\ at[r] = "ready"
  /\ \/ ask[r] \in Other /\ Answer(r, Authorized(r)) /\ UNCHANGED misread
     \/ /\ ask[r] \in Login /\ backend = "memory"
        /\ Answer(r, Verified(ask[r], "seed")) /\ UNCHANGED misread
     \/ /\ ask[r] \in Login /\ backend # "memory"
        /\ \E table \in Readings :
             /\ Answer(r, Verified(ask[r], table))
             /\ misread' = IF table = Table THEN misread ELSE misread \cup {r}
  /\ UNCHANGED <<deployvars, uservars, keyfile, key, askvars, founders, fault, overlap>>

(* The instance, or the host, goes down. *)
Dies(r) ==
  /\ Works(r)
  /\ Answer(r, "lost")
  /\ IF ustep[r] = "idle" THEN UNCHANGED uservars ELSE Users!Die(r)
  /\ fault' = (fault \/ at[r] = "writing")
  /\ UNCHANGED <<deployvars, keyfile, key, askvars, founders, overlap, misread>>

Serve(r) ==
  \/ \E a \in Purpose : \E c \in Issued \cup {"none"} : Arrive(r, a, c)
  \/ Seed(r)
  \/ LoadKey(r) \/ KeyUnread(r) \/ MakeKey(r)
  \/ Dispatch(r)
  \/ Dies(r)

Next == \E r \in Request : Serve(r)

Spec == Init /\ [][Next]_vars
-----------------------------------------------------------------------------
(* Type invariant; an instance that serves holds a key. *)
TypeOK ==
  /\ backend \in {"jsonfs", "memory", "invalid"} /\ keyed \in BOOLEAN
  /\ Users!RTypeOK
  /\ keyfile \in Request \cup {"absent", "blank"}
  /\ at \in [Request -> {"new", "unseeded", "seeding", "unkeyed", "making", "writing",
                         "ready", "done"}]
  /\ key \in [Request -> Request \cup {"none", "env"}]
  /\ ask \in [Request -> Login \cup Other]
  /\ cookie \in [Request -> Request \cup {"none"}]
  /\ reply \in [Request ->
       {"none", "200", "401", "403", "500", "503", "lost"}]
  /\ founders \subseteq Request /\ fault \in BOOLEAN
  /\ overlap \in BOOLEAN /\ misread \subseteq Request
  /\ \A r \in Request : at[r] = "ready" => key[r] # "none"

Refused(r) == cookie[r] # "none" /\ ask[r] \in {"use", "manage"} /\ reply[r] = "401"

(* A session that was handed out is taken until the disk goes wrong, also across
   restarts of the host (auth.rs:51-53): unless two requests looked for a key
   before there was one.  A memory backend promises nothing. *)
SessionsHold ==
  backend = "jsonfs" /\ ~fault /\ (\A p, q \in founders : p = q)
    => \A r \in Request : ~Refused(r)

(* With the memory backend and no key in the environment no session is of any
   use: each request has another key. *)
MemoryForgets ==
  backend = "memory" /\ ~keyed =>
    \A r \in Request : ask[r] \in {"use", "manage"} => reply[r] # "200"

(* A right password is refused as a wrong one only if a disk error hides users.json
   from that very login: whoever gets as far as the login has found or left a user
   table, which never goes away again. *)
RightPasswordTaken ==
  \A r \in Request \ misread : ask[r] \in Login \ {"wrong"} => reply[r] # "401"

(* Only seedings that overlap can damage the user table; then every login is answered
   500, and no request seeds again unless a stat fails.  Without overlap the table
   stays whole through failures, deaths and seedings over a table that was taken for
   missing, and a login that is answered 500 could not read it. *)
OnlyRivalsLockOut ==
  ~overlap =>
    /\ users \notin Users!Partial
    /\ \A r \in Request : reply[r] = "500" => r \in misread
=============================================================================
