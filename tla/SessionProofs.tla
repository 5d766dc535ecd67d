---------------------------- MODULE SessionProofs ----------------------------
(***************************************************************************)
(* Session: type correctness, what becomes of sessions and passwords, and  *)
(* who can spoil the user table, for any number of requests.               *)
(***************************************************************************)
EXTENDS Session, TLAPS

(* The user table's variables have their types, and whoever replaces the table
   has users to put there. *)
UsersTyped ==
  /\ Users!RTypeOK
  /\ \A w \in Request : ustep[w] # "idle" => udoc[w] = "seed"

(* A step of write_atomic keeps that, and never makes the file go away once it
   is there. *)
LEMMA UsersStep ==
  ASSUME UsersTyped, NEW r \in Request,
         \/ Users!Create(r, "seed")
         \/ Users!Write(r) \/ Users!WriteFails(r)
         \/ Users!Rename(r) \/ Users!RenameFails(r)
         \/ Users!Die(r)
  PROVE  /\ UsersTyped'
         /\ users # "absent" => users' # "absent"
         /\ Users!Rename(r) => users' # "absent"
<1> USE DEF UsersTyped, Users!RTypeOK, Users!Content, Users!Partial
<1>1. CASE Users!Create(r, "seed")
  BY <1>1 DEF Users!Create, Users!Rename, Users!Busy
<1>2. CASE Users!Write(r)
  BY <1>2 DEF Users!Write, Users!Put, Users!Landed, Users!Rename
<1>3. CASE Users!WriteFails(r)
  BY <1>3 DEF Users!WriteFails, Users!Put, Users!Return, Users!Rename
<1>4. CASE Users!Rename(r)
  <2>1. users' = utmp /\ utmp' = "absent" /\ users' # "absent"
    BY <1>4 DEF Users!Rename
  <2>2. ufd' \in [Request -> {"none", "tmp", "live", "gone"}]
    BY <1>4 DEF Users!Rename, Users!Moved
  <2>3. /\ ustep' \in [Request -> {"idle", "open", "closed"}]
        /\ udoc' \in [Request -> {"seed"} \cup {"nothing"}]
        /\ \A w \in Request : ustep'[w] # "idle" => udoc'[w] = "seed"
    BY <1>4 DEF Users!Rename, Users!Return
  <2> QED BY <2>1, <2>2, <2>3
<1>5. CASE Users!RenameFails(r)
  BY <1>5 DEF Users!RenameFails, Users!Return, Users!Rename
<1>6. CASE Users!Die(r)
  BY <1>6 DEF Users!Die, Users!Return, Users!Rename
<1> QED BY <1>1, <1>2, <1>3, <1>4, <1>5, <1>6

Statuses == {"200", "401", "403", "500"}    \* answers of an instance that came up

(* Types of the rest, and what every request goes by: a request that was
   answered is done, one that came up has a key, and there is a user table by
   then; a session was handed out by a login that was answered. *)
Typed ==
  /\ backend \in {"jsonfs", "memory", "invalid"} /\ keyed \in BOOLEAN
  /\ keyfile \in Request \cup {"absent", "blank"}
  /\ at \in [Request -> {"new", "unseeded", "seeding", "unkeyed", "making", "writing",
                         "ready", "done"}]
  /\ key \in [Request -> Request \cup {"none", "env"}]
  /\ ask \in [Request -> Login \cup Other]
  /\ cookie \in [Request -> Request \cup {"none"}]
  /\ reply \in [Request -> Statuses \cup {"none", "503", "lost"}]
  /\ founders \subseteq Request /\ fault \in BOOLEAN
  /\ overlap \in BOOLEAN /\ misread \subseteq Request

Up == {"unkeyed", "making", "writing", "ready"}

(* Whoever has got past the seeding has a table of users. *)
Seeded == \A r \in Request : at[r] \in Up => backend = "memory" \/ users # "absent"

(* Answers come last, keys before answers, cookies from others' answers. *)
Ordered == \A r \in Request :
  /\ reply[r] # "none" => at[r] = "done"
  /\ at[r] = "ready" => key[r] # "none"
  /\ reply[r] \in Statuses => key[r] # "none"
  /\ cookie[r] # "none" => cookie[r] \in Issued /\ cookie[r] # r

(* Keys come from the environment or, the disk being right, from who looked for
   one before there was one. *)
KeysFound ==
  backend = "jsonfs" /\ ~fault =>
    /\ keyfile \in founders \cup {"absent", "blank"}
    /\ \A r \in Request :
         /\ key[r] \in founders \cup {"none", "env"}
         /\ key[r] # "none" => (key[r] = "env" <=> keyed)
         /\ at[r] \in {"making", "writing"} => r \in founders /\ ~keyed

(* The key of a request to a memory backend is its own. *)
KeysOwn ==
  backend = "memory" /\ ~keyed => \A r \in Request : key[r] \in {"none", r}

(* Only a session signed with another key is refused. *)
RefusedFairly ==
  \A r \in Request : Refused(r) => key[cookie[r]] # key[r]

IInv ==
  /\ UsersTyped /\ Typed /\ Seeded /\ Ordered /\ KeysFound
  /\ KeysOwn /\ RefusedFairly /\ RightPasswordTaken /\ MemoryForgets

LEMMA InitIInv == Init => IInv
<1> SUFFICES ASSUME Init PROVE IInv
  OBVIOUS
<1> USE SessionAssumption DEF Init
<1>1. UsersTyped
  BY DEF UsersTyped, Users!RInit, Users!RTypeOK, Users!Content
<1>2. Typed
  BY DEF Typed, Backend, Login, Other
<1>3. Seeded /\ Ordered /\ KeysFound
  BY DEF Seeded, Up, Ordered, Statuses, KeysFound
<1>4. RefusedFairly /\ RightPasswordTaken
  BY DEF RefusedFairly, Refused, RightPasswordTaken
<1>5. KeysOwn /\ MemoryForgets
  BY DEF KeysOwn, MemoryForgets
<1> QED BY <1>1, <1>2, <1>3, <1>4, <1>5 DEF IInv

(* Each action keeps the invariant. *)
LEMMA ArriveKeeps ==
  ASSUME IInv, NEW r \in Request, NEW a \in Purpose, NEW c \in Issued \cup {"none"},
         Arrive(r, a, c)
  PROVE  IInv'
<1> USE SessionAssumption DEF IInv, Arrive, Goes, Answer, deployvars, uservars
<1>1. UsersTyped'
  BY DEF UsersTyped, Users!RTypeOK, Users!Content
<1>0. founders' = founders /\ fault' = fault /\ overlap' = overlap /\ misread' = misread
  BY DEF history
<1>2. Typed'
  <2>1. /\ backend' = backend /\ keyed' = keyed /\ keyfile' = keyfile /\ key' = key
        /\ founders' \subseteq Request /\ misread' \subseteq Request
    BY <1>0 DEF Typed
  <2>2. /\ backend' \in {"jsonfs", "memory", "invalid"}
        /\ keyfile' \in Request \cup {"absent", "blank"}
        /\ key' \in [Request -> Request \cup {"none", "env"}]
    BY <2>1 DEF Typed
  <2>3. /\ at' \in [Request -> {"new", "unseeded", "seeding", "unkeyed", "making", "writing",
                                "ready", "done"}]
        /\ ask' \in [Request -> Login \cup Other]
        /\ cookie' \in [Request -> Request \cup {"none"}]
        /\ reply' \in [Request -> Statuses \cup {"none", "503", "lost"}]
    BY DEF Typed, Statuses, Issued
  <2>4. keyed' \in BOOLEAN /\ fault' \in BOOLEAN /\ overlap' \in BOOLEAN
    BY <1>0, <2>1, Zenon DEF Typed
  <2> QED BY Zenon, <2>1, <2>2, <2>3, <2>4 DEF Typed
<1>3. Seeded'
  BY DEF Seeded, Up, Typed
<1>4. reply[r] = "none" /\ \A q \in Request \ {r} : ask'[q] = ask[q] /\ reply'[q] = reply[q]
  BY DEF Ordered, Typed
<1>5. Issued \subseteq Issued' /\ r \notin Issued
  BY <1>4 DEF Issued
<1>6. Ordered'
  BY <1>4, <1>5 DEF Ordered, Typed, Statuses
<1>7. KeysFound'
  BY <1>0 DEF KeysFound, Typed
<1>8. RefusedFairly' /\ RightPasswordTaken'
  BY <1>0, <1>4 DEF RefusedFairly, Refused, RightPasswordTaken, Typed
<1>9. KeysOwn' /\ MemoryForgets'
  BY <1>4 DEF KeysOwn, MemoryForgets, Typed
<1> QED BY <1>1, <1>2, <1>3, <1>6, <1>7, <1>8, <1>9 DEF IInv

LEMMA SeedKeeps ==
  ASSUME IInv, NEW r \in Request, Seed(r)
  PROVE  IInv'
<1> USE SessionAssumption DEF IInv, Seed, Begin, Goes, Answer, deployvars, askvars
<1>1. UsersTyped' /\ (users # "absent" => users' # "absent")
  <2>1. CASE UNCHANGED uservars
    BY <2>1 DEF uservars, UsersTyped, Users!RTypeOK, Users!Content
  <2>2. CASE ~UNCHANGED uservars
    BY <2>2, UsersStep
  <2> QED BY <2>1, <2>2
<1>2. Typed'
  BY DEF Typed, Statuses
<1>3. Seeded'
  <2>1. at' = [at EXCEPT ![r] = "unkeyed"] => users' # "absent"
    BY UsersStep DEF Typed
  <2> QED BY <1>1, <2>1 DEF Seeded, Up, Typed
<1>4. /\ at[r] \in {"unseeded", "seeding"} /\ reply[r] = "none"
      /\ at'[r] \notin {"making", "writing", "ready"}
      /\ reply'[r] \notin Statuses /\ (reply'[r] # "none" => at'[r] = "done")
  BY DEF Ordered, Typed, Statuses
<1>5. \A q \in Request \ {r} : at'[q] = at[q] /\ reply'[q] = reply[q]
  BY DEF Typed
<1>6. Ordered'
  <2>1. Issued' = Issued
    BY <1>4, <1>5 DEF Issued, Statuses
  <2> QED BY <1>4, <1>5, <2>1 DEF Ordered, Typed, Statuses
<1>7. KeysFound'
  BY <1>4, <1>5 DEF KeysFound
<1>8. RefusedFairly' /\ RightPasswordTaken'
  BY <1>4, <1>5 DEF RefusedFairly, Refused, RightPasswordTaken, Statuses
<1>9. KeysOwn' /\ MemoryForgets'
  BY <1>4, <1>5 DEF KeysOwn, MemoryForgets, Statuses
<1> QED BY <1>1, <1>2, <1>3, <1>6, <1>7, <1>8, <1>9 DEF IInv

LEMMA KeyKeeps ==
  ASSUME IInv, NEW r \in Request, LoadKey(r) \/ KeyUnread(r) \/ MakeKey(r)
  PROVE  IInv'
<1> USE SessionAssumption DEF IInv, Goes, Holds, deployvars, uservars, askvars
<1>1. /\ at[r] \in {"unkeyed", "making", "writing"}
      /\ at'[r] \in {"making", "writing", "ready"}
      /\ \A q \in Request \ {r} : at'[q] = at[q] /\ key'[q] = key[q]
      /\ UNCHANGED <<backend, keyed, ask, cookie, reply, misread>> /\ UNCHANGED uservars
  BY DEF LoadKey, KeyUnread, MakeKey, Typed
<1>2. UsersTyped'
  BY <1>1 DEF UsersTyped, Users!RTypeOK, Users!Content
<1>3. Typed'
  <2>1. /\ keyfile' \in Request \cup {"absent", "blank"}
        /\ at' \in [Request -> {"new", "unseeded", "seeding", "unkeyed", "making", "writing",
                                "ready", "done"}]
    BY DEF LoadKey, KeyUnread, MakeKey, Typed
  <2>2. key' \in [Request -> Request \cup {"none", "env"}]
    BY DEF LoadKey, KeyUnread, MakeKey, Typed, Whole
  <2>3. founders' \subseteq Request
    BY DEF LoadKey, KeyUnread, MakeKey, Typed
  <2>4. fault' \in BOOLEAN
    BY Zenon DEF LoadKey, KeyUnread, MakeKey, Typed
  <2>5. overlap' = overlap
    BY DEF LoadKey, KeyUnread, MakeKey
  <2>6. overlap' \in BOOLEAN
    BY <2>5, Zenon DEF Typed
  <2>7. /\ backend' \in {"jsonfs", "memory", "invalid"} /\ ask' \in [Request -> Login \cup Other]
        /\ cookie' \in [Request -> Request \cup {"none"}] /\ misread' \subseteq Request
        /\ reply' \in [Request -> Statuses \cup {"none", "503", "lost"}]
    BY <1>1 DEF Typed
  <2>8. keyed' \in BOOLEAN
    BY <1>1, Zenon DEF Typed
  <2> QED BY Zenon, <2>1, <2>2, <2>3, <2>4, <2>6, <2>7, <2>8 DEF Typed
<1>4. Seeded'
  BY <1>1 DEF Seeded, Up
<1>5. reply[r] = "none" /\ (at'[r] = "ready" => key'[r] # "none")
  BY <1>1 DEF LoadKey, KeyUnread, MakeKey, Typed, Whole, Ordered
<1>6. Ordered'
  BY <1>1, <1>5 DEF Ordered, Issued, Statuses
<1>7. KeysFound'
  <2> SUFFICES ASSUME backend = "jsonfs", ~fault'
               PROVE  KeysFound'
    BY <1>1 DEF KeysFound
  <2>1. CASE LoadKey(r)
    BY <2>1 DEF LoadKey, KeysFound, Typed, Whole
  <2>2. CASE KeyUnread(r)
    BY <2>2 DEF KeyUnread
  <2>3. CASE MakeKey(r)
    BY <2>3 DEF MakeKey, KeysFound, Typed
  <2> QED BY <2>1, <2>2, <2>3
<1>8. RefusedFairly'
  BY <1>1, <1>5 DEF RefusedFairly, Refused, Ordered, Issued
<1>9. RightPasswordTaken' /\ MemoryForgets'
  BY <1>1 DEF RightPasswordTaken, MemoryForgets
<1>10. KeysOwn'
  <2> SUFFICES ASSUME backend = "memory", ~keyed
               PROVE  \A q \in Request : key'[q] \in {"none", q}
    BY <1>1 DEF KeysOwn
  <2>1. key'[r] \in {"none", r}
    BY DEF LoadKey, KeyUnread, MakeKey, KeysOwn, Typed
  <2> QED BY <1>1, <2>1 DEF KeysOwn
<1> QED BY <1>2, <1>3, <1>4, <1>6, <1>7, <1>8, <1>9, <1>10 DEF IInv

LEMMA DispatchKeeps ==
  ASSUME IInv, NEW r \in Request, Dispatch(r)
  PROVE  IInv'
<1> USE SessionAssumption DEF IInv, deployvars, uservars, askvars
<1>0. /\ at[r] = "ready" /\ at' = [at EXCEPT ![r] = "done"]
      /\ UNCHANGED <<backend, keyed, keyfile, key, ask, cookie, founders, fault, overlap>>
      /\ UNCHANGED uservars /\ misread \subseteq misread' /\ misread' \subseteq Request
  BY DEF Dispatch, Answer, Goes, Typed
<1>1. UsersTyped'
  BY <1>0 DEF UsersTyped, Users!RTypeOK, Users!Content
<1>a. PICK status \in Statuses :
        /\ reply' = [reply EXCEPT ![r] = status]
        /\ ask[r] \in Other => status = Authorized(r)
        /\ ask[r] \in Login \ {"wrong"} /\ status = "401" => r \in misread'
        /\ status = "401" /\ ask[r] \notin Login => ~Session(r)
  <2>1. CASE ask[r] \in Other /\ Answer(r, Authorized(r))
    BY <2>1 DEF Answer, Authorized, Statuses, Other, Login
  <2>2. CASE ask[r] \in Login /\ backend = "memory" /\ Answer(r, Verified(ask[r], "seed"))
    BY <2>2 DEF Answer, Verified, Statuses, Other, Login
  <2>3. CASE /\ ask[r] \in Login /\ backend # "memory"
             /\ \E table \in Readings :
                  /\ Answer(r, Verified(ask[r], table))
                  /\ misread' = IF table = Table THEN misread ELSE misread \cup {r}
    <3>1. PICK table \in Readings :
            /\ Answer(r, Verified(ask[r], table))
            /\ misread' = IF table = Table THEN misread ELSE misread \cup {r}
      BY <2>3
    <3>2. table = Table => table # "nobody"
      BY <2>3, <1>0 DEF Seeded, Up, Table
    <3>3. /\ Verified(ask[r], table) \in Statuses
          /\ Verified(ask[r], table) = "401" /\ ask[r] # "wrong" =>
               table \notin {"error", "seed"}
      BY DEF Verified, Statuses
    <3>4. table \in {"error", "seed", "nobody"}
      BY DEF Readings, Table
    <3>5. ask[r] \notin Other
      BY <2>3 DEF Login, Other
    <3> QED BY <2>3, <3>1, <3>2, <3>3, <3>4, <3>5 DEF Answer
  <2> QED BY <2>1, <2>2, <2>3 DEF Dispatch
<1>3. Typed'
  BY <1>0, <1>a DEF Typed
<1>4. Seeded'
  BY <1>0 DEF Seeded, Up, Typed
<1>5. /\ reply[r] = "none" /\ at'[r] = "done" /\ reply'[r] = status
      /\ \A q \in Request \ {r} : at'[q] = at[q] /\ reply'[q] = reply[q]
  BY <1>0, <1>a DEF Ordered, Typed
<1>6. Ordered'
  <2>1. Issued \subseteq Issued'
    BY <1>0, <1>5 DEF Issued
  <2> QED BY <1>0, <1>5, <2>1 DEF Ordered, Typed
<1>7. KeysFound'
  BY <1>0 DEF KeysFound, Typed
<1>8. RefusedFairly'
  <2>1. Refused(r)' => ~Session(r)
    BY <1>0, <1>5, <1>a DEF Refused, Login
  <2> QED BY <1>0, <1>5, <2>1 DEF RefusedFairly, Refused, Session
<1>9. RightPasswordTaken'
  BY <1>0, <1>5, <1>a DEF RightPasswordTaken
<1>10. MemoryForgets'
  <2>1. backend = "memory" /\ ~keyed => ~Session(r)
    BY <1>0 DEF Session, KeysOwn, Ordered, Issued, Statuses
  <2>2. ask[r] \in {"use", "manage"} /\ ~Session(r) => status = "401"
    BY <1>a DEF Authorized, Other
  <2> QED BY <1>0, <1>5, <2>1, <2>2 DEF MemoryForgets
<1>11. KeysOwn'
  BY <1>0 DEF KeysOwn
<1> QED BY <1>1, <1>3, <1>4, <1>6, <1>7, <1>8, <1>9, <1>10, <1>11 DEF IInv

LEMMA DiesKeeps ==
  ASSUME IInv, NEW r \in Request, Dies(r)
  PROVE  IInv'
<1> USE SessionAssumption DEF IInv, Dies, Works, Goes, Answer, deployvars, askvars
<1>1. UsersTyped' /\ (users # "absent" => users' # "absent")
  <2>1. CASE UNCHANGED uservars
    BY <2>1 DEF uservars, UsersTyped, Users!RTypeOK, Users!Content
  <2>2. CASE ~UNCHANGED uservars
    BY <2>2, UsersStep
  <2> QED BY <2>1, <2>2
<1>2. Typed'
  BY DEF Typed
<1>3. /\ reply[r] = "none" /\ at'[r] = "done" /\ reply'[r] = "lost"
      /\ \A q \in Request \ {r} : at'[q] = at[q] /\ reply'[q] = reply[q]
  BY DEF Ordered, Typed
<1>4. Seeded'
  BY <1>1, <1>3 DEF Seeded, Up
<1>5. Ordered'
  <2>1. Issued' = Issued
    BY <1>3 DEF Issued
  <2> QED BY <1>3, <2>1 DEF Ordered, Statuses
<1>6. KeysFound'
  BY <1>3 DEF KeysFound
<1>7. RefusedFairly' /\ RightPasswordTaken'
  BY <1>3 DEF RefusedFairly, Refused, RightPasswordTaken
<1>8. KeysOwn' /\ MemoryForgets'
  BY <1>3 DEF KeysOwn, MemoryForgets
<1> QED BY <1>1, <1>2, <1>4, <1>5, <1>6, <1>7, <1>8 DEF IInv

(* The invariant is inductive. *)
THEOREM SessionInductive == Spec => []IInv
<1>1. IInv /\ [Next]_vars => IInv'
  <2> SUFFICES ASSUME IInv, [Next]_vars PROVE IInv'
    OBVIOUS
  <2>1. CASE UNCHANGED vars
    <3>1. UsersTyped'
      BY <2>1 DEF IInv, vars, uservars, UsersTyped, Users!RTypeOK, Users!Content
    <3>2. Typed' /\ Seeded' /\ KeysFound'
      BY <2>1 DEF IInv, vars, deployvars, uservars, askvars, history, Typed, Seeded, KeysFound
    <3>3. Ordered' /\ RefusedFairly' /\ RightPasswordTaken'
      BY <2>1 DEF IInv, vars, deployvars, askvars, history, Ordered, Issued, RefusedFairly,
                  Refused, RightPasswordTaken
    <3>4. KeysOwn' /\ MemoryForgets'
      BY <2>1 DEF IInv, vars, deployvars, askvars, KeysOwn, MemoryForgets
    <3> QED BY <3>1, <3>2, <3>3, <3>4 DEF IInv
  <2>2. CASE Next
    <3>1. PICK r \in Request : Serve(r)
      BY <2>2 DEF Next
    <3> QED BY <3>1, ArriveKeeps, SeedKeeps, KeyKeeps, DispatchKeeps, DiesKeeps DEF Serve
  <2> QED BY <2>1, <2>2
<1> QED BY InitIInv, <1>1, PTL DEF Spec

(* Type correctness (TypeOK), for any number of requests. *)
THEOREM SessionTyped == Spec => []TypeOK
<1>1. IInv => TypeOK
  BY DEF IInv, UsersTyped, Typed, Ordered, Statuses, TypeOK
<1> QED BY SessionInductive, <1>1, PTL

(* A session that was handed out is taken, across restarts, while the disk is
   right and no two requests looked for a key before there was one. *)
THEOREM SessionsHoldTheorem == Spec => []SessionsHold
<1>1. IInv => SessionsHold
  <2> SUFFICES ASSUME IInv, backend = "jsonfs", ~fault, \A p, q \in founders : p = q,
                      NEW r \in Request, Refused(r)
               PROVE  FALSE
    BY DEF SessionsHold
  <2> DEFINE c == cookie[r]
  <2>1. c \in Request /\ reply[c] = "200" /\ reply[r] = "401"
    BY DEF IInv, Ordered, Refused, Issued
  <2>2. key[c] # "none" /\ key[r] # "none" /\ key[c] # key[r]
    BY <2>1 DEF IInv, Ordered, Statuses, RefusedFairly
  <2>3. key[c] \in founders \cup {"env"} /\ key[r] \in founders \cup {"env"}
    BY <2>1, <2>2 DEF IInv, KeysFound
  <2>4. key[c] = "env" <=> key[r] = "env"
    BY <2>1, <2>2 DEF IInv, KeysFound
  <2> QED BY <2>2, <2>3, <2>4
<1> QED BY SessionInductive, <1>1, PTL

(* A right password is refused as a wrong one only by a request that a disk error
   has misled about users.json. *)
THEOREM RightPasswordTakenTheorem == Spec => []RightPasswordTaken
<1>1. IInv => RightPasswordTaken
  BY DEF IInv
<1> QED BY SessionInductive, <1>1, PTL

(* With the memory backend and no key in the environment every request that
   needs a session is refused. *)
THEOREM MemoryForgetsTheorem == Spec => []MemoryForgets
<1>1. IInv => MemoryForgets
  BY DEF IInv
<1> QED BY SessionInductive, <1>1, PTL
-----------------------------------------------------------------------------
(* While no two requests have been at the user table at once, the temporary file is
   that of the one who is: so the table is whole whenever it is there, and who
   is answered 500 has not read it. *)
SeedsApart ==
  /\ users \in {"absent", "seed"}
  /\ \A p, q \in Request : Users!Busy(p) /\ Users!Busy(q) => p = q
  /\ \A w \in Request :
       /\ ustep[w] = "open" => ufd[w] = "tmp" /\ utmp = "blank"
       /\ ustep[w] = "closed" => utmp = "seed"
       /\ ustep[w] # "open" => ufd[w] = "none"
       /\ reply[w] = "500" => w \in misread

ApartInv == ~overlap => SeedsApart

LEMMA ApartInit == Init => ApartInv
BY DEF Init, Users!RInit, ApartInv, SeedsApart, Users!Busy

LEMMA ApartStep == IInv /\ ApartInv /\ [Next]_vars => ApartInv'
<1> SUFFICES ASSUME IInv, ApartInv, [Next]_vars, ~overlap' PROVE SeedsApart'
  BY DEF ApartInv
<1>0. ~overlap
  BY DEF Next, Serve, Arrive, Seed, Begin, LoadKey, KeyUnread, MakeKey, Dispatch, Dies, vars,
     history
<1>1. SeedsApart
  BY <1>0 DEF ApartInv
<1> USE <1>1 DEF SeedsApart, IInv, Typed, Users!Busy
<1>2. CASE UNCHANGED vars
  BY <1>2 DEF vars, uservars, history
<1>3. ASSUME NEW r \in Request, NEW a \in Purpose, NEW c \in Issued \cup {"none"},
             Arrive(r, a, c)
      PROVE  SeedsApart'
  BY <1>3 DEF Arrive, Answer, Goes, uservars, history
<1>4. ASSUME NEW r \in Request, Seed(r) PROVE SeedsApart'
  <2>1. UNCHANGED misread /\ \A w \in Request : reply'[w] = "500" => reply[w] = "500"
    BY <1>4 DEF Seed, Answer, Goes
  <2> USE <2>1 DEF UsersTyped, Users!RTypeOK
  <2>2. CASE Begin(r)
    <3>1. \A w \in Request \ {r} : ustep[w] = "idle"
      BY <2>2 DEF Begin
    <3> QED BY <2>2, <3>1 DEF Begin, Users!Create
  <2>3. CASE Users!Write(r)
    <3>1. ustep[r] = "open" /\ ufd[r] = "tmp" /\ utmp = "blank" /\ udoc[r] = "seed"
      BY <2>3 DEF Users!Write
    <3>2. \A w \in Request \ {r} : ustep[w] = "idle" /\ ufd[w] = "none"
      BY <3>1
    <3>3. Users!Landed(r, utmp) = {"seed"}
      BY <3>1, <3>2 DEF Users!Landed
    <3> QED BY <2>3, <3>1, <3>2, <3>3 DEF Users!Write, Users!Put
  <2>4. CASE Users!WriteFails(r)
    <3>1. ustep[r] = "open" /\ ufd[r] = "tmp"
      BY <2>4 DEF Users!WriteFails
    <3>2. \A w \in Request \ {r} : ustep[w] = "idle" /\ ufd[w] = "none"
      BY <3>1
    <3> QED BY <2>4, <3>1, <3>2 DEF Users!WriteFails, Users!Put, Users!Return
  <2>5. CASE Users!Rename(r)
    <3>1. ustep[r] = "closed" /\ utmp = "seed"
      BY <2>5 DEF Users!Rename
    <3>2. \A w \in Request \ {r} : ustep[w] = "idle"
      BY <3>1
    <3>3. \A w \in Request : ufd[w] = "none"
      BY <3>1, <3>2
    <3> QED BY <2>5, <3>1, <3>2, <3>3 DEF Users!Rename, Users!Return, Users!Moved
  <2>6. CASE Users!RenameFails(r)
    BY <2>6 DEF Users!RenameFails, Users!Return
  <2>7. CASE UNCHANGED uservars
    BY <2>7 DEF uservars
  <2> QED BY <1>4, <2>2, <2>3, <2>4, <2>5, <2>6, <2>7 DEF Seed
<1>5. ASSUME NEW r \in Request, LoadKey(r) \/ KeyUnread(r) \/ MakeKey(r) PROVE SeedsApart'
  BY <1>5 DEF LoadKey, KeyUnread, MakeKey, Holds, Goes, uservars
<1>6. ASSUME NEW r \in Request, Dispatch(r) PROVE SeedsApart'
  <2>1. Table # "error"
    BY DEF Table
  <2>2. /\ UNCHANGED uservars /\ misread \subseteq misread'
        /\ reply' = [reply EXCEPT ![r] = reply'[r]]
    BY <1>6 DEF Dispatch, Answer, Goes
  <2>3. reply'[r] = "500" => r \in misread'
    <3>1. Authorized(r) # "500"
      BY DEF Authorized
    <3>2. \A table : Verified(ask[r], table) = "500" => table = "error"
      BY DEF Verified
    <3> QED BY <1>6, <2>1, <3>1, <3>2 DEF Dispatch, Answer, Goes
  <2> QED BY <2>2, <2>3 DEF uservars
<1>7. ASSUME NEW r \in Request, Dies(r) PROVE SeedsApart'
  <2>1. UNCHANGED misread /\ \A w \in Request : reply'[w] = "500" => reply[w] = "500"
    BY <1>7 DEF Dies, Answer, Goes
  <2>2. CASE UNCHANGED uservars
    BY <2>1, <2>2 DEF uservars
  <2>3. CASE Users!Die(r)
    BY <2>1, <2>3 DEF Users!Die, Users!Return, UsersTyped, Users!RTypeOK
  <2> QED BY <1>7, <2>2, <2>3 DEF Dies
<1> QED BY <1>2, <1>3, <1>4, <1>5, <1>6, <1>7 DEF Next, Serve

(* While no two seedings overlap, no failure, no death and no seeding over a table
   that was taken for missing damages the table, and no login is answered 500 but
   one that could not read it. *)
THEOREM OnlyRivalsLockOutTheorem == Spec => []OnlyRivalsLockOut
<1>1. ApartInv => OnlyRivalsLockOut
  BY DEF ApartInv, SeedsApart, OnlyRivalsLockOut, Users!Partial
<1> QED BY SessionInductive, ApartInit, ApartStep, <1>1, PTL DEF Spec
-----------------------------------------------------------------------------
LEMMA SessionStepsUsers == [Next]_vars => [Users!RNext]_(Users!rvars)
<1> SUFFICES ASSUME [Next]_vars PROVE [Users!RNext]_(Users!rvars)
  OBVIOUS
<1>a. UNCHANGED uservars => [Users!RNext]_(Users!rvars)
  BY DEF uservars, Users!rvars
<1>1. ASSUME NEW r \in Request, Seed(r) PROVE [Users!RNext]_(Users!rvars)
  BY <1>1, <1>a DEF Seed, Begin, Users!RNext
<1>2. ASSUME NEW r \in Request, Dies(r) PROVE [Users!RNext]_(Users!rvars)
  BY <1>2, <1>a DEF Dies, Users!RNext
<1>3. ASSUME NEW r \in Request,
             (\E a, c : Arrive(r, a, c)) \/ LoadKey(r) \/ KeyUnread(r) \/ MakeKey(r) \/ Dispatch(r)
      PROVE  [Users!RNext]_(Users!rvars)
  BY <1>3, <1>a DEF Arrive, LoadKey, KeyUnread, MakeKey, Dispatch
<1>4. ASSUME UNCHANGED vars PROVE [Users!RNext]_(Users!rvars)
  BY <1>4, <1>a DEF vars
<1> QED BY <1>1, <1>2, <1>3, <1>4 DEF Next, Serve

(* All that happens to users.json, instances that die included, is write_atomic
   by several writers. *)
THEOREM SessionUsesFile == Spec => Users!RSpec
<1>1. Init => Users!RInit
  BY DEF Init
<1> QED BY <1>1, SessionStepsUsers, PTL DEF Spec, Users!RSpec
=============================================================================
