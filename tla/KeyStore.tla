------------------------------ MODULE KeyStore ------------------------------
(***************************************************************************)
(* The key table of la-keys and the request handlers that work on it.      *)
(*                                                                         *)
(* One server process owns one SQLite connection behind a FIFO             *)
(* tokio::sync::Mutex (db.rs).  A handler waits for the mutex, runs its    *)
(* statements one after the other without any .await and drops the guard   *)
(* when it returns (repo.rs).  Every statement autocommits: there is no    *)
(* transaction around the statements of one handler, so a failure or a     *)
(* crash between two of them leaves the first ones in the table.           *)
(*                                                                         *)
(* One action per statement of a handler, plus the arrival of a request,   *)
(* the grant of the mutex, a client that hangs up, the delivery (or loss)  *)
(* of the answer, the clock, a failing statement and a restart.            *)
(*                                                                         *)
(* Raw keys, their HMAC and their row are in bijection and are one         *)
(* element of Keys; a lineage_id is named by the first key of the lineage. *)
(* Names, prefixes, environments, created_at and revoked_at are left out.  *)
(***************************************************************************)
EXTENDS Integers, Sequences, FiniteSets, SequencesExt

CONSTANTS
    Keys,           \* the keys the generator may produce
    Principals,     \* user ids an admin token may name
    Users,          \* the principals that have a row in table users
    Scopes,         \* service:permission pairs
    Wildcards,      \* the scopes whose service is "*"
    ScopeLists,     \* the scope lists a create request may carry
    Requests,       \* concurrent requests
    Ops,            \* the endpoints in use
    MaxKeys,        \* Config.max_keys_per_user
    GraceHours,     \* Config.rotation_grace_hours, a u64
    HalfWord,       \* 2^63 in the code: from here on a u64 turns negative
    Representable,  \* the instants chrono can compute
    Readable,       \* the instants whose text parses back from the table
    MaxTime,        \* bound on the clock, in hours
    Faults,         \* whether statements fail, answers get lost, the process dies
    NoKey, NoUser, NoRequest, Null

ASSUME KeysAssumption == NoKey \notin Keys /\ IsFiniteSet(Keys)
ASSUME UsersAssumption == Users \subseteq Principals /\ NoUser \notin Principals
ASSUME ScopesAssumption ==
    IsFiniteSet(Scopes) /\ Wildcards \subseteq Scopes /\ ScopeLists \subseteq Seq(Scopes)
ASSUME RequestsAssumption == NoRequest \notin Requests
ASSUME OpsAssumption == Ops \subseteq {"create", "rotate", "revoke", "verify", "list"}
ASSUME NumbersAssumption ==
    /\ MaxKeys \in Nat /\ GraceHours \in Nat /\ HalfWord \in Nat /\ MaxTime \in Nat
    /\ Readable \subseteq Int /\ Representable \subseteq Int
    /\ Null \notin Int
ASSUME FaultsAssumption == Faults \in BOOLEAN

VARIABLES
    status,     \* api_keys.status; "none" while the row does not exist
    owner,      \* api_keys.user_id
    lineage,    \* api_keys.lineage_id
    expires,    \* api_keys.expires_at as the verifier reads it, or Null
    lastUsed,   \* api_keys.last_used_at, or Null
    scopes,     \* the key's rows in key_scopes
    now,        \* the wall clock, in hours
    lock,       \* the request that holds the connection's guard
    queue,      \* the requests waiting for it, in arrival order
    pc,         \* next step of each request
    job,        \* what each request asks for
    given,      \* the scopes the handler was given or has loaded
    todo,       \* those it still has to insert
    new,        \* the key the handler has inserted
    seen,       \* the status the handler read
    reply,      \* the handler's answer
    known       \* the raw keys clients have been told

table == <<status, owner, lineage, expires, lastUsed, scopes>>
locals == <<given, todo, new, seen>>
vars == <<table, now, lock, queue, pc, job, locals, reply, known>>

Statuses == {"none", "active", "deprecated", "revoked"}
Steps == {"count", "insert", "scopes", "load", "deprecate", "update",
          "lookup", "touch", "select"}
ReplyKinds == {"none", "bad_request", "conflict", "forbidden", "not_found",
               "internal", "created", "rotated", "revoked", "listed",
               "valid", "invalid"}

Job == [op: {"create", "rotate", "revoke", "verify", "list"},
        user: Principals \cup {NoUser}, key: Keys \cup {NoKey}, ask: Seq(Scopes)]
NoJob == [op |-> "verify", user |-> NoUser, key |-> NoKey, ask |-> <<>>]

Reply == [kind: ReplyKinds, keys: SUBSET Keys, scopes: SUBSET Scopes, seen: Statuses]
Said(kind) == [kind |-> kind, keys |-> {}, scopes |-> {}, seen |-> "none"]
Told(kind, k, S, st) == [kind |-> kind, keys |-> {k}, scopes |-> S, seen |-> st]

Init ==
    /\ status = [k \in Keys |-> "none"]
    /\ owner = [k \in Keys |-> NoUser]
    /\ lineage = [k \in Keys |-> NoKey]
    /\ expires = [k \in Keys |-> Null]
    /\ lastUsed = [k \in Keys |-> Null]
    /\ scopes = [k \in Keys |-> {}]
    /\ now = 0
    /\ lock = NoRequest
    /\ queue = <<>>
    /\ pc = [r \in Requests |-> "idle"]
    /\ job = [r \in Requests |-> NoJob]
    /\ given = [r \in Requests |-> {}]
    /\ todo = [r \in Requests |-> <<>>]
    /\ new = [r \in Requests |-> NoKey]
    /\ seen = [r \in Requests |-> "none"]
    /\ reply = [r \in Requests |-> Said("none")]
    /\ known = {}

-----------------------------------------------------------------------------
(* What the statements of repo.rs select and compute.  An operator whose   *)
(* comment begins "Seeded fault" is a wrong variant of the one after it,   *)
(* used only to show that a property notices the difference.               *)

Issued == {k \in Keys : status[k] # "none"}
Kin(k) == {j \in Issued : lineage[j] = lineage[k]}

(* the count of the keys WHERE user_id = ? AND status != 'revoked' *)
Counted(u) == {k \in Issued : owner[k] = u /\ status[k] # "revoked"}

(* Seeded fault: count > max_keys. *)
LimitOffByOne(u) == Cardinality(Counted(u)) > MaxKeys
LimitReached(u) == Cardinality(Counted(u)) >= MaxKeys

(* Seeded fault: a wildcard is let through. *)
AssignsAnything(ask) == TRUE
(* create_key refuses the service "*" in a request *)
Assignable(ask) == ToSet(ask) \cap Wildcards = {}

(* Seeded faults: scopes repeated by a join; no WHERE key_id = ?. *)
ListsTwice(k) == {l \o l : l \in SetToSeqs(scopes[k])}
ListsAll(k) == SetToSeqs(UNION {scopes[j] : j \in Keys})
(* load_scopes: the scopes of a key, in whatever order the index gives *)
Listings(k) == SetToSeqs(scopes[k])

(* Seeded faults: a deprecated key can be rotated once more; anyone can
   rotate a key. *)
RotatesDeprecated(k, u) == k \in Issued /\ owner[k] = u /\ status[k] # "revoked"
RotatesAnyones(k, u) == k \in Issued /\ status[k] = "active"
(* SELECT ... WHERE id = ? AND user_id = ? AND status = 'active' *)
Rotatable(k, u) == k \in Issued /\ owner[k] = u /\ status[k] = "active"

(* UPDATE ... WHERE id = ? AND user_id = ? AND status != 'revoked' *)
Revocable(k, u) == k \in Issued /\ owner[k] = u /\ status[k] # "revoked"

(* grace_hours as i64 *)
AsI64(h) == IF h < HalfWord THEN h ELSE h - 2 * HalfWord

(* now + Duration::hours(grace_hours as i64), written as RFC 3339 text; a
   text the verifier cannot parse counts as no expiry at all *)
GraceEnd == now + AsI64(GraceHours)
\* Seeded fault: a text that does not parse counts as long past.
StoresEpoch == IF GraceEnd \in Readable THEN GraceEnd ELSE 0
StoredExpiry == IF GraceEnd \in Readable THEN GraceEnd ELSE Null

(* Seeded faults: expires_at <= now; an hour of leeway. *)
ExpiresEarly(k) == status[k] = "deprecated" /\ expires[k] # Null /\ expires[k] <= now
ExpiresLate(k) == status[k] = "deprecated" /\ expires[k] # Null /\ expires[k] + 1 < now
Expired(k) == status[k] = "deprecated" /\ expires[k] # Null /\ expires[k] < now

(* Seeded fault: no status filter. *)
HitsAnyRow(k) == k \in Issued /\ ~Expired(k)
(* the lookup by hash, status IN ('active','deprecated'), and the expiry test *)
Usable(k) == k \in Issued /\ status[k] # "revoked" /\ ~Expired(k)

-----------------------------------------------------------------------------
(* Steps shared by the handlers *)

(* A step that keeps the guard and goes on at `step`. *)
Goto(r, step) ==
    /\ pc' = [pc EXCEPT ![r] = step]
    /\ UNCHANGED <<now, lock, queue, job, reply, known>>

(* The handler returns: the guard is dropped, its locals are gone. *)
Return(r, answer) ==
    /\ pc' = [pc EXCEPT ![r] = IF answer.kind = "none" THEN "idle" ELSE "replied"]
    /\ job' = [job EXCEPT ![r] = IF answer.kind = "none" THEN NoJob ELSE @]
    /\ reply' = [reply EXCEPT ![r] = answer]
    /\ lock' = NoRequest
    /\ given' = [given EXCEPT ![r] = {}]
    /\ todo' = [todo EXCEPT ![r] = <<>>]
    /\ new' = [new EXCEPT ![r] = NoKey]
    /\ seen' = [seen EXCEPT ![r] = "none"]
    /\ UNCHANGED <<now, queue, known>>

\* Seeded fault: foreign keys are not enforced.
RefersToAnyone(u) == TRUE
(* user_id TEXT NOT NULL REFERENCES users(id), PRAGMA foreign_keys = ON *)
KnownUser(u) == u \in Users

(* INSERT INTO api_keys: a new active row of the requesting user in the
   lineage l. *)
InsertRow(r, k, l) ==
    LET u == job[r].user IN
    \/ /\ KnownUser(u) /\ status[k] = "none"
       /\ status' = [status EXCEPT ![k] = "active"]
       /\ owner' = [owner EXCEPT ![k] = u]
       /\ lineage' = [lineage EXCEPT ![k] = l]
       /\ new' = [new EXCEPT ![r] = k]
       /\ UNCHANGED <<expires, lastUsed, scopes, given, todo, seen>>
       /\ Goto(r, "scopes")
    \/ /\ ~KnownUser(u)
       /\ UNCHANGED table
       /\ Return(r, Said("internal"))

(* INSERT INTO key_scopes, one statement per scope, UNIQUE(key, scope) *)
InsertScope(r) ==
    LET s == Head(todo[r]) IN
    /\ pc[r] = "scopes" /\ todo[r] # <<>>
    /\ \/ /\ s \notin scopes[new[r]]
          /\ scopes' = [scopes EXCEPT ![new[r]] = @ \cup {s}]
          /\ todo' = [todo EXCEPT ![r] = Tail(@)]
          /\ UNCHANGED <<status, owner, lineage, expires, lastUsed, given, new, seen>>
          /\ Goto(r, "scopes")
       \/ /\ s \in scopes[new[r]]
          /\ UNCHANGED table
          /\ Return(r, Said("internal"))

-----------------------------------------------------------------------------
(* Arrival, the mutex, the answer *)

(* Bound: a request that inserts a key starts only if one is left for it. *)
Inserting == {r \in Requests : job[r].op \in {"create", "rotate"} /\ new[r] = NoKey
                               /\ pc[r] \notin {"idle", "replied"}}
KeysLeft == Cardinality(Keys \ Issued) > Cardinality(Inserting)

(* Ids are read off answers and listings, never off a row being written. *)
Visible == Issued \ {new[r] : r \in Requests}

Asks ==
    [op: Ops \cap {"create"}, user: Principals, key: {NoKey}, ask: ScopeLists]
    \cup [op: Ops \cap {"rotate", "revoke"}, user: Principals,
          key: Visible \cup {NoKey}, ask: {<<>>}]
    \cup [op: Ops \cap {"list"}, user: Principals, key: {NoKey}, ask: {<<>>}]
    \cup [op: Ops \cap {"verify"}, user: {NoUser}, key: known \cup {NoKey}, ask: {<<>>}]

(* A request reaches its handler.  A create without scopes is refused before
   the connection is asked for; everything else queues for the mutex. *)
Arrive(r, j) ==
    /\ pc[r] = "idle"
    /\ j.op \in {"create", "rotate"} => KeysLeft
    /\ job' = [job EXCEPT ![r] = j]
    /\ IF j.op = "create" /\ j.ask = <<>>
       THEN /\ pc' = [pc EXCEPT ![r] = "replied"]
            /\ reply' = [reply EXCEPT ![r] = Said("bad_request")]
            /\ UNCHANGED queue
       ELSE /\ pc' = [pc EXCEPT ![r] = "waiting"]
            /\ queue' = Append(queue, r)
            /\ UNCHANGED reply
    /\ UNCHANGED <<table, now, lock, locals, known>>

(* The client hangs up while its handler waits: the future is dropped.  From
   the grant on a handler has no await point left and runs to its end. *)
Cancel(r) ==
    /\ pc[r] = "waiting"
    /\ \E i \in DOMAIN queue : queue[i] = r /\ queue' = RemoveAt(queue, i)
    /\ pc' = [pc EXCEPT ![r] = "idle"]
    /\ job' = [job EXCEPT ![r] = NoJob]
    /\ UNCHANGED <<table, now, lock, locals, reply, known>>

FirstStep == [create |-> "count", rotate |-> "load", revoke |-> "update",
              verify |-> "lookup", list |-> "select"]

(* Seeded fault: the connection is handed out without a mutex. *)
GrantsAlways == queue # <<>>
Grantable == queue # <<>> /\ lock = NoRequest

(* Seeded fault: the latest request goes first. *)
NextLatest == Len(queue)
NextInLine == 1

(* Database::conn: the mutex goes to the request that waited longest. *)
Acquire ==
    /\ Grantable
    /\ LET r == queue[NextInLine] IN
       /\ lock' = r
       /\ queue' = RemoveAt(queue, NextInLine)
       /\ pc' = [pc EXCEPT ![r] = FirstStep[job[r].op]]
    /\ UNCHANGED <<table, now, job, locals, reply, known>>

(* The client reads the answer, and with it the raw key. *)
Deliver(r) ==
    /\ pc[r] = "replied"
    /\ pc' = [pc EXCEPT ![r] = "idle"]
    /\ job' = [job EXCEPT ![r] = NoJob]
    /\ reply' = [reply EXCEPT ![r] = Said("none")]
    /\ known' = IF reply[r].kind \in {"created", "rotated"}
                THEN known \cup reply[r].keys ELSE known
    /\ UNCHANGED <<table, now, lock, queue, locals>>

(* The client is gone before the answer arrives. *)
LoseReply(r) ==
    /\ Faults
    /\ pc[r] = "replied"
    /\ pc' = [pc EXCEPT ![r] = "idle"]
    /\ job' = [job EXCEPT ![r] = NoJob]
    /\ reply' = [reply EXCEPT ![r] = Said("none")]
    /\ UNCHANGED <<table, now, lock, queue, locals, known>>

-----------------------------------------------------------------------------
(* create_key *)

CreateCount(r) ==
    /\ pc[r] = "count"
    /\ UNCHANGED table
    /\ \/ /\ LimitReached(job[r].user)
          /\ Return(r, Said("conflict"))
       \/ /\ ~LimitReached(job[r].user)
          /\ ~Assignable(job[r].ask)
          /\ Return(r, Said("forbidden"))
       \/ /\ ~LimitReached(job[r].user)
          /\ Assignable(job[r].ask)
          /\ given' = [given EXCEPT ![r] = ToSet(job[r].ask)]
          /\ todo' = [todo EXCEPT ![r] = job[r].ask]
          /\ UNCHANGED <<new, seen>>
          /\ Goto(r, "insert")

CreateInsert(r) ==
    /\ pc[r] = "insert" /\ job[r].op = "create"
    /\ \E k \in Keys : InsertRow(r, k, k)

CreateFinish(r) ==
    /\ pc[r] = "scopes" /\ job[r].op = "create" /\ todo[r] = <<>>
    /\ UNCHANGED table
    /\ Return(r, Told("created", new[r], given[r], "active"))

-----------------------------------------------------------------------------
(* rotate_key *)

(* The old row is there, and load_scopes lists `listing`. *)
LoadOld(r, listing) ==
    /\ given' = [given EXCEPT ![r] = ToSet(listing)]
    /\ todo' = [todo EXCEPT ![r] = listing]
    /\ UNCHANGED <<table, new, seen>>
    /\ Goto(r, "deprecate")

RotateLoad(r) ==
    /\ pc[r] = "load"
    /\ \/ /\ Rotatable(job[r].key, job[r].user)
          /\ \E listing \in Listings(job[r].key) : LoadOld(r, listing)
       \/ /\ ~Rotatable(job[r].key, job[r].user)
          /\ UNCHANGED table
          /\ Return(r, Said("not_found"))

(* UPDATE ... SET status = 'deprecated', expires_at = ? WHERE id = ?  An end
   of grace that chrono cannot compute panics before the statement: the task
   dies, its guard is dropped and the client gets no answer. *)
RotateDeprecate(r) ==
    LET k == job[r].key IN
    /\ pc[r] = "deprecate"
    /\ \/ /\ GraceEnd \in Representable
          /\ status' = [status EXCEPT ![k] = "deprecated"]
          /\ expires' = [expires EXCEPT ![k] = StoredExpiry]
          /\ UNCHANGED <<owner, lineage, lastUsed, scopes, locals>>
          /\ Goto(r, "insert")
       \/ /\ GraceEnd \notin Representable
          /\ UNCHANGED table
          /\ Return(r, Said("none"))

(* The lineage was read with the old row; no statement ever changes it. *)
RotateInsert(r) ==
    /\ pc[r] = "insert" /\ job[r].op = "rotate"
    /\ \E k \in Keys : InsertRow(r, k, lineage[job[r].key])

RotateFinish(r) ==
    /\ pc[r] = "scopes" /\ job[r].op = "rotate" /\ todo[r] = <<>>
    /\ UNCHANGED table
    /\ Return(r, Told("rotated", new[r], given[r], "active"))

-----------------------------------------------------------------------------
(* revoke_key, verify_api_key, list_keys *)

Revoke(r) ==
    LET k == job[r].key IN
    /\ pc[r] = "update"
    /\ \/ /\ Revocable(k, job[r].user)
          /\ status' = [status EXCEPT ![k] = "revoked"]
          /\ UNCHANGED <<owner, lineage, expires, lastUsed, scopes>>
          /\ Return(r, Told("revoked", k, {}, "revoked"))
       \/ /\ ~Revocable(k, job[r].user)
          /\ UNCHANGED table
          /\ Return(r, Said("not_found"))

VerifyLookup(r) ==
    LET k == job[r].key IN
    /\ pc[r] = "lookup"
    /\ UNCHANGED table
    /\ \/ /\ Usable(k)
          /\ seen' = [seen EXCEPT ![r] = status[k]]
          /\ UNCHANGED <<given, todo, new>>
          /\ Goto(r, "touch")
       \/ /\ ~Usable(k)
          /\ Return(r, Said("invalid"))

(* UPDATE last_used_at with a second reading of the clock, then the scopes *)
VerifyTouch(r) ==
    LET k == job[r].key IN
    /\ pc[r] = "touch"
    /\ lastUsed' = [lastUsed EXCEPT ![k] = now]
    /\ UNCHANGED <<status, owner, lineage, expires, scopes>>
    /\ Return(r, Told("valid", k, scopes[k], seen[r]))

Owned(u) == {k \in Issued : owner[k] = u}
Listed(K) == [Said("listed") EXCEPT !.keys = K]

List(r) ==
    /\ pc[r] = "select"
    /\ UNCHANGED table
    /\ Return(r, Listed(Owned(job[r].user)))

-----------------------------------------------------------------------------
(* Time and faults *)

Tick ==
    /\ now < MaxTime
    /\ now' = now + 1
    /\ UNCHANGED <<table, lock, queue, pc, job, locals, reply, known>>

(* A statement fails.  rotate_key takes any failure to load the row for a
   missing key and verify_api_key takes any failure of the lookup for an
   invalid one; a failing touch is ignored, a load_scopes after it that
   cannot be prepared is not.  Everything else is an internal error. *)
StatementFails(r) ==
    LET k == job[r].key IN
    /\ Faults
    /\ pc[r] \in Steps /\ ~(pc[r] = "scopes" /\ todo[r] = <<>>)
    /\ \/ pc[r] = "load" /\ UNCHANGED table /\ Return(r, Said("not_found"))
       \/ pc[r] = "lookup" /\ UNCHANGED table /\ Return(r, Said("invalid"))
       \/ /\ pc[r] = "touch"
          /\ UNCHANGED table
          /\ Return(r, Told("valid", k, scopes[k], seen[r]))
       \/ /\ pc[r] = "touch"
          /\ lastUsed' = [lastUsed EXCEPT ![k] = now]
          /\ UNCHANGED <<status, owner, lineage, expires, scopes>>
          /\ Return(r, Said("internal"))
       \/ pc[r] # "lookup" /\ UNCHANGED table /\ Return(r, Said("internal"))

(* Reading fails after some rows: list_keys and load_scopes drop the rows they
   cannot read and go on with those they have. *)
ReadCutShort(r) ==
    LET k == job[r].key IN
    /\ Faults
    /\ \/ /\ pc[r] = "load" /\ Rotatable(k, job[r].user)
          /\ \E S \in SUBSET scopes[k] : \E listing \in SetToSeqs(S) : LoadOld(r, listing)
       \/ /\ pc[r] = "touch"
          /\ \E t \in {lastUsed[k], now} : lastUsed' = [lastUsed EXCEPT ![k] = t]
          /\ UNCHANGED <<status, owner, lineage, expires, scopes>>
          /\ \E S \in SUBSET scopes[k] : Return(r, Told("valid", k, S, seen[r]))
       \/ /\ pc[r] = "select"
          /\ UNCHANGED table
          /\ \E K \in SUBSET Owned(job[r].user) : Return(r, Listed(K))

(* The process dies and is started again: what was committed is on disk. *)
Restart ==
    /\ Faults
    /\ lock' = NoRequest
    /\ queue' = <<>>
    /\ pc' = [r \in Requests |-> "idle"]
    /\ job' = [r \in Requests |-> NoJob]
    /\ given' = [r \in Requests |-> {}]
    /\ todo' = [r \in Requests |-> <<>>]
    /\ new' = [r \in Requests |-> NoKey]
    /\ seen' = [r \in Requests |-> "none"]
    /\ reply' = [r \in Requests |-> Said("none")]
    /\ UNCHANGED <<table, now, known>>

-----------------------------------------------------------------------------
Handler(r) ==
    \/ CreateCount(r) \/ CreateInsert(r) \/ CreateFinish(r)
    \/ RotateLoad(r) \/ RotateDeprecate(r) \/ RotateInsert(r) \/ RotateFinish(r)
    \/ InsertScope(r)
    \/ Revoke(r) \/ VerifyLookup(r) \/ VerifyTouch(r) \/ List(r)

Client(r) ==
    \/ \E j \in Asks : Arrive(r, j)
    \/ Cancel(r) \/ Deliver(r) \/ LoseReply(r)

Next ==
    \/ Tick \/ Restart \/ Acquire
    \/ \E r \in Requests : Client(r) \/ Handler(r) \/ StatementFails(r) \/ ReadCutShort(r)

Spec == Init /\ [][Next]_vars

(* The runtime polls a task whose mutex was granted until it is done. *)
Fairness == WF_vars(Acquire) /\ \A r \in Requests : WF_vars(Handler(r))
FairSpec == Spec /\ Fairness

-----------------------------------------------------------------------------
(* Properties *)

(* Types, and the columns every row has. *)
TypeOK ==
    /\ status \in [Keys -> Statuses]
    /\ owner \in [Keys -> Users \cup {NoUser}]
    /\ lineage \in [Keys -> Keys \cup {NoKey}]
    /\ expires \in [Keys -> Readable \cup {Null}]
    /\ lastUsed \in [Keys -> Nat \cup {Null}]
    /\ scopes \in [Keys -> SUBSET Scopes]
    /\ now \in Nat
    /\ lock \in Requests \cup {NoRequest}
    /\ queue \in Seq(Requests)
    /\ pc \in [Requests -> Steps \cup {"idle", "waiting", "replied"}]
    /\ job \in [Requests -> Job]
    /\ given \in [Requests -> SUBSET Scopes]
    /\ todo \in [Requests -> Seq(Scopes)]
    /\ new \in [Requests -> Keys \cup {NoKey}]
    /\ seen \in [Requests -> Statuses]
    /\ reply \in [Requests -> Reply]
    /\ known \subseteq Keys

Active(u) == {k \in Issued : owner[k] = u /\ status[k] = "active"}

(* At every statement boundary, and so for a verifier that gets the mutex
   next and for the table a crash leaves behind, at most one key of a lineage
   is active: rotate_key deprecates the old row before it inserts the new one,
   and a deprecated or revoked key cannot be rotated again. *)
OneActivePerLineage ==
    \A k \in Issued : \A j \in Kin(k) :
        status[k] = "active" /\ status[j] = "active" => j = k

(* Rotation hands no authority on that the lineage did not have: a successor
   has the owner of the first key of its lineage, and scopes among its scopes,
   however often and at whatever point rotations fail. *)
SuccessorsKeepAuthority ==
    \A k \in Issued :
        /\ lineage[k] \in Issued
        /\ owner[k] = owner[lineage[k]]
        /\ scopes[k] \subseteq scopes[lineage[k]]

(* max_keys_per_user bounds the ACTIVE keys of a user in every interleaving of
   creations and rotations, although rotate_key ignores the limit: it takes
   one active key away for each it adds, and takes it away first. *)
ActiveQuota == \A u \in Users : Cardinality(Active(u)) <= MaxKeys

(* The scopes an answer names are the scopes of that key in the table for as
   long as the answer is under way, whatever other requests and failures come
   between, and no answer hands out a wildcard.  Only a verification whose
   reading of the scopes fails names fewer. *)
AnswersMatchTable ==
    \A r \in Requests : reply[r].kind \in {"created", "rotated", "valid"} =>
        \A k \in reply[r].keys :
            /\ k \in Issued
            /\ reply[r].kind # "valid" => owner[k] = job[r].user
            /\ \/ reply[r].scopes = scopes[k]
               \/ Faults /\ reply[r].kind = "valid" /\ reply[r].scopes \subseteq scopes[k]
            /\ reply[r].scopes \cap Wildcards = {}

(* With no failing statement and no crash, no lineage is left without an
   active key by a rotation: whenever the mutex is free, a deprecated key has
   a successor that is active, or was until somebody revoked it. *)
NoStrandedLineage ==
    lock = NoRequest =>
        \A k \in Issued : status[k] = "deprecated" =>
            \E j \in Kin(k) : status[j] \in {"active", "revoked"}

(* The inductive strengthening of the invariants above.  A handler between
   its statements: it alone holds the mutex, a rotation's old key is still
   what it was when it was loaded, and what it is about to insert fits. *)
Exclusive == \A r \in Requests : pc[r] \in Steps => lock = r

RowsComplete ==
    /\ \A k \in Keys : status[k] = "none" => scopes[k] = {} /\ owner[k] = NoUser
    /\ \A k \in Issued : lineage[k] \in Issued /\ owner[k] = owner[lineage[k]]
                        /\ owner[k] \in Users

Holding(r) ==
    /\ new[r] # NoKey <=> pc[r] = "scopes"
    /\ pc[r] = "count" => job[r].op = "create"
    /\ pc[r] \in {"load", "deprecate"} => job[r].op = "rotate"
    /\ pc[r] \in {"insert", "scopes"} => job[r].op \in {"create", "rotate"}
    /\ pc[r] = "touch" => job[r].key \in Issued
    /\ pc[r] = "scopes" => new[r] \in Issued
    /\ pc[r] = "scopes" /\ job[r].op = "create" => lineage[new[r]] = new[r]

OldKey(r) ==
    pc[r] \in {"deprecate", "insert", "scopes"} /\ job[r].op = "rotate" =>
        LET old == job[r].key IN
        /\ old \in Issued /\ owner[old] = job[r].user
        /\ ToSet(todo[r]) \subseteq scopes[old]
        /\ pc[r] = "deprecate" => status[old] = "active"
        /\ pc[r] = "insert" => \A j \in Kin(old) : status[j] # "active"
        /\ pc[r] = "scopes" => lineage[new[r]] = lineage[old] /\ new[r] # lineage[old]

Bookkeeping == \A r \in Requests : Holding(r) /\ OldKey(r)

Inductive ==
    /\ TypeOK /\ Exclusive /\ Bookkeeping /\ RowsComplete
    /\ OneActivePerLineage /\ SuccessorsKeepAuthority

\* The strengthening of ActiveQuota: a handler about to insert has room.
Room == \A r \in Requests : pc[r] = "insert" => Cardinality(Active(job[r].user)) < MaxKeys
QuotaInductive == ActiveQuota /\ Room

Rank == [none |-> 0, active |-> 1, deprecated |-> 2, revoked |-> 3]

(* A row only ages: its status never goes back, its owner and lineage never
   change, its expiry is fixed when it is deprecated, and a revoked row is
   never written again: a verify that read the row before the revocation
   cannot touch it, and a rotation that read it cannot revive it.  Its scopes
   change only while its own handler inserts them; once that handler returned,
   failed or died they are fixed. *)
RowsOnlyAge ==
    [][\A k \in Issued :
        /\ Rank[status'[k]] >= Rank[status[k]]
        /\ owner'[k] = owner[k] /\ lineage'[k] = lineage[k]
        /\ status[k] # "active" => expires'[k] = expires[k]
        /\ status[k] = "revoked" => lastUsed'[k] = lastUsed[k]
        /\ scopes'[k] # scopes[k] => \E r \in Requests : new[r] = k /\ pc[r] = "scopes"]_vars

(* A handler that inserted a row tells its key: the raw key exists nowhere
   else, so a row whose handler answers anything else can never be used. *)
EveryKeyIsTold ==
    [][\A r \in Requests : new[r] # NoKey /\ new'[r] = NoKey =>
        reply'[r].keys = {new[r]}]_vars

(* A request that waits for the mutex is answered or withdrawn. *)
EveryRequestEnds ==
    \A r \in Requests : pc[r] = "waiting" ~> pc[r] \in {"replied", "idle"}

-----------------------------------------------------------------------------
(* What comments and messages of the repository say, and the code refutes *)

(* rotate_key's comment: after the grace period a background job revokes the
   key. *)
ExpiredGetsRevoked == \A k \in Keys : Expired(k) ~> status[k] = "revoked"

=============================================================================
