------------------------------- MODULE Access -------------------------------
(***************************************************************************)
(* Who may do what (auth.rs): admin tokens and API keys in front of the    *)
(* registry of keys.                                                       *)
(*                                                                         *)
(* An axum extractor turns the Authorization header of a request into one  *)
(* of two principals before the handler runs.  AdminPrincipal is decided   *)
(* at once, from the token and the clock; the handler then waits for the   *)
(* connection and acts for the user the token named.  ApiKeyPrincipal      *)
(* waits for the connection itself, verifies the key, and hands a copy of  *)
(* its scopes to a handler that uses it until it has answered.             *)
(*                                                                         *)
(* Composed with KeyRegistry: what the handlers do to the table is one     *)
(* step each, which KeyStoreRefinement shows they are to each other.       *)
(* generate_jwt and handlers that take an ApiKeyPrincipal are not called   *)
(* in the repository: here anybody may have a token made for any principal *)
(* and lifetime, and any handler may hold an ApiKeyPrincipal.              *)
(***************************************************************************)
EXTENDS ScopeOrder, Integers, FiniteSets

CONSTANTS
    Keys, Users, MaxKeys, GraceHours, Readable, Torn, NoKey, NoUser, Null,
    Principals,     \* user ids a token may name
    Secrets,        \* values of Config.jwt_secret over the restarts
    Lifetimes,      \* the expiry_secs tokens are made with, a u64
    HalfWord,       \* 2^63 in the code
    Leeway,         \* Validation::leeway, 60 seconds unless set otherwise
    AskedScopes,    \* the scope lists of create requests, as sets
    Requests,       \* concurrent requests
    Uses,           \* the endpoints in use, per request
    MaxTokens,      \* bound on the tokens clients have at a time
    MaxTime,        \* bound on the clock
    NoToken,        \* no Authorization header, or not a bearer token
    Nobody          \* no principal

ASSUME AccessNumbers ==
    /\ HalfWord \in Nat /\ Leeway \in Nat /\ MaxTokens \in Nat /\ MaxTime \in Nat
    /\ MaxTime < HalfWord
    /\ Lifetimes \subseteq 0 .. 2 * HalfWord - 1
    /\ MaxKeys \in Nat /\ GraceHours \in Nat /\ Readable \subseteq Int /\ Null \notin Int
ASSUME AccessSets ==
    /\ Users \subseteq Principals /\ NoUser \notin Principals
    /\ NoKey \notin Keys /\ AskedScopes \subseteq SUBSET Scope
    /\ Uses \in [Requests -> SUBSET {"create", "rotate", "revoke", "consume"}]
    /\ Torn \in BOOLEAN

VARIABLES
    status, owner, lineage, expires, scopes, now,   \* the registry
    secret,     \* Config.jwt_secret of the running process
    tokens,     \* the tokens in the hands of clients
    pc,         \* where each request is
    job,        \* its endpoint and parameters
    cred,       \* the credential in its header
    principal,  \* what the extractor made of it
    since,      \* when a request with a token arrived       (history)
    stood       \* how the key presented stood on arrival    (history)

registry == <<status, owner, lineage, expires, scopes>>
request == <<pc, job, cred, principal, since, stood>>
vars == <<registry, now, secret, tokens, request>>

Registry == INSTANCE KeyRegistry WITH Scopes <- Scope

(* Claims: sub, exp and iat; `life` is the lifetime asked for, `key` the
   secret of the signature. *)
Token == [sub: Principals, iat: Nat, exp: Int, life: Lifetimes, key: Secrets]
ASSUME CredentialsAssumption ==
    NoToken \notin Keys \cup {NoKey} /\ \A c \in Keys \cup {NoKey} : c \notin Token
ApiKeyPrincipal == [user: Users, key: Keys, scopes: SUBSET Scope, deprecated: BOOLEAN]
Job == [op: {"create", "rotate", "revoke", "consume"}, key: Keys \cup {NoKey},
        ask: SUBSET Scope]
NoJob == [op |-> "consume", key |-> NoKey, ask |-> {}]

Issued == {k \in Keys : status[k] # "none"}

Init ==
    /\ Registry!Init
    /\ secret \in Secrets
    /\ tokens = {}
    /\ pc = [r \in Requests |-> "idle"]
    /\ job = [r \in Requests |-> NoJob]
    /\ cred = [r \in Requests |-> NoToken]
    /\ principal = [r \in Requests |-> Nobody]
    /\ since = [r \in Requests |-> 0]
    /\ stood = [r \in Requests |-> "none"]

-----------------------------------------------------------------------------
(* Tokens *)

(* expiry_secs as i64 *)
AsI64(n) == IF n < HalfWord THEN n ELSE n - 2 * HalfWord

(* Seeded fault: a sum that wraps. *)
ExpiryWraps(life) ==
    LET sum == now + AsI64(life) IN IF sum < HalfWord THEN sum ELSE sum - 2 * HalfWord
(* now.saturating_add(expiry_secs as i64) *)
ExpiryAt(life) ==
    LET sum == now + AsI64(life)
    IN  IF sum >= HalfWord THEN HalfWord - 1 ELSE IF sum < -HalfWord THEN -HalfWord ELSE sum

(* generate_jwt *)
Mint(u, life) ==
    /\ Cardinality(tokens) < MaxTokens
    /\ tokens' = tokens \cup
         {[sub |-> u, iat |-> now, exp |-> ExpiryAt(life), life |-> life, key |-> secret]}
    /\ UNCHANGED <<registry, now, secret, request>>

(* A client throws a token away; a request it sent keeps its copy. *)
Discard(t) ==
    /\ tokens' = tokens \ {t}
    /\ UNCHANGED <<registry, now, secret, request>>

(* validate_jwt: the signature, and exp, which the library reads as an
   unsigned number and compares with the clock less its default leeway. *)
Accepted(t) ==
    /\ t.key = secret
    /\ t.exp >= 0
    /\ t.exp >= now - Leeway

-----------------------------------------------------------------------------
(* Keys *)

(* the prefix lak_ *)
IsApiKey(c) == c \in Keys \cup {NoKey}

(* verify_api_key returns Some *)
Usable(k) ==
    /\ k \in Issued /\ status[k] # "revoked"
    /\ ~(status[k] = "deprecated" /\ expires[k] # Null /\ expires[k] < now)

Stands(c) == IF Usable(c) THEN status[c] ELSE "revoked"

(* Seeded fault: the owner is not in the WHERE clause. *)
AnyonesKey(k, u) == k \in Issued /\ status[k] # "revoked"
(* WHERE id = ? AND user_id = ? AND status != 'revoked' *)
OwnLive(k, u) == k \in Issued /\ owner[k] = u /\ status[k] # "revoked"

-----------------------------------------------------------------------------
(* The extractors and the handlers *)

(* The answer is sent: which error it is (401, 403, 400, 409, 404, 500) the
   comments below say; nothing here depends on it. *)
Answer(r) ==
    /\ pc' = [pc EXCEPT ![r] = "idle"]
    /\ job' = [job EXCEPT ![r] = NoJob]
    /\ cred' = [cred EXCEPT ![r] = NoToken]
    /\ principal' = [principal EXCEPT ![r] = Nobody]
    /\ since' = [since EXCEPT ![r] = 0]
    /\ stood' = [stood EXCEPT ![r] = "none"]

(* The request waits for the connection. *)
Wait(r, j, c, step, p, t, st) ==
    /\ pc' = [pc EXCEPT ![r] = step]
    /\ job' = [job EXCEPT ![r] = j]
    /\ cred' = [cred EXCEPT ![r] = c]
    /\ principal' = [principal EXCEPT ![r] = p]
    /\ since' = [since EXCEPT ![r] = t]
    /\ stood' = [stood EXCEPT ![r] = st]

(* AdminPrincipal::from_request_parts, and the part of the handler that comes
   before its first await: create_key refuses an empty list of scopes. *)
ArriveAdmin(r, j, c) ==
    /\ pc[r] = "idle" /\ j.op \in Uses[r] \ {"consume"}
    /\ \/ c = NoToken /\ Answer(r)
       \/ IsApiKey(c) /\ Answer(r)
       \/ c \in tokens /\ ~Accepted(c) /\ Answer(r)
       \/ /\ c \in tokens /\ Accepted(c)
          /\ IF j.op = "create" /\ j.ask = {}
             THEN Answer(r)
             ELSE Wait(r, j, c, "waiting", c.sub, now, "none")
    /\ UNCHANGED <<registry, now, secret, tokens>>

(* ApiKeyPrincipal::from_request_parts, down to its await *)
ArriveConsumer(r, j, c) ==
    /\ pc[r] = "idle" /\ j.op = "consume" /\ "consume" \in Uses[r]
    /\ \/ ~IsApiKey(c) /\ Answer(r)
       \/ IsApiKey(c) /\ Wait(r, j, c, "verifying", Nobody, 0, Stands(c))
    /\ UNCHANGED <<registry, now, secret, tokens>>

(* Seeded fault: foreign keys are not enforced. *)
RegisteredAnyone(u) == TRUE
(* user_id REFERENCES users(id) *)
Registered(u) == u \in Users

Create(r) ==
    LET u == principal[r]  ask == job[r].ask
        full == Cardinality(Registry!Live(u)) >= MaxKeys
    IN
    /\ pc[r] = "waiting" /\ job[r].op = "create"
    /\ \/ full /\ UNCHANGED <<registry, now>> /\ Answer(r)
       \/ /\ ~full /\ ask \cap Wildcards # {}
          /\ UNCHANGED <<registry, now>> /\ Answer(r)
       \/ /\ ~full /\ ask \cap Wildcards = {} /\ ~Registered(u)
          /\ UNCHANGED <<registry, now>> /\ Answer(r)
       \/ /\ ask \cap Wildcards = {} /\ Registered(u)
          /\ \E k \in Keys : \E S \in SUBSET ask :
              (S = ask \/ Torn) /\ Registry!Create(k, u, S)
          /\ Answer(r)
    /\ UNCHANGED <<secret, tokens>>

Rotate(r) ==
    LET old == job[r].key  can == OwnLive(old, principal[r]) /\ status[old] = "active" IN
    /\ pc[r] = "waiting" /\ job[r].op = "rotate"
    /\ \/ ~can /\ UNCHANGED <<registry, now>> /\ Answer(r)
       \/ can /\ (\E k \in Keys : \E S \in SUBSET scopes[old] : Registry!Rotate(old, k, S))
              /\ Answer(r)
       \/ can /\ Registry!Strand(old) /\ Answer(r)
    /\ UNCHANGED <<secret, tokens>>

Revoke(r) ==
    LET k == job[r].key IN
    /\ pc[r] = "waiting" /\ job[r].op = "revoke"
    /\ \/ ~OwnLive(k, principal[r]) /\ UNCHANGED <<registry, now>> /\ Answer(r)
       \/ OwnLive(k, principal[r]) /\ Registry!Revoke(k) /\ Answer(r)
    /\ UNCHANGED <<secret, tokens>>

(* The rest of ApiKeyPrincipal::from_request_parts: the principal is a copy,
   with fewer scopes when reading them is cut short. *)
Verified(r) ==
    LET k == cred[r] IN
    /\ pc[r] = "verifying"
    /\ \/ ~Usable(k) /\ Answer(r)
       \/ /\ Usable(k)
          /\ pc' = [pc EXCEPT ![r] = "serving"]
          /\ \E S \in SUBSET scopes[k] :
              /\ S = scopes[k] \/ Torn
              /\ principal' = [principal EXCEPT ![r] =
                   [user |-> owner[k], key |-> k, scopes |-> S,
                    deprecated |-> status[k] = "deprecated"]]
          /\ UNCHANGED <<job, cred, since, stood>>
    /\ UNCHANGED <<registry, now, secret, tokens>>

(* The handler that took an ApiKeyPrincipal returns. *)
Served(r) ==
    /\ pc[r] = "serving"
    /\ Answer(r)
    /\ UNCHANGED <<registry, now, secret, tokens>>

(* The client hangs up while its request waits for the connection, or the
   first statement of its handler fails. *)
Leave(r) ==
    /\ pc[r] \in {"waiting", "verifying"}
    /\ Answer(r)
    /\ UNCHANGED <<registry, now, secret, tokens>>

(* The process ends and is started again, maybe with another JWT secret. *)
Restart(s) ==
    /\ secret' = s
    /\ pc' = [r \in Requests |-> "idle"]
    /\ job' = [r \in Requests |-> NoJob]
    /\ cred' = [r \in Requests |-> NoToken]
    /\ principal' = [r \in Requests |-> Nobody]
    /\ since' = [r \in Requests |-> 0]
    /\ stood' = [r \in Requests |-> "none"]
    /\ UNCHANGED <<registry, now, tokens>>

Tick ==
    /\ now < MaxTime
    /\ Registry!Tick
    /\ UNCHANGED <<secret, tokens, request>>

-----------------------------------------------------------------------------
Asks ==
    [op: {"create"}, key: {NoKey}, ask: AskedScopes]
    \cup [op: {"rotate", "revoke"}, key: Issued, ask: {{}}]
    \cup {NoJob}

Credentials == {NoToken, NoKey} \cup tokens \cup Issued

Handler(r) == Create(r) \/ Rotate(r) \/ Revoke(r) \/ Verified(r) \/ Served(r)

Next ==
    \/ Tick
    \/ \E s \in Secrets : Restart(s)
    \/ \E u \in Principals, life \in Lifetimes : Mint(u, life)
    \/ \E t \in tokens : Discard(t)
    \/ \E r \in Requests :
        \/ \E j \in Asks, c \in Credentials : ArriveAdmin(r, j, c) \/ ArriveConsumer(r, j, c)
        \/ Handler(r)
        \/ Leave(r)

Spec == Init /\ [][Next]_vars

-----------------------------------------------------------------------------
(* Properties *)

(* Types, and which principal goes with which position: a handler behind
   AdminPrincipal never holds an API key's principal, nor the other way. *)
TypeOK ==
    /\ status \in [Keys -> {"none", "active", "deprecated", "revoked"}]
    /\ owner \in [Keys -> Users \cup {NoUser}]
    /\ lineage \in [Keys -> Keys \cup {NoKey}]
    /\ expires \in [Keys -> Readable \cup {Null}]
    /\ scopes \in [Keys -> SUBSET Scope]
    /\ now \in Nat
    /\ secret \in Secrets
    /\ tokens \subseteq Token
    /\ pc \in [Requests -> {"idle", "waiting", "verifying", "serving"}]
    /\ job \in [Requests -> Job]
    /\ cred \in [Requests -> Token \cup Keys \cup {NoKey, NoToken}]
    /\ principal \in [Requests -> Principals \cup ApiKeyPrincipal \cup {Nobody}]
    /\ since \in [Requests -> Nat]
    /\ stood \in [Requests -> {"none", "active", "deprecated", "revoked"}]
    /\ \A r \in Requests :
        /\ pc[r] = "waiting" => cred[r] \in Token /\ principal[r] \in Principals
        /\ pc[r] \in {"verifying", "serving"} => cred[r] \in Keys \cup {NoKey}
        /\ pc[r] = "serving" => principal[r] \in ApiKeyPrincipal

(* A key is created, rotated or revoked only for its owner, on the word of a
   token that names the owner, that was signed with the secret this process
   runs with, and that was not older than its lifetime and the leeway when the
   request arrived - however long the request then waited, whatever other
   tokens, keys and restarts there were in between. *)
ActedForOwner ==
    [][\A k \in Keys : status'[k] # status[k] =>
        \E r \in Requests :
            /\ pc[r] = "waiting"
            /\ cred[r].sub = owner'[k] /\ cred[r].key = secret
            /\ since[r] <= cred[r].iat + cred[r].life + Leeway]_vars

(* A principal made from an API key may be out of date, but not by more than
   its own request: the key could be used when the request arrived, one called
   not deprecated was active then, and the scopes has_scope accepts are among
   those the key was issued for - under their own service's name, since
   wildcards are never issued - and all of them unless a read was cut short,
   whether or not the key was rotated or revoked since. *)
PrincipalIsTrue ==
    \A r \in Requests : pc[r] = "serving" =>
        LET p == principal[r] IN
        /\ p.key = cred[r] /\ p.user = owner[p.key]
        /\ stood[r] \in {"active", "deprecated"}
        /\ IF p.deprecated THEN status[p.key] # "active" ELSE stood[r] = "active"
        /\ \A q \in Scope :
            /\ HasScope(p.scopes, q) => NamedIn(scopes[p.key], q)
            /\ ~Torn /\ NamedIn(scopes[p.key], q) => HasScope(p.scopes, q)

(* A token is good for the lifetime it was made with, up to the leeway, as long
   as the secret stays: also at the end of the range of i64, where the sum
   saturates.  A lifetime that does not fit i64 turns negative, and its token
   is good for less, never for more. *)
TokensLast ==
    \A t \in tokens :
        /\ Accepted(t) => now <= t.iat + t.life + Leeway
        /\ t.key = secret /\ t.life < HalfWord /\ now <= t.iat + t.life => Accepted(t)

=============================================================================
