# A model of la-keys

la-keys is an HTTP service that issues, lists, rotates, revokes and verifies API
keys. This directory holds TLA+ modules for the part of it that has state, the
TLC configurations that check them on small instances, and theorems checked by
TLAPS that hold for every size.

Paths below are relative to the repository (`src/repo.rs` is the Rust file).

## The system

| Component | State | Operations | Talks to |
|---|---|---|---|
| Key store, `src/repo.rs`, `src/db.rs` | tables `users`, `api_keys`, `key_scopes` | `create_key`, `list_keys`, `revoke_key`, `rotate_key`, `verify_api_key` | one SQLite connection behind a tokio `Mutex` |
| Request handlers, `src/handlers.rs` | none of their own | one per endpoint | the key store; the client |
| Database connection, `src/db.rs` | the mutex and its queue of waiters; the file | `open`, `conn` | everything that reads or writes a key |
| Authentication, `src/auth.rs` | none (tokens are self-contained) | `generate_jwt`, `validate_jwt`, the extractors `AdminPrincipal`, `ApiKeyPrincipal` | the key store, the JWT secret |
| Rate limiter, `src/rate_limit.rs` | a counter per lineage and per address | `check_lineage`, `check_ip`, `prune_expired` | the monotonic clock |
| Configuration and secrets, `src/config.rs` | two secrets in the environment, the keychain or a file; the settings file | `from_env`, `run_init` | start-up |
| Router and start-up, `src/main.rs` | `AppState` | `main` | all of the above |
| Errors, `src/error.rs` | none | the HTTP status of each error | handlers |
| Types, `src/types.rs` | none | scopes, permissions, statuses | key store, authentication |
| Key derivation, `src/keys.rs`, `src/verses.rs` | none | `generate_key`, `hash_key` | key store |
| Webhooks, `src/webhooks.rs` | none | URL check, signing, verification | nothing calls it |

Handlers run concurrently and meet in one place, the mutex around the
connection. A handler waits for it at its first line and keeps it to its end;
there is no `.await` after the grant, so from then on a handler cannot be
interleaved with another one, or dropped half-way when its client hangs up. What
*can* cut it short is a failing statement, a panic or the death of the process:
every SQL statement commits by itself, there is no transaction, so each of these
leaves behind what was written so far.

### What is hard about it

* rotation is three writes (deprecate, insert, copy the scopes), creation two
  kinds; each boundary between them is a state others can find after a fault;
* verification reads a row, compares it with the clock and writes to it, and its
  answer is read by the client after others had their turn;
* the quota is checked by counting, and rotation does not check it at all;
* the end of the grace is an unsigned number of hours cast to a signed one,
  added to a date that may not be representable, stored as text that may not
  parse back;
* lost answers: the raw key is told once, and a repeated rotation is refused;
* the rate limiter keeps two counts where a sliding window needs every time stamp,
  rotates them lazily, prunes them, and computes in floating point;
* a request is let in on the word of a token or a key, and acts on it later, when
  the token may have run out and the key been rotated or revoked;
* the expiry of a token and the age of a webhook signature are 64-bit sums and
  differences, one of which saturates while the other wraps or panics;
* webhook deliveries may arrive late, twice, or under a mixture of headers;
* the pepper all stored keys were hashed with comes from two environment
  variables, two keychain entries or a file, any of which may have changed, failed
  or been half written by the time of the next start.

`PROJECT.json` lists these as hazards with their lines.

## Modules

* `KeyStore.tla` - the key table, the mutex and the handlers.
* `KeyRegistry.tla` - what the service promises: a registry in which every
  operation is one step.
* `KeyStoreRefinement.tla` - the refinement mapping from the first to the second.
* `KeyStoreHistory.tla` - `KeyStore` with two history variables, for properties
  that look back at the arrival of a request or the moment of a rotation.
* `KeyStoreProofs.tla`, `KeyStoreHistoryProofs.tla`, `KeyStoreRefinementProofs.tla` -
  the proofs about these, the last two resting on the first.
* `RateLimiter.tla` - the rate limiter; `SlidingWindow.tla` - what it promises;
  `RateLimiterHistory.tla` - the limiter with a record of all it allowed, its
  properties and the refinement mapping; `RateLimiterProofs.tla` - its proofs.
* `Secrets.tla` - the resolution and persistence of the secrets over restarts;
  `SecretsProofs.tla` - its proofs.
* `ScopeOrder.tla` - scopes and what they grant; `Access.tla` - tokens, extractors
  and handlers in front of the registry of keys, composed with `KeyRegistry`;
  `AccessProofs.tla` - the proofs about both.
* `Webhooks.tla` - signed payloads between a sender and a receiver;
  `WebhooksProofs.tla` - its proofs.
* `KeyFormat.tla` - the text of a key and its checksum, without state;
  `KeyFormatProofs.tla` - its theorem.
* `MCKeyStore.tla`, `MCKeyStoreHistory.tla`, `MCRateLimiter.tla`, `MCSecrets.tla`,
  `MCAccess.tla`, `MCWebhooks.tla` - the values the configurations use.

### KeyStore

| Variable | Code |
|---|---|
| `status`, `owner`, `lineage`, `expires`, `lastUsed` | columns of `api_keys`, per key |
| `scopes` | the key's rows in `key_scopes` |
| `now` | `Utc::now()`, in hours |
| `lock`, `queue` | the guard of `Database::conn` and the tasks that wait for it |
| `pc`, `job` | where each request is, and what it asks for |
| `given`, `todo`, `new`, `seen` | locals of the running handler |
| `reply` | its answer, until the client reads it |
| `known` | the raw keys clients have been told |

| Action | Code |
|---|---|
| `Arrive`, `Acquire`, `Cancel` | the router calls a handler; it waits for the guard; its future is dropped while it waits |
| `CreateCount`, `CreateInsert`, `InsertScope`, `CreateFinish` | `create_key`, statement by statement |
| `RotateLoad`, `RotateDeprecate`, `RotateInsert`, `InsertScope`, `RotateFinish` | `rotate_key` |
| `Revoke`, `List` | `revoke_key`, `list_keys`: one statement each |
| `VerifyLookup`, `VerifyTouch` | `verify_api_key`: two readings of the clock, so two steps |
| `Deliver`, `LoseReply` | the client reads the answer, or never does |
| `StatementFails`, `ReadCutShort`, `Restart` | rusqlite returns an error; a SELECT fails after some rows, which the code drops silently; the process dies and starts again |

A raw key, its HMAC and its row are one element of `Keys`: the model takes for
granted that generated keys are fresh and that the hash is one-to-one. A lineage
is named by its first key. Scope lists are sequences, because the same scope
twice matters; names, prefixes, environments, verses and creation dates are left
out. The errors a request can provoke before it reaches the store (bad name, bad
scope syntax, bad token) change nothing; the empty scope list stands for them.

Time enters in hours. `Representable` and `Readable` stand for the limits of
chrono: an end of grace outside the first panics, one outside the second is
written as a text that does not parse, which the verifier takes for no expiry.

### RateLimiter

| Variable | Code |
|---|---|
| `now` | `Instant::now()`, in ticks |
| `counters` | both maps of `RateLimitState`: a client is a lineage or an address |
| `answers` | the last `RateLimitResult` of each client |

`Check` (`Deny` or `Allow`) is `check_lineage` and `check_ip` with the
`check_counter` they call, `Prune` is `prune_expired`. Each of them holds the
write guard of the tokio lock from its first statement to its last, so each is one
action. The counters are `u32`: sums wrap at `Word` as they do in a release build.

The clock is finer than the second, as `Instant` is: a second is `Second` ticks, of
which the code has a thousand million, and `Window` is `WindowSecs` seconds. The code
compares and weighs durations with their fractions, and uses whole seconds (`AsSecs`)
in three places: to count the windows that passed, and in the two times it answers
with.

The truncated double is an integer division, except that the product may come out on
the other side of a whole number it is very near to. A double is precise to one part
in `Precision` (some 2^50 in the code), so those that may are `MayRoundDown` and
`MayRoundUp`; those that do are the constants `RoundedDown` and `RoundedUp`, because
the same operands always give the same double. The overlap of a small count is 0 a
good while before the window ends.

`SlidingWindow` has no map, no clock and no pruning: two counts and an age per
client, and the client is idle when the age reaches two windows.

`AppState` has a limiter with a window of 60 seconds, but no handler calls it, so
the callers are modelled as anybody with any limit, `UserTier::rate_limit` being
the only source of limits in the code.

### Secrets

| Variable | Code |
|---|---|
| `keychain`, `file`, `settings` | the two keychain entries, `secrets.toml`, `config.toml` |
| `env` | `LARC_HMAC_PEPPER` and `LARC_JWT_SECRET` at the last start |
| `at`, `pair`, `backend` | where the server and `la-keys init` are in persisting, what and whereto |
| `running`, `source` | the secrets in the server's `Config` and where it has them from |
| `hashed` | the peppers the stored keys were hashed with |
| `overtaken`, `refused`, `excused` | history, for the conditions of the properties |

| Action | Code |
|---|---|
| `StartGiven`, `StartStored`, `StartGenerates` | `resolve_secrets` down to where it returns or begins to persist |
| `InitCommand`, `SaveSettings` | `run_init` before and after persisting |
| `Delete`, `Add`, `AddFails` | `keychain_set`, one `security` command per step |
| `OpenFile`, `WriteFile`, `FileFails` | `write_secrets_file`: truncate, write, permissions |
| `Serve`, `StoreKey` | the rest of the start; `hash_key` under the running pepper |
| `Stop` | the process ends, anywhere |
| `DeleteSettings` | what init tells the user to do to set up again |

`persist_secrets` and the end of `run_init` are the same steps and share their
actions; they differ in what follows success and failure (`Saved`, `Failed`). A
file that does not parse is the same as none. Resolving is one step: it reads and
does not write, and what init writes at the same time is accounted for by
`overtaken`. A start that fails without having written (production, nothing
stored) changes nothing and is not an action.

### Access

| Variable | Code |
|---|---|
| `status`, `owner`, `lineage`, `expires`, `scopes`, `now` | those of `KeyRegistry` |
| `secret` | `Config.jwt_secret` of the running process |
| `tokens` | the tokens clients have |
| `pc`, `job`, `cred`, `principal` | per request: where it is, what it asks for, the credential in its header, what the extractor made of it |
| `since`, `stood` | history: when a request with a token arrived, how the key stood when one with a key did |

| Action | Code |
|---|---|
| `Mint`, `Discard` | `generate_jwt`; a client forgets a token |
| `ArriveAdmin` | `AdminPrincipal::from_request_parts` and the handler down to its first await |
| `ArriveConsumer`, `Verified` | `ApiKeyPrincipal::from_request_parts` before and after its await |
| `Create`, `Rotate`, `Revoke`, `Served` | the handlers behind the two principals |
| `Leave`, `Restart`, `Tick` | the client hangs up; another process, maybe with another secret; the clock |

The handlers' effect on the table is the registry's, in one step, which is what
the run `verify` shows them to be; `Torn` brings in what a failure half-way leaves
behind: fewer scopes, a rotation without a successor, a principal whose scopes
were not all read. A token is a record that holds the secret it was signed with,
since signatures (HS256) are the library's; `Accepted` is what jsonwebtoken does
with `exp`: it reads it as an unsigned number, and allows a leeway, 60 seconds
unless set otherwise, which `validate_jwt` does not. Nothing in the repository
calls `generate_jwt` or takes an `ApiKeyPrincipal`, so anybody may have a token
made, for any user id and lifetime, and any handler may hold a key's principal for
any time.

### Webhooks

`Send` is a call of `sign_webhook_payload` by a sender with a clock of its own,
`Deliver` one of `verify_webhook_signature` by a receiver, with any body and any
header made of parts that were sent and parts nobody wrote. `sent` and `last` are
history. The header is a sequence of parts, of which the last of each kind counts
(`LastOf`); an HMAC is a record of what it was computed from; a body is signed by
its text (`Text`), because the code reads it with `from_utf8_lossy`. `Timeliness`
has the possible outcomes of comparing the times: within `i64` there is one, beyond
it a release build wraps and a debug build panics.

### KeyFormat

A key is its head and the sequence of characters after it. The numbers and the
checksum are written in base 62 without padding, so validation tries every length
the checksum may have. What the theorem assumes of the libraries is `Libraries`.

Operators whose comment begins "Seeded fault" are wrong variants of the operator
after them. No specification uses them; they are there to show that each property
notices the bug.

## Properties and runs

| Run | Checks | Instance |
|---|---|---|
| `calls` | `TypeOK`, `OneActivePerLineage`, `ActiveQuota`, `AnswersMatchTable`, `NoStrandedLineage`, `RowsOnlyAge`, `EveryKeyIsTold` | 3 keys, 2 requests, a registered and an unregistered principal, limit 2, no faults; at hour 1 rotation panics |
| `faults` | `Inductive`, `QuotaInductive`, `SuccessorsKeepAuthority`, `AnswersMatchTable`, `RowsOnlyAge` | 2 keys, 2 requests, 2 users, limit 1, all endpoints, every fault |
| `verify` | `VerifyLinearizable`, `GraceHonoured`, `GraceEnds`, `EveryRequestEnds`, `RegistrySpec` | 2 keys, 2 requests, all endpoints but `list`, fair handlers, 3 hours: rotated at hour 0 the end of grace is readable, at hour 1 not, at hour 2 it panics |
| `principals` | `TypeOK`, `ActedForOwner`, `PrincipalIsTrue`, `TokensLast` | 2 keys, 2 secrets, a registered and an unregistered principal, one administrative request and one with a key at a time, a word of 16 with lifetimes 0 and 7, a leeway of 1, failures half-way |
| `deliveries` | `AcceptedWasSigned`, `UnalteredVerifies` | 3 bodies of 2 texts, 2 secrets on either side, 2 signatures, headers of up to 3 parts, a word of 16, 4 instants, clocks 2 apart, a tolerance of 1 |
| `window` | `TypeOK`, `BurstBound`, `DenialsAreEarned`, `RemainingIsTrue`, `SlidingSpec` | 1 client, limits 1 and 3, window of 2 seconds, 14 instants half a second apart, all products rounded down that may be, pruning at any instant |
| `restarts` | `TypeOK`, `SavedIsFound`, `SetupIsFound`, `KeysSurvive` | both backends, all six environments, 3 generated pairs, every failure |
| `expiry`, `strands`, `repeats`, `idle`, `ignored` | one refuted statement each | see below |

Why these bounds are enough to be interesting. Two requests are all it takes for
one to queue behind the other, to be cancelled there, or to find what the other
left; the mutex lets no third one make a difference, except to fairness, which
does not depend on the number. Three keys make a rotation of a rotated key, and a
lineage next to another one; two keys are enough for a fault in the middle of a
rotation followed by any other request. A grace of one hour and two to four
instants put arrival, rotation, its end and the verification on either side of
every boundary. `RegistrySpec` shares its run with them: with two keys, a rotation
of the successor is refused for want of a key, which is what `calls` is for. The
bounds are `MaxTime` (the clock stops), and `KeysLeft` (a
request that inserts a key starts only while one is left for it).

Clients of the rate limiter share nothing but the clock and the pruning task, so
one is enough. Fourteen instants hold three windows of four, the longest a count can
matter. Half seconds are enough for a window to end, or an overlap to become 0,
between two seconds: with a previous count of 1 it does so after the first tick, with
3 in the last. All products that may be are rounded down in `window`, the most the
limiter can forget; all are exact in `idle`, and the proofs are for any. In `window`
the bound of `BurstBound` is reached: 6 requests in 4 ticks. The bound on the clock
is `MaxTime`. The secrets need three generated pairs, for a server, an init and
one more of either; the bound is `MaxPairs`.

In `principals` one request with a token and one with a key are enough, since the
extractors share nothing but the table; all changes others could make are those of
`Create`, `Rotate`, `Revoke` and `Restart`. Clients hold one token at a time but
may throw it away, and a request keeps the one it came with. A lifetime of 0 runs
out within the clock, one of 7 reaches the end of the word from instant 1 on; the
lifetimes that turn negative are left to the proof. The bounds are `MaxTokens`,
`MaxTime` and `Uses`. In `deliveries`, three parts are the least that let a part be
followed by two others; the stray timestamps are the end of the word and the one
whose distance first wraps. The bounds are `MaxSent`, `MaxParts` and `MaxTime`; the
invariants hold whatever `last` is, so it is forgotten at the next action.

`CHECK_DEADLOCK` stays on: clients can always ask again.

Requests are interchangeable, and so are keys and users, so all runs but those
with fairness use symmetry; none of the definitions chooses among them.

Fairness. `EveryRequestEnds` needs the grant of the mutex and the steps of a
handler to be weakly fair. Tokio's mutex is first come first served and its
runtime polls a task that was woken; a handler with the guard has no await point
and no loop but the one over its scopes. Nothing is assumed of clients, the
clock or faults.

### What does not hold

Five statements of the repository are refuted; each has a run that ends in the
counterexample.

* `expiry`: "a background job revokes it" (`src/repo.rs:156`). There is none: an
  expired key stays deprecated, and goes on counting against the limit, so that
  creation is refused with "N active keys" when there are fewer.
* `strands`: rotation creates a new key and deprecates the old one
  (`src/repo.rs:152`). A crash between the two leaves the lineage without a
  successor; the old key expires and cannot be rotated again.
* `repeats`: "Returns the full key ONCE" (`src/handlers.rs:72`). A scope named
  twice makes the second insert fail after the key was committed.
* `idle`: "Current window count + (previous window count * overlap ratio)" and
  "Near-exact accuracy" (`src/rate_limit.rs:10-11`). A window that is over is
  rotated at the first request after its end, and starts then: its count weighs in
  full although it may be nearly two windows old. A client that used its limit,
  and nothing for more than a window, is denied, and told to wait one more. What
  does hold is `DenialsAreEarned` (within three windows) and `BurstBound`.
* `ignored`: environment variables come first (`src/config.rs:68-69`). With one of
  the two set and nothing stored, both secrets are generated and the variable is
  ignored; at the next start it wins over the file, and the keys hashed in between
  no longer verify.

Without a run: the payload of a webhook is signed "`{timestamp}.{raw_body}`"
(`src/webhooks.rs:110`), but through `from_utf8_lossy`, so that a body that is no
UTF-8 is not what is signed, and bodies that differ only there have one signature:
`AcceptedWasSigned` says "text" for this reason; a `v1=` part that is not the last
one is ignored, so a sender cannot sign with an old and a new secret at once; a
token is good for a minute longer than its `exp` says, and a request that was let
in acts however long it waits; rotation adds a key without counting, so that "Maximum keys per
user" (`src/config.rs:32`) bounds the active keys (`ActiveQuota`) and not those
creation counts; a failing lookup is answered as an invalid key
(`src/repo.rs:294`); a grace period of 2^63 hours or more turns negative in the
cast (`src/repo.rs:203`), so the old key stops at once; in production stored
secrets are accepted although "env vars are required" (`src/config.rs:74`); and the
README names endpoints (`GET /keys/:id`, `PATCH`), tables (audit log, rate
counters), webhook delivery and a `serve` command that the code does not have.

`KeysSurvive` holds but for the cases it names, which the code does have: a
keychain entry that cannot be read counts as absent and is replaced; init, run
after the server has stored keys, replaces the pepper without a word; keys stored
while the log says that the secrets are ephemeral are lost at the next start.

## Proofs

All theorems hold for any number of keys, users, requests, scopes or clients, for
any limit, grace or window; those about the key store with faults or without unless
the last column says otherwise.

| Module | Theorem | Statement | Needs |
|---|---|---|---|
| `KeyStoreProofs` | `InductiveHolds` | `Spec => []Inductive` | |
| | `TypeCorrect` | `Spec => []TypeOK` | |
| | `OneActive` | `Spec => []OneActivePerLineage` | |
| | `AuthorityKept` | `Spec => []SuccessorsKeepAuthority` | |
| | `QuotaAndRoom` | `Spec => []QuotaInductive` | |
| | `QuotaKept` | `Spec => []ActiveQuota` | |
| | `RowsAge` | `Spec => RowsOnlyAge` | |
| | `AnswersTrue` | `Spec => []AnswersMatchTable` | |
| | `NothingStranded` | `Spec => []NoStrandedLineage` | no faults |
| | `KeysTold` | `Spec => EveryKeyIsTold` | no faults, no request that names a scope twice |
| | `MutexComesBack` | `Spec => [](Held /\ Queued /\ Enqueued)` | |
| | `HandlersEnd` | each step of a handler makes `Left` smaller | |
| `KeyStoreHistoryProofs` | `GraceIsHonoured` | `HSpec => []GraceHonoured` | `GraceHours < HalfWord` |
| | `GraceIsOver` | `HSpec => []GraceEnds` | `GraceHours < HalfWord` |
| | `VerifyIsLinearizable` | `HSpec => []VerifyLinearizable` | no faults |
| `KeyStoreRefinementProofs` | `ImplementsRegistry` | `Spec => RegistrySpec` | `GraceHours < HalfWord` |
| `RateLimiterProofs` | `LimiterTypes` | `Spec => []TypeOK` | |
| | `PruningUnnoticed` | `Spec => SlidingSpec` | |
| | `DenialsEarned` | `HSpec => []DenialsAreEarned` | |
| | `BurstBounded` | `HSpec => []BurstBound` | `NoWrap` |
| | `TwiceTheLimit` | no stretch as long as the window has more than twice the greatest limit | `NoWrap` |
| | `RemainingTrue` | `HSpec => RemainingIsTrue` | `NoWrap` |
| `SecretsProofs` | `SecretsInductive` | `Spec => []Inductive` | |
| | `SecretsTyped` | `Spec => []TypeOK` | |
| | `SavedFound` | `Spec => []SavedIsFound` | says nothing of processes another one has overtaken, or after the keychain refused |
| | `SetupFound` | `Spec => []SetupIsFound` | the same |
| | `KeysKept` | `Spec => []KeysSurvive` | |
| `AccessProofs` | `GrantsIsOrder` | `grants` is a partial order | |
| | `PrincipalsTyped` | `Spec => []TypeOK` | |
| | `OwnersOnly` | `Spec => ActedForOwner` | |
| | `PrincipalsTrue` | `Spec => []PrincipalIsTrue` | |
| | `TokensGood` | `Spec => []TokensLast` | |
| `WebhooksProofs` | `OnlySignedAccepted` | `Spec => []AcceptedWasSigned` | |
| | `UnalteredAccepted` | `Spec => []UnalteredVerifies` | |
| `KeyFormatProofs` | `GeneratedIsRecognised` | generated keys pass the client-side checks | |

The argument. `OneActivePerLineage` is not inductive: the INSERT of a rotation
needs to know that the lineage has no active key left, which is so because the
same handler deprecated the old one two statements before and nobody else wrote
in between. `Inductive` says this: `Exclusive` (a request inside its handler
holds the mutex), `Bookkeeping` (`Holding`: what its position says about its
operation and the row it inserted; `OldKey`: the row a rotation loaded is still
there, has the requester for owner, the scopes to be copied are among its
scopes, it is active until it is deprecated, and then its lineage has no active
key until the insert) and `RowsComplete` (a missing row has no scopes; the first
key of a lineage exists and has the same owner). A step of one request keeps the
bookkeeping of the others because they are outside their handlers.

The quota needs one more part, `Room`: a handler about to insert finds fewer
active keys than the limit. For a creation the count says so, for a rotation the
quota itself: it has just taken one active key away.

The assumptions are those of the constants: finitely many keys and scopes, users
among the principals, numbers of the right sort, and distinct null values.

The other theorems about the key store rest on `Inductive` and add to it:

* Rows age (`Ages`) because every write of a status is guarded by an earlier
  reading under the same guard of the mutex; for `last_used_at` this needs
  `Touchable`, that the row a verification is about to touch is not revoked.
* An answer is true while it is under way (`Tells`) because the handler that made
  it had every scope in the row (`Carries`: inserted and left to insert are what it
  was given), no request is still inserting into that row, and no wildcard is in
  any (`Clean`). `Silent` says that a request that asks has no answer yet, `Queued`
  that it is in the queue of the mutex exactly once.
* The lineage of a deprecated key has an active or a revoked key, or a rotation of
  it is about to insert one (`AllSucceeded`).
* The grace of a rotated key is read off its row, so `GraceRecorded` ties the
  column to the history variable, and `Ages` keeps it there.
* For linearizability the invariant orders what was true of the key at arrival,
  at the lookup, in the answer and now (`Asked`, `Judged`): a key only gets worse,
  so an answer between the first and the last was true of a moment between them.
* The refinement shows the table without the rows that are still being made, and
  with the old key of a rotation still active, while some request holds the mutex
  between its first write and its last. It needs more of these requests than the
  properties did: `Creating` (the quota at the count still holds at the end),
  `Renewing` (the old key has the end of its grace already, each scope is copied
  once) and `Fresh` (nobody touches the new row). A statement that leaves the
  handler in between is a stutter (`QuietShows`, `BusyShows`), its last one is the
  registry's step, with all scopes or, cut short, with some (`FinishShows`), and a
  handler that is cut short before its insert is the registry's `Strand` if it is a
  rotation, else a stutter (`AbandonShows`).

* A handler still has to insert scopes its new row does not have, each once
  (`AllInsert`): a listing of the old key's scopes repeats none (`ListingComplete`),
  and the request's list does not by hypothesis. So the UNIQUE constraint of
  `key_scopes` never bites, and the only way out of the handler is its last step,
  which tells the key.
* Of `EveryRequestEnds`, which is out of the prover's reach because its fairness is
  stated with ENABLED, two theorems are the part that is safety. `MutexComesBack`:
  whoever holds the guard is inside his handler, so no return, failure, panic or
  dropped future leaves it behind, and who waits is in the queue, once.
  `HandlersEnd`: what a handler has before it (`Left`, its statements and the scopes
  to copy) is a natural number and shrinks with each of its steps. The queue is
  first come first served, so weak fairness is all that is missing.

The hypotheses are where the code stops keeping the promise: from 2^63 hours
on the cast to `i64` makes the end of grace lie in the past; after a failing
statement a lineage may be without a key, a key untold, and a lookup that failed is
answered as an invalid key; and a scope named twice is the run `repeats`. Without
them the proofs fail, as they should.

The rate limiter is proved to implement `SlidingWindow` for every window, limit,
word size and resolution of the clock, and for every rounding of the products that
the precision allows. The type invariant
is inductive; the step of the refinement is that opening the abstract window is
the same as making and rotating an entry (`OpenIsEntry`), at the boundaries of one
and of two windows, with `TwoWindows` for the divisions in the code (whole seconds
by the window's seconds: cutting off twice does no harm); pruning maps
to a stutter, because what it drops is idle already.

What its counters are worth is proved by tying them to the record of what was
allowed (`granted`), which the code does not keep. `Logged` says that what a counter
counts is in the record: as many requests as its current count since its window
began, as many as both counts in the two windows before that and since (`Covered`);
a client without a counter was allowed nothing for a window (`LongAgo`). This holds
whether counts wrap or not, and is all that `DenialsEarned` needs besides `Blocked`:
the counter that denied is still there and weighs at least the limit. The converse,
`AllCounted`, is that the record holds little that is not in the counter: what was
allowed before the current window keeps to the pace of one limit per window, back from
its start (`Counted`), or back from now if there is no counter (`Paced`). Within a
window at most the limit is allowed, whatever the overlap adds to the count, and the
next one begins a window later at the earliest, so that the pace is kept when a counter
is rotated, reset or pruned (`PacedAfter`, with `Windows` counting the windows that fit
into some time). `BurstBound` is inductive together with these: the request just
allowed and an earlier one are both of the current window, or the earlier one kept to
the pace. Nothing is used of the overlap but that it does not make the sum wrap, which
takes `NoWrap`: twice the greatest limit is below the word, as it is for every
tier (`src/types.rs:221`). A bound below twice the limit for a stretch as long as
the window would have to speak of the overlap, and would be false: the overlap of
a burst at the end of a window is 0 before that burst is a window old.
`RemainingTrue` adds `Promised`: the counter the last answer was given from is
there at that moment, pruned or not, and has what the answer said left.

The invariant of `Secrets` says what lies on the disk at each step of persisting.
`ServerSaves` and `InitSaves` do so for a server and for `la-keys init`: which of the
keychain entries are gone or hold the process's pair (`Progress`), why the other
backend cannot answer before the one that is written - there is no file, or the
keychain lacks an entry, or the settings say which is asked first - and that the next
start finds the pair once the process says so. None of it is claimed of a process
that another one has overtaken, or when the keychain refused. `Excused` says of a
server that runs in the conditions of `KeysSurvive` that nobody has overtaken it, and
`HashedIsFound` carries the pepper of the stored keys from the server that hashed them
over its end to the next start: it is the variable's, or the one that `Stored` gives.

The invariant of `Access` says of each request what its extractor saw and what of
it is still true (`Admitted`, `Presented`, `Copied`): rows only age (`TableAges`,
proved of each handler), so that a key that could not be used when it arrived
cannot be used later (`UselessStays`), and a copy that says "not deprecated" is of
a key that was active on arrival. `TokensInv` has the three values an expiry can
take, and no wildcard is ever in the table (`RowsInv`), without which `has_scope`
would say more than the key's scopes do. The assumptions are that the clock stays
below the end of the word and that credentials of different kinds differ.

For webhooks the arithmetic is the argument: the sender's clock and the receiver's
lie between 0 and the end of the word, so that the difference of the times does not
wrap for any timestamp that was signed; for those that were not, the signature
fails. `LastOfIsPart` and `OwnPartsLast` say what reading a header finds.

Each of these invariants was an invariant of a run of TLC before it was proved; of
those in `KeyStore` the run `faults` still checks two (`Inductive`, `QuotaInductive`).

Only model-checked: `EveryRequestEnds`, because neither fairness nor ENABLED is within
the prover's reach, and the five statements that are refuted. Every other property of
a passing run is a theorem.

## Not modelled

Cryptography (key derivation, hashes, token and webhook signatures, comparison in
constant time), the verses (data, and a random choice from it), HTTP parsing,
logging, file permissions, the migration of the database (it runs before the first
request and is the initial state), the check of webhook addresses, which is a pure
test of a URL without a state or a caller, and the settings of the HTTP client. The
tables of users, webhooks and audit entries are never written.

## Plan

1. *Done*: the key store, its handlers, the registry, the first proofs.
2. *Done*: the rate limiter and its refinement, with the proof.
3. *Done*: the secrets over restarts.
4. *Done*: scopes and principals, webhooks, the text of keys, with their proofs.
5. *Done*: the rest of the key store proved: rows, answers, grace,
   linearizability of verification, refinement of the registry.
6. *Done*: the secrets proved over restarts and failing writes; the counts of the
   rate limiter tied to what it allowed; that every key is told; the safety part of
   liveness.
7. Left: nothing that a run checks and the prover can state. Worth more work are
   what the access layer takes for granted of the key store (that `Torn` brings in
   all a failure can leave), as a refinement of its own, and the registry's
   properties stated of `KeyRegistry` itself.
