---------------------------- MODULE AccessProofs ----------------------------
(***************************************************************************)
(* Proofs about scopes and principals, for any services, keys, users,      *)
(* tokens and requests, any leeway and any width of the integers.          *)
(***************************************************************************)
EXTENDS Access, TLAPS

-----------------------------------------------------------------------------
(* Scopes *)

(* grants is a partial order on scopes (types.rs:122): a scope grants itself,
   nothing else grants it and is granted by it, and what a granted scope
   grants was granted already. *)
THEOREM GrantsIsOrder ==
    /\ \A s \in Scope : Grants(s, s)
    /\ \A s, q \in Scope : Grants(s, q) /\ Grants(q, s) => s = q
    /\ \A s, q, t \in Scope : Grants(s, q) /\ Grants(q, t) => Grants(s, t)
<1>1. \A s \in Scope : Grants(s, s)
  BY DEF Scope, Permissions, Grants, Implies
<1>2. \A s, q \in Scope : Grants(s, q) /\ Grants(q, s) => s = q
  <2> SUFFICES ASSUME NEW s \in Scope, NEW q \in Scope, Grants(s, q), Grants(q, s)
               PROVE  s = q
    OBVIOUS
  <2>1. s.service = q.service
    BY DEF Grants
  <2>2. s.permission = q.permission
    BY DEF Grants, Implies, Scope, Permissions
  <2> QED
    BY <2>1, <2>2 DEF Scope
<1>3. \A s, q, t \in Scope : Grants(s, q) /\ Grants(q, t) => Grants(s, t)
  BY DEF Scope, Permissions, Grants, Implies
<1> QED
  BY <1>1, <1>2, <1>3

(* A principal with more scopes is refused nothing it was granted with fewer:
   a rotation that copies only some of them narrows what the key may do. *)
THEOREM HasScopeMonotone ==
    ASSUME NEW S, NEW T, S \subseteq T, NEW q, HasScope(S, q)
    PROVE  HasScope(T, q)
BY DEF HasScope

(* Without wildcards, has_scope says yes exactly to the scopes that name one of
   the key's services at a level it has. *)
LEMMA HasScopeExact ==
    ASSUME NEW S \in SUBSET Scope, S \cap Wildcards = {}, NEW q \in Scope
    PROVE  HasScope(S, q) <=> NamedIn(S, q)
<1>1. \A p, o \in Permissions : Implies(p, o) <=> Level[p] >= Level[o]
  BY DEF Permissions, Implies, Level
<1>2. \A s \in S : s.service # All /\ s.permission \in Permissions
  BY DEF Wildcards, Scope
<1> QED
  BY <1>1, <1>2 DEF HasScope, Grants, NamedIn, Scope

-----------------------------------------------------------------------------
(* The inductive invariant *)

(* Rows have owners, and no wildcard is ever issued. *)
RowsInv ==
    \A k \in Issued : owner[k] \in Users /\ scopes[k] \cap Wildcards = {}

(* A token's expiry is the sum, or the end of the range, or long past. *)
TokensInv ==
    /\ now <= MaxTime
    /\ \A t \in tokens :
        /\ t.exp <= t.iat + t.life \/ t.exp < 0
        /\ t.life < HalfWord => t.exp = t.iat + t.life \/ t.exp = HalfWord - 1

(* An admin request that waits was let in by a token that was good then. *)
Admitted(r) ==
    pc[r] = "waiting" =>
        /\ principal[r] = cred[r].sub /\ cred[r].key = secret
        /\ since[r] <= cred[r].iat + cred[r].life + Leeway

(* A key that is being verified, or was, has only aged since it arrived. *)
Presented(r) ==
    pc[r] \in {"verifying", "serving"} =>
        /\ stood[r] # "none"
        /\ stood[r] # "revoked" => cred[r] \in Issued
        /\ cred[r] \in Keys => cred[r] \in Issued
        /\ stood[r] = "revoked" => ~Usable(cred[r])
        /\ stood[r] = "deprecated" => status[cred[r]] # "active"

(* What a principal holds is copied from a row whose scopes are fixed. *)
Copied(r) ==
    pc[r] = "serving" =>
        /\ principal[r].key = cred[r] /\ cred[r] \in Issued
        /\ principal[r].user = owner[cred[r]]
        /\ principal[r].scopes \subseteq scopes[cred[r]]
        /\ Torn \/ principal[r].scopes = scopes[cred[r]]
        /\ stood[r] \in {"active", "deprecated"}
        /\ IF principal[r].deprecated THEN status[cred[r]] # "active" ELSE stood[r] = "active"

Inductive ==
    /\ TypeOK /\ RowsInv /\ TokensInv
    /\ \A r \in Requests : Admitted(r) /\ Presented(r) /\ Copied(r)

LEMMA InitInductive == Init => Inductive
BY AccessNumbers, AccessSets, CredentialsAssumption
   DEF Init, Registry!Init, Inductive, TypeOK, RowsInv, TokensInv, Admitted, Presented, Copied,
       Issued, NoJob, Job

-----------------------------------------------------------------------------
(* What a step does to the table *)

(* The change the request r makes to the table, on behalf of its principal. *)
Acts(r, k) ==
    /\ pc[r] = "waiting" /\ principal[r] = owner'[k]
    /\ k \in Issued => owner'[k] = owner[k]

TableTypes ==
    /\ status' \in [Keys -> {"none", "active", "deprecated", "revoked"}]
    /\ owner' \in [Keys -> Users \cup {NoUser}]
    /\ lineage' \in [Keys -> Keys \cup {NoKey}]
    /\ expires' \in [Keys -> Readable \cup {Null}]
    /\ scopes' \in [Keys -> SUBSET Scope]

(* Rows only age, and stay complete. *)
TableAges ==
    \A k \in Issued :
        /\ k \in Issued'
        /\ owner'[k] = owner[k] /\ scopes'[k] = scopes[k]
        /\ status'[k] = "active" => status[k] = "active"
        /\ status[k] = "revoked" => status'[k] = "revoked"
        /\ status[k] = "deprecated" => expires'[k] = expires[k]

TableStep == TableTypes /\ TableAges /\ RowsInv' /\ now' = now

LEMMA SameTable ==
    ASSUME Inductive, UNCHANGED registry, UNCHANGED now
    PROVE  TableStep
BY DEF Inductive, TypeOK, TableStep, TableTypes, TableAges, RowsInv, registry, Issued

LEMMA CreateStep ==
    ASSUME Inductive, NEW r \in Requests, Create(r)
    PROVE  TableStep /\ \A k \in Keys : status'[k] # status[k] => Acts(r, k)
<1>1. CASE UNCHANGED <<registry, now>>
  BY <1>1, SameTable DEF registry, Inductive, TypeOK
<1>2. ASSUME NEW k \in Keys, NEW S \in SUBSET job[r].ask, Registered(principal[r]),
             Registry!Create(k, principal[r], S)
      PROVE  TableStep /\ \A j \in Keys : status'[j] # status[j] => Acts(r, j)
  <2> USE DEF Registry!Create, Registry!Issue
  <2>1. S \in SUBSET Scope /\ principal[r] \in Users
    BY <1>2 DEF Create, Inductive, TypeOK, Job, Registered
  <2>2. TableTypes
    BY <1>2, <2>1 DEF TableTypes, Inductive, TypeOK
  <2>3. TableAges
    BY <1>2 DEF TableAges, Issued, Inductive, TypeOK
  <2>4. RowsInv'
    BY <1>2, <2>1 DEF RowsInv, Issued, Inductive, TypeOK, Wildcards
  <2>5. \A j \in Keys : status'[j] # status[j] => Acts(r, j)
    BY <1>2, <2>3 DEF Acts, Create, Inductive, TypeOK, TableAges
  <2> QED
    BY <1>2, <2>2, <2>3, <2>4, <2>5 DEF TableStep
<1> QED
  BY <1>1, <1>2 DEF Create

(* What rotation does to the old row. *)
LEMMA RetireFacts ==
    ASSUME Inductive, NEW old \in Keys, Registry!Retire(old)
    PROVE  /\ status[old] = "active"
           /\ expires' \in [Keys -> Readable \cup {Null}]
           /\ \A k \in Keys : k # old => expires'[k] = expires[k]
BY DEF Inductive, TypeOK, Registry!Retire, Registry!End

LEMMA RotateStep ==
    ASSUME Inductive, NEW r \in Requests, Rotate(r)
    PROVE  TableStep /\ \A k \in Keys : status'[k] # status[k] => Acts(r, k)
<1> DEFINE old == job[r].key
<1>1. CASE UNCHANGED <<registry, now>>
  BY <1>1, SameTable DEF registry, Inductive, TypeOK
<1>2. ASSUME NEW k \in Keys, NEW S \in SUBSET scopes[old],
             OwnLive(old, principal[r]), Registry!Rotate(old, k, S)
      PROVE  TableStep /\ \A j \in Keys : status'[j] # status[j] => Acts(r, j)
  <2> USE DEF Registry!Rotate, Registry!Issue
  <2>1. old \in Issued /\ owner[old] = principal[r] /\ old # k
    BY <1>2 DEF OwnLive, Issued
  <2>2. S \in SUBSET Scope /\ S \cap Wildcards = {} /\ owner[old] \in Users
    BY <1>2, <2>1 DEF Inductive, TypeOK, RowsInv, Issued
  <2>3. /\ status[old] = "active" /\ expires' \in [Keys -> Readable \cup {Null}]
        /\ \A j \in Keys : j # old => expires'[j] = expires[j]
    BY <1>2, <2>1, RetireFacts DEF Issued
  <2>4. TableTypes
    BY <1>2, <2>1, <2>2, <2>3 DEF TableTypes, Inductive, TypeOK, Issued
  <2>5. TableAges
    BY <1>2, <2>1, <2>3 DEF TableAges, Issued, Inductive, TypeOK
  <2>6. RowsInv'
    BY <1>2, <2>1, <2>2 DEF RowsInv, Issued, Inductive, TypeOK
  <2>7. \A j \in Keys : status'[j] # status[j] => Acts(r, j)
    BY <1>2, <2>1, <2>5 DEF Acts, Rotate, Inductive, TypeOK, TableAges, Issued
  <2> QED
    BY <1>2, <2>4, <2>5, <2>6, <2>7 DEF TableStep
<1>3. ASSUME OwnLive(old, principal[r]), Registry!Strand(old)
      PROVE  TableStep /\ \A j \in Keys : status'[j] # status[j] => Acts(r, j)
  <2> USE DEF Registry!Strand
  <2>1. old \in Issued /\ owner[old] = principal[r]
    BY <1>3 DEF OwnLive
  <2>2. /\ status[old] = "active" /\ expires' \in [Keys -> Readable \cup {Null}]
        /\ \A j \in Keys : j # old => expires'[j] = expires[j]
    BY <1>3, <2>1, RetireFacts DEF Issued
  <2> QED
    BY <1>3, <2>1, <2>2
       DEF TableStep, TableTypes, TableAges, RowsInv, Acts, Rotate, Inductive, TypeOK, Issued
<1> QED
  BY <1>1, <1>2, <1>3 DEF Rotate

LEMMA RevokeStep ==
    ASSUME Inductive, NEW r \in Requests, Revoke(r)
    PROVE  TableStep /\ \A k \in Keys : status'[k] # status[k] => Acts(r, k)
<1>1. CASE UNCHANGED <<registry, now>>
  BY <1>1, SameTable DEF registry, Inductive, TypeOK
<1>2. CASE OwnLive(job[r].key, principal[r]) /\ Registry!Revoke(job[r].key)
  BY <1>2 DEF TableStep, TableTypes, TableAges, RowsInv, Acts, Revoke, OwnLive,
              Inductive, TypeOK, Issued, Registry!Revoke
<1> QED
  BY <1>1, <1>2 DEF Revoke

-----------------------------------------------------------------------------
(* What a step does to the requests *)

Same(r) ==
    /\ pc'[r] = pc[r] /\ cred'[r] = cred[r] /\ principal'[r] = principal[r]
    /\ since'[r] = since[r] /\ stood'[r] = stood[r]

Ends(r) == pc'[r] = "idle"

LetIn(r) ==
    /\ pc[r] = "idle" /\ pc'[r] = "waiting" /\ cred'[r] \in tokens /\ Accepted(cred'[r])
    /\ principal'[r] = cred'[r].sub /\ since'[r] = now

Begins(r) ==
    /\ pc[r] = "idle" /\ pc'[r] = "verifying" /\ cred'[r] \in Issued \cup {NoKey}
    /\ stood'[r] = Stands(cred'[r])

Copies(r) ==
    /\ pc[r] = "verifying" /\ pc'[r] = "serving" /\ Usable(cred[r])
    /\ cred'[r] = cred[r] /\ stood'[r] = stood[r]
    /\ \E S \in SUBSET scopes[cred[r]] :
        /\ S = scopes[cred[r]] \/ Torn
        /\ principal'[r] = [user |-> owner[cred[r]], key |-> cred[r], scopes |-> S,
                            deprecated |-> status[cred[r]] = "deprecated"]

Moves(r) == Same(r) \/ Ends(r) \/ LetIn(r) \/ Begins(r) \/ Copies(r)

RequestTypes ==
    /\ pc' \in [Requests -> {"idle", "waiting", "verifying", "serving"}]
    /\ job' \in [Requests -> Job]
    /\ cred' \in [Requests -> Token \cup Keys \cup {NoKey, NoToken}]
    /\ principal' \in [Requests -> Principals \cup ApiKeyPrincipal \cup {Nobody}]
    /\ since' \in [Requests -> Nat]
    /\ stood' \in [Requests -> {"none", "active", "deprecated", "revoked"}]

(* Either nobody's request moves but in a table that stays, or requests stay
   or end while the table changes. *)
RequestStep ==
    /\ RequestTypes
    /\ \A r \in Requests : Moves(r)
    /\ \/ UNCHANGED <<registry, now>>
       \/ \A r \in Requests : Same(r) \/ Ends(r)

LEMMA AnswerMoves ==
    ASSUME Inductive, NEW r \in Requests, Answer(r)
    PROVE  RequestStep
<1>1. NoJob \in Job
  BY DEF NoJob, Job
<1>2. RequestTypes
  BY <1>1 DEF Inductive, TypeOK, Answer, RequestTypes
<1>3. \A q \in Requests : Same(q) \/ Ends(q)
  BY DEF Inductive, TypeOK, Answer, Same, Ends
<1> QED
  BY <1>2, <1>3 DEF RequestStep, Moves

LEMMA ArriveAdminMoves ==
    ASSUME Inductive, NEW r \in Requests, NEW j \in Asks, NEW c, ArriveAdmin(r, j, c)
    PROVE  RequestStep
<1>1. j \in Job
  BY AccessSets DEF Asks, Job, NoJob, Issued
<1>2. CASE Answer(r)
  BY <1>2, AnswerMoves
<1>3. CASE c \in tokens /\ Accepted(c) /\ Wait(r, j, c, "waiting", c.sub, now, "none")
  <2>1. c \in Token /\ c.sub \in Principals /\ now \in Nat
    BY <1>3 DEF Inductive, TypeOK, Token
  <2>2. RequestTypes
    BY <1>1, <1>3, <2>1 DEF Inductive, TypeOK, Wait, RequestTypes
  <2>3. LetIn(r) /\ \A q \in Requests : q # r => Same(q)
    BY <1>3 DEF Inductive, TypeOK, ArriveAdmin, Wait, LetIn, Same, Accepted
  <2> QED
    BY <2>2, <2>3 DEF RequestStep, Moves, ArriveAdmin, registry
<1> QED
  BY <1>2, <1>3 DEF ArriveAdmin

LEMMA StandsType == ASSUME Inductive, NEW c PROVE Stands(c) \in {"active", "deprecated", "revoked"}
BY DEF Stands, Usable, Issued, Inductive, TypeOK

LEMMA ArriveConsumerMoves ==
    ASSUME Inductive, NEW r \in Requests, NEW j \in Asks, NEW c \in Credentials,
           ArriveConsumer(r, j, c)
    PROVE  RequestStep
<1>1. j \in Job
  BY AccessSets DEF Asks, Job, NoJob, Issued
<1>2. CASE Answer(r)
  BY <1>2, AnswerMoves
<1>3. CASE IsApiKey(c) /\ Wait(r, j, c, "verifying", Nobody, 0, Stands(c))
  <2>1. c \in Issued \cup {NoKey} /\ c \in Keys \cup {NoKey}
    BY <1>3, CredentialsAssumption DEF IsApiKey, Credentials, Issued, Inductive, TypeOK
  <2>2. RequestTypes
    BY <1>1, <1>3, <2>1, StandsType DEF Inductive, TypeOK, Wait, RequestTypes
  <2>3. Begins(r) /\ \A q \in Requests : q # r => Same(q)
    BY <1>3, <2>1 DEF Inductive, TypeOK, ArriveConsumer, Wait, Begins, Same
  <2> QED
    BY <2>2, <2>3 DEF RequestStep, Moves, ArriveConsumer, registry
<1> QED
  BY <1>2, <1>3 DEF ArriveConsumer

LEMMA VerifiedMoves ==
    ASSUME Inductive, NEW r \in Requests, Verified(r)
    PROVE  RequestStep
<1> DEFINE k == cred[r]
           p(S) == [user |-> owner[k], key |-> k, scopes |-> S,
                    deprecated |-> status[k] = "deprecated"]
<1>1. CASE Answer(r)
  BY <1>1, AnswerMoves
<1>2. CASE Usable(k) /\ ~Answer(r)
  <2>1. k \in Issued /\ owner[k] \in Users /\ scopes[k] \in SUBSET Scope
    BY <1>2 DEF Usable, Inductive, TypeOK, RowsInv, Issued
  <2>2. PICK S \in SUBSET scopes[k] :
            (S = scopes[k] \/ Torn) /\ principal' = [principal EXCEPT ![r] = p(S)]
    BY <1>2 DEF Verified
  <2>3. /\ pc' = [pc EXCEPT ![r] = "serving"] /\ p(S) \in ApiKeyPrincipal
        /\ UNCHANGED <<job, cred, since, stood, registry, now>>
    BY <1>2, <2>1 DEF Verified, registry, ApiKeyPrincipal, Issued
  <2>4. RequestTypes
    BY <2>2, <2>3 DEF Inductive, TypeOK, RequestTypes
  <2>5. Copies(r) /\ \A q \in Requests : q # r => Same(q)
    BY <1>2, <2>2, <2>3 DEF Inductive, TypeOK, Verified, Copies, Same
  <2> QED
    BY <2>3, <2>4, <2>5 DEF RequestStep, Moves
<1> QED
  BY <1>1, <1>2 DEF Verified

LEMMA RestartMoves ==
    ASSUME Inductive, NEW s \in Secrets, Restart(s)
    PROVE  RequestStep
<1>1. NoJob \in Job
  BY DEF NoJob, Job
<1> QED
  BY <1>1 DEF Inductive, TypeOK, Restart, RequestStep, RequestTypes, Moves, Ends

LEMMA SameMoves ==
    ASSUME Inductive, UNCHANGED request
    PROVE  RequestStep
BY DEF Inductive, TypeOK, request, RequestStep, RequestTypes, Moves, Same

-----------------------------------------------------------------------------
(* Together *)

(* What could not be used cannot be used later. *)
LEMMA UselessStays ==
    ASSUME Inductive, TableAges, TableTypes, now' \in Nat, now' >= now,
           NEW k \in Issued, ~Usable(k)
    PROVE  ~Usable(k)'
<1>1. /\ now \in Nat /\ status[k] \in {"active", "deprecated", "revoked"}
      /\ status'[k] \in {"none", "active", "deprecated", "revoked"}
      /\ expires[k] \in Readable \cup {Null}
  BY DEF Inductive, TypeOK, TableTypes, Issued
<1>2. CASE status[k] = "revoked"
  BY <1>2 DEF TableAges, Usable
<1>3. CASE status[k] = "deprecated" /\ expires[k] # Null /\ expires[k] < now
  <2>1. status'[k] # "active" /\ expires'[k] = expires[k]
    BY <1>3 DEF TableAges
  <2>2. expires[k] \in Int
    BY <1>1, <1>3, AccessNumbers
  <2>3. expires[k] < now'
    BY <1>1, <1>3, <2>2
  <2>4. k \in Issued'
    BY DEF TableAges
  <2>5. status'[k] \in {"deprecated", "revoked"}
    BY <1>1, <2>1, <2>4 DEF Issued
  <2> QED
    BY <1>3, <2>1, <2>3, <2>5 DEF Usable
<1> QED
  BY <1>1, <1>2, <1>3 DEF Usable

(* The hypotheses under which a step keeps the invariant: rows age, requests
   move, and the secret changes only when every request ends. *)
StepKeeps ==
    /\ TableTypes /\ TableAges /\ RowsInv'
    /\ now' \in Nat /\ now' >= now
    /\ RequestStep
    /\ secret' \in Secrets /\ (secret' = secret \/ \A r \in Requests : Ends(r))
    /\ tokens' \subseteq Token /\ TokensInv'

LEMMA AdmittedKept ==
    ASSUME Inductive, StepKeeps, NEW r \in Requests
    PROVE  Admitted(r)'
<1>1. CASE LetIn(r)
  <2>1. secret' = secret
    BY <1>1 DEF StepKeeps, LetIn, Ends
  <2> DEFINE t == cred'[r]
  <2>2. t \in Token /\ t.key = secret /\ t.exp >= 0 /\ t.exp >= now - Leeway
    BY <1>1 DEF LetIn, Accepted, Inductive, TypeOK
  <2>3. t.exp <= t.iat + t.life
    BY <1>1, <2>2 DEF LetIn, Inductive, TokensInv, Token
  <2>4. /\ t.iat \in Int /\ t.life \in Int /\ t.exp \in Int /\ now \in Int /\ Leeway \in Int
    <3>1. \A n \in Lifetimes : n \in Int
      BY AccessNumbers
    <3>2. t.iat \in Nat /\ t.life \in Lifetimes /\ t.exp \in Int
      BY <2>2 DEF Token
    <3>3. now \in Nat /\ Leeway \in Nat
      BY AccessNumbers DEF Inductive, TypeOK
    <3> QED
      BY <3>1, <3>2, <3>3
  <2>5. now <= t.iat + t.life + Leeway
    BY <2>2, <2>3, <2>4
  <2> QED
    BY <1>1, <2>1, <2>2, <2>5 DEF Admitted, LetIn
<1>2. CASE Same(r)
  BY <1>2 DEF StepKeeps, Same, Ends, Admitted, Inductive
<1>3. CASE Ends(r) \/ Begins(r) \/ Copies(r)
  BY <1>3 DEF Ends, Begins, Copies, Admitted
<1> QED
  BY <1>1, <1>2, <1>3 DEF StepKeeps, RequestStep, Moves

LEMMA PresentedKept ==
    ASSUME Inductive, StepKeeps, NEW r \in Requests
    PROVE  Presented(r)'
<1>1. CASE Same(r)
  <2> SUFFICES ASSUME pc[r] \in {"verifying", "serving"}
               PROVE  Presented(r)'
    BY <1>1 DEF Same, Presented
  <2>1. Presented(r) /\ cred'[r] = cred[r] /\ stood'[r] = stood[r]
    BY <1>1 DEF Inductive, Same
  <2>2. \A k \in Issued : k \in Issued'
    BY DEF StepKeeps, TableAges
  <2>3. stood[r] = "revoked" => ~Usable(cred[r])'
    <3>1. CASE cred[r] \in Issued
      BY <3>1, <2>1, UselessStays DEF StepKeeps, Presented, Usable
    <3>2. CASE cred[r] \notin Keys
      BY <3>2, <2>1 DEF Usable, Issued
    <3> QED
      BY <3>1, <3>2, <2>1 DEF Presented
  <2>4. stood[r] = "deprecated" => status'[cred[r]] # "active"
    BY <2>1 DEF Presented, StepKeeps, TableAges
  <2> QED
    BY <2>1, <2>2, <2>3, <2>4 DEF Presented, Usable
<1>2. CASE Begins(r)
  <2>1. UNCHANGED <<registry, now>>
    BY <1>2 DEF StepKeeps, RequestStep, Same, Ends, Begins
  <2> QED
    BY <1>2, <2>1, AccessSets
       DEF Begins, Presented, Stands, Usable, Issued, registry, Inductive, TypeOK
<1>3. CASE Copies(r)
  <2>1. UNCHANGED <<registry, now>>
    BY <1>3 DEF StepKeeps, RequestStep, Same, Ends, Copies
  <2> QED
    BY <1>3, <2>1 DEF Copies, Presented, Usable, Issued, registry, Inductive
<1>4. CASE Ends(r) \/ LetIn(r)
  BY <1>4 DEF Ends, LetIn, Presented
<1> QED
  BY <1>1, <1>2, <1>3, <1>4 DEF StepKeeps, RequestStep, Moves

LEMMA CopiedKept ==
    ASSUME Inductive, StepKeeps, NEW r \in Requests
    PROVE  Copied(r)'
<1>1. CASE Same(r)
  <2> SUFFICES ASSUME pc[r] = "serving"
               PROVE  Copied(r)'
    BY <1>1 DEF Same, Copied
  <2>1. /\ Copied(r) /\ cred'[r] = cred[r] /\ stood'[r] = stood[r]
        /\ principal'[r] = principal[r] /\ cred[r] \in Issued
    BY <1>1 DEF Inductive, Same, Copied
  <2>2. /\ owner'[cred[r]] = owner[cred[r]] /\ scopes'[cred[r]] = scopes[cred[r]]
        /\ cred[r] \in Issued' /\ (status'[cred[r]] = "active" => status[cred[r]] = "active")
    BY <2>1 DEF StepKeeps, TableAges
  <2> QED
    BY <2>1, <2>2 DEF Copied
<1>2. CASE Copies(r)
  <2>1. UNCHANGED <<registry, now>>
    BY <1>2 DEF StepKeeps, RequestStep, Same, Ends, Copies
  <2>2. Presented(r) /\ stood[r] \in {"none", "active", "deprecated", "revoked"}
    BY DEF Inductive, TypeOK
  <2>3. cred[r] \in Issued /\ status[cred[r]] \in {"active", "deprecated"}
    BY <1>2 DEF Copies, Usable, Issued, Inductive, TypeOK
  <2>4. stood[r] \in {"active", "deprecated"} /\ (stood[r] = "deprecated" => status[cred[r]] # "active")
    BY <1>2, <2>2 DEF Copies, Presented
  <2> QED
    <3> DEFINE k == cred[r]
    <3>1. /\ pc'[r] = "serving" /\ cred'[r] = k /\ stood'[r] = stood[r]
          /\ principal'[r].key = k /\ principal'[r].user = owner[k]
          /\ principal'[r].scopes \subseteq scopes[k]
          /\ Torn \/ principal'[r].scopes = scopes[k]
          /\ principal'[r].deprecated = (status[k] = "deprecated")
      BY <1>2 DEF Copies
    <3>2. UNCHANGED <<owner, scopes, status>>
      BY <2>1 DEF registry
    <3>3. IF principal'[r].deprecated THEN status[k] # "active" ELSE stood[r] = "active"
      BY <2>3, <2>4, <3>1
    <3> QED
      BY <2>3, <2>4, <3>1, <3>2, <3>3 DEF Copied, Issued
<1>3. CASE Ends(r) \/ LetIn(r) \/ Begins(r)
  BY <1>3 DEF Ends, LetIn, Begins, Copied
<1> QED
  BY <1>1, <1>2, <1>3 DEF StepKeeps, RequestStep, Moves

LEMMA TypesKept ==
    ASSUME Inductive, StepKeeps
    PROVE  TypeOK'
<1> SUFFICES ASSUME NEW r \in Requests
             PROVE  /\ pc'[r] = "waiting" => cred'[r] \in Token /\ principal'[r] \in Principals
                    /\ pc'[r] \in {"verifying", "serving"} => cred'[r] \in Keys \cup {NoKey}
                    /\ pc'[r] = "serving" => principal'[r] \in ApiKeyPrincipal
  BY DEF StepKeeps, TableTypes, RequestStep, RequestTypes, TypeOK
<1>1. CASE Same(r) \/ Ends(r)
  BY <1>1 DEF Same, Ends, Inductive, TypeOK
<1>2. CASE LetIn(r)
  BY <1>2 DEF LetIn, Inductive, TypeOK, Token
<1>3. CASE Begins(r)
  BY <1>3 DEF Begins, Issued
<1>4. CASE Copies(r)
  <2>1. cred[r] \in Issued /\ owner[cred[r]] \in Users /\ scopes[cred[r]] \in SUBSET Scope
    BY <1>4 DEF Copies, Usable, Inductive, TypeOK, RowsInv, Issued
  <2> QED
    BY <1>4, <2>1 DEF Copies, ApiKeyPrincipal, Issued
<1> QED
  BY <1>1, <1>2, <1>3, <1>4 DEF StepKeeps, RequestStep, Moves

LEMMA Kept ==
    ASSUME Inductive, StepKeeps
    PROVE  Inductive'
BY AdmittedKept, PresentedKept, CopiedKept, TypesKept DEF Inductive, StepKeeps

(* Steps of a request that leave the clock, the secret and the tokens alone. *)
LEMMA RequestKeeps ==
    ASSUME Inductive, TableStep, RequestStep, UNCHANGED <<secret, tokens>>
    PROVE  Inductive'
<1>1. /\ now' = now /\ now \in Nat /\ tokens' = tokens /\ secret' = secret
      /\ TokensInv /\ tokens \subseteq Token /\ secret \in Secrets
  BY DEF TableStep, Inductive, TypeOK
<1>2. TokensInv'
  BY <1>1 DEF TokensInv
<1>3. StepKeeps
  BY <1>1, <1>2 DEF StepKeeps, TableStep
<1> QED
  BY <1>3, Kept

LEMMA TickKeeps == ASSUME Inductive, Tick PROVE Inductive'
<1>1. /\ now' = now + 1 /\ now < MaxTime /\ now \in Nat
      /\ UNCHANGED <<status, owner, lineage, expires, scopes, secret, tokens, request>>
  BY DEF Tick, Registry!Tick, Inductive, TypeOK
<1>2. TableTypes /\ TableAges /\ RowsInv'
  BY <1>1 DEF TableTypes, TableAges, RowsInv, Issued, Inductive, TypeOK
<1>3. now' \in Nat /\ now' >= now /\ now' <= MaxTime
  BY <1>1, AccessNumbers
<1>4. TokensInv' /\ tokens' \subseteq Token /\ secret' \in Secrets /\ secret' = secret
  BY <1>1, <1>3 DEF TokensInv, Inductive, TypeOK
<1>5. RequestStep
  BY <1>1, SameMoves
<1> QED
  BY <1>2, <1>3, <1>4, <1>5, Kept DEF StepKeeps

LEMMA RestartKeeps == ASSUME Inductive, NEW s \in Secrets, Restart(s) PROVE Inductive'
<1>1. UNCHANGED <<registry, now, tokens>> /\ secret' = s /\ \A r \in Requests : Ends(r)
  BY DEF Restart, Ends
<1>2. TableStep /\ now' \in Nat /\ now' >= now
  BY <1>1, SameTable DEF Inductive, TypeOK
<1>3. TokensInv' /\ tokens' \subseteq Token
  BY <1>1 DEF TokensInv, Inductive, TypeOK
<1>4. RequestStep
  BY RestartMoves
<1> QED
  BY <1>1, <1>2, <1>3, <1>4, Kept DEF StepKeeps, TableStep

(* A new token's expiry is what TokensInv says. *)
LEMMA ExpiryFacts ==
    ASSUME Inductive, NEW life \in Lifetimes
    PROVE  /\ ExpiryAt(life) \in Int
           /\ ExpiryAt(life) <= now + life \/ ExpiryAt(life) < 0
           /\ life < HalfWord => ExpiryAt(life) = now + life \/ ExpiryAt(life) = HalfWord - 1
<1>1. now \in Nat /\ now < HalfWord /\ HalfWord \in Nat
  BY AccessNumbers DEF Inductive, TypeOK, TokensInv
<1>2. life \in Nat /\ life <= 2 * HalfWord - 1
  BY <1>1, AccessNumbers
<1> QED
  BY <1>1, <1>2 DEF ExpiryAt, AsI64

LEMMA TokensChangeKeeps ==
    ASSUME Inductive, UNCHANGED <<registry, now, secret, request>>,
           tokens' \subseteq Token, TokensInv'
    PROVE  Inductive'
<1>1. TableStep /\ now' = now /\ now \in Nat /\ secret' = secret /\ secret \in Secrets
  BY SameTable DEF Inductive, TypeOK
<1>2. RequestStep
  BY SameMoves
<1> QED
  BY <1>1, <1>2, Kept DEF StepKeeps, TableStep

LEMMA MintKeeps ==
    ASSUME Inductive, NEW u \in Principals, NEW life \in Lifetimes, Mint(u, life)
    PROVE  Inductive'
<1> DEFINE t == [sub |-> u, iat |-> now, exp |-> ExpiryAt(life), life |-> life, key |-> secret]
<1>1. tokens' = tokens \cup {t} /\ UNCHANGED <<registry, now, secret, request>>
  BY DEF Mint
<1>2. tokens \subseteq Token /\ now \in Nat /\ secret \in Secrets /\ TokensInv
  BY DEF Inductive, TypeOK
<1>3. t \in Token
  BY <1>2, ExpiryFacts DEF Token
<1>4. TokensInv'
  <2> SUFFICES ASSUME NEW x \in tokens'
               PROVE  /\ x.exp <= x.iat + x.life \/ x.exp < 0
                      /\ x.life < HalfWord => x.exp = x.iat + x.life \/ x.exp = HalfWord - 1
    BY <1>1, <1>2 DEF TokensInv
  <2>1. CASE x \in tokens
    BY <2>1, <1>2 DEF TokensInv
  <2>2. CASE x = t
    BY <2>2, ExpiryFacts
  <2> QED
    BY <1>1, <2>1, <2>2
<1> QED
  BY <1>1, <1>2, <1>3, <1>4, TokensChangeKeeps

LEMMA DiscardKeeps == ASSUME Inductive, NEW t \in tokens, Discard(t) PROVE Inductive'
<1>1. UNCHANGED <<registry, now, secret, request>> /\ tokens' \subseteq tokens
  BY DEF Discard
<1>2. TokensInv' /\ tokens' \subseteq Token
  BY <1>1 DEF TokensInv, Inductive, TypeOK
<1> QED
  BY <1>1, <1>2, TokensChangeKeeps

LEMMA RequestActionKeeps ==
    ASSUME Inductive, NEW r \in Requests,
           \/ \E j \in Asks, c \in Credentials : ArriveAdmin(r, j, c) \/ ArriveConsumer(r, j, c)
           \/ Handler(r)
           \/ Leave(r)
    PROVE  Inductive'
<1>1. ASSUME NEW j \in Asks, NEW c \in Credentials, ArriveAdmin(r, j, c) PROVE Inductive'
  BY <1>1, SameTable, ArriveAdminMoves, RequestKeeps DEF ArriveAdmin
<1>2. ASSUME NEW j \in Asks, NEW c \in Credentials, ArriveConsumer(r, j, c) PROVE Inductive'
  BY <1>2, SameTable, ArriveConsumerMoves, RequestKeeps DEF ArriveConsumer
<1>3. CASE Create(r)
  BY <1>3, CreateStep, AnswerMoves, RequestKeeps DEF Create
<1>4. CASE Rotate(r)
  BY <1>4, RotateStep, AnswerMoves, RequestKeeps DEF Rotate
<1>5. CASE Revoke(r)
  BY <1>5, RevokeStep, AnswerMoves, RequestKeeps DEF Revoke
<1>6. CASE Verified(r)
  BY <1>6, SameTable, VerifiedMoves, RequestKeeps DEF Verified
<1>7. CASE Served(r)
  BY <1>7, SameTable, AnswerMoves, RequestKeeps DEF Served
<1>8. CASE Leave(r)
  BY <1>8, SameTable, AnswerMoves, RequestKeeps DEF Leave
<1> QED
  BY <1>1, <1>2, <1>3, <1>4, <1>5, <1>6, <1>7, <1>8 DEF Handler

LEMMA InductiveStep == Inductive /\ [Next]_vars => Inductive'
<1> SUFFICES ASSUME Inductive, [Next]_vars PROVE Inductive'
  OBVIOUS
<1>1. CASE UNCHANGED vars
  <2>1. UNCHANGED <<registry, now>> /\ UNCHANGED request /\ UNCHANGED <<secret, tokens>>
    BY <1>1 DEF vars
  <2> QED
    BY <2>1, SameTable, SameMoves, RequestKeeps
<1>2. CASE Tick
  BY <1>2, TickKeeps
<1>3. CASE \E s \in Secrets : Restart(s)
  BY <1>3, RestartKeeps
<1>4. CASE \E u \in Principals, life \in Lifetimes : Mint(u, life)
  BY <1>4, MintKeeps
<1>5. CASE \E t \in tokens : Discard(t)
  BY <1>5, DiscardKeeps
<1>6. CASE \E r \in Requests :
             \/ \E j \in Asks, c \in Credentials : ArriveAdmin(r, j, c) \/ ArriveConsumer(r, j, c)
             \/ Handler(r)
             \/ Leave(r)
  BY <1>6, RequestActionKeeps
<1> QED
  BY <1>1, <1>2, <1>3, <1>4, <1>5, <1>6 DEF Next

LEMMA AccessInductive == Spec => []Inductive
BY InitInductive, InductiveStep, PTL DEF Spec

-----------------------------------------------------------------------------
(* The theorems *)

(* A handler behind one extractor never holds what the other makes, and a
   request that waits holds the credential it came with (auth.rs:90). *)
THEOREM PrincipalsTyped == Spec => []TypeOK
<1>1. Inductive => TypeOK
  BY DEF Inductive
<1> QED
  BY AccessInductive, <1>1, PTL

(* What an ApiKeyPrincipal says of its key was true when its request arrived,
   and its scopes still are, whatever happened to the key since (auth.rs:27). *)
THEOREM PrincipalsTrue == Spec => []PrincipalIsTrue
<1>1. Inductive => PrincipalIsTrue
  <2> SUFFICES ASSUME Inductive, NEW r \in Requests, pc[r] = "serving"
               PROVE  LET p == principal[r] IN
                      /\ p.key = cred[r] /\ p.user = owner[p.key]
                      /\ stood[r] \in {"active", "deprecated"}
                      /\ IF p.deprecated THEN status[p.key] # "active" ELSE stood[r] = "active"
                      /\ \A q \in Scope :
                          /\ HasScope(p.scopes, q) => NamedIn(scopes[p.key], q)
                          /\ ~Torn /\ NamedIn(scopes[p.key], q) => HasScope(p.scopes, q)
    BY DEF PrincipalIsTrue
  <2>1. Copied(r) /\ cred[r] \in Issued
    BY DEF Inductive, Copied
  <2>2. scopes[cred[r]] \in SUBSET Scope /\ scopes[cred[r]] \cap Wildcards = {}
    BY <2>1 DEF Inductive, TypeOK, RowsInv, Issued
  <2>3. \A q \in Scope : HasScope(scopes[cred[r]], q) <=> NamedIn(scopes[cred[r]], q)
    BY <2>2, HasScopeExact
  <2>4. /\ principal[r].scopes \subseteq scopes[cred[r]]
        /\ Torn \/ principal[r].scopes = scopes[cred[r]]
    BY <2>1 DEF Copied
  <2>5. \A q \in Scope : HasScope(principal[r].scopes, q) => HasScope(scopes[cred[r]], q)
    BY <2>4, HasScopeMonotone
  <2> QED
    BY <2>1, <2>3, <2>4, <2>5 DEF Copied
<1> QED
  BY AccessInductive, <1>1, PTL

(* Tokens are good for as long as they were asked for, up to the leeway, at
   every width of the integers (auth.rs:66). *)
THEOREM TokensGood == Spec => []TokensLast
<1>1. Inductive => TokensLast
  <2> SUFFICES ASSUME Inductive, NEW t \in tokens
               PROVE  /\ Accepted(t) => now <= t.iat + t.life + Leeway
                      /\ t.key = secret /\ t.life < HalfWord /\ now <= t.iat + t.life => Accepted(t)
    BY DEF TokensLast
  <2>1. t \in Token /\ now \in Nat /\ now <= MaxTime /\ TokensInv
    BY DEF Inductive, TypeOK, TokensInv
  <2>2. \A n \in Lifetimes : n \in Nat
    BY AccessNumbers
  <2>3. t.iat \in Nat /\ t.life \in Nat /\ t.exp \in Int
    BY <2>1, <2>2 DEF Token
  <2>4. /\ t.exp <= t.iat + t.life \/ t.exp < 0
        /\ t.life < HalfWord => t.exp = t.iat + t.life \/ t.exp = HalfWord - 1
    BY <2>1 DEF TokensInv
  <2> QED
    BY <2>1, <2>3, <2>4, AccessNumbers DEF Accepted
<1> QED
  BY AccessInductive, <1>1, PTL

(* Nothing changes a key's status but a request of its owner, let in by a token
   that was good then and signed with the secret that is still in use
   (auth.rs:90, handlers.rs:73). *)
THEOREM OwnersOnly == Spec => ActedForOwner
<1>1. Inductive /\ [Next]_vars =>
        [\A k \in Keys : status'[k] # status[k] =>
           \E r \in Requests :
             /\ pc[r] = "waiting"
             /\ cred[r].sub = owner'[k] /\ cred[r].key = secret
             /\ since[r] <= cred[r].iat + cred[r].life + Leeway]_vars
  <2> SUFFICES ASSUME Inductive, Next, NEW k \in Keys, status'[k] # status[k]
               PROVE  \E r \in Requests :
                        /\ pc[r] = "waiting"
                        /\ cred[r].sub = owner'[k] /\ cred[r].key = secret
                        /\ since[r] <= cred[r].iat + cred[r].life + Leeway
    OBVIOUS
  <2>1. PICK r \in Requests : Create(r) \/ Rotate(r) \/ Revoke(r)
    <3>1. ASSUME UNCHANGED status PROVE FALSE
      BY <3>1
    <3> QED
      BY <3>1 DEF Next, Handler, Tick, Registry!Tick, Restart, Mint, Discard, ArriveAdmin,
                  ArriveConsumer, Verified, Served, Leave, registry
  <2>2. Acts(r, k)
    BY <2>1, CreateStep, RotateStep, RevokeStep
  <2>3. Admitted(r)
    BY DEF Inductive
  <2> QED
    BY <2>2, <2>3 DEF Acts, Admitted
<1> QED
  BY AccessInductive, <1>1, PTL DEF Spec, ActedForOwner

=============================================================================
