--------------------------- MODULE KeyStoreProofs ---------------------------
(***************************************************************************)
(* Proofs about KeyStore, for any number of keys, users, requests and      *)
(* scopes, with and without faults.                                        *)
(***************************************************************************)
EXTENDS KeyStore, TLAPS, FiniteSetTheorems, SequenceTheorems

(* The queue of waiters stays a sequence of the same elements when the one at
   position i is taken out (Database::conn, a dropped future). *)
LEMMA RemoveAtType ==
    ASSUME NEW S, NEW s \in Seq(S), NEW i \in 1..Len(s)
    PROVE  RemoveAt(s, i) \in Seq(S)
<1>1. SubSeq(s, 1, i - 1) \in Seq(S)
  OBVIOUS
<1>2. SubSeq(s, i + 1, Len(s)) \in Seq(S)
  OBVIOUS
<1> QED BY <1>1, <1>2 DEF RemoveAt

(* load_scopes lists the scopes of a key: each one, and no other. *)
LEMMA ListingType ==
    ASSUME NEW S, IsFiniteSet(S), NEW l \in SetToSeqs(S)
    PROVE  l \in Seq(S) /\ ToSet(l) \subseteq S
<1>1. Cardinality(S) \in Nat
  BY FS_CardinalityType
<1>2. l \in [1..Cardinality(S) -> S]
  BY DEF SetToSeqs
<1> QED BY <1>1, <1>2 DEF ToSet

-----------------------------------------------------------------------------
(* Type correctness *)

LEMMA TypeInit == Init => TypeOK
BY KeysAssumption, UsersAssumption, NumbersAssumption
   DEF Init, TypeOK, Statuses, Steps, ReplyKinds, Job, NoJob, Reply, Said

LEMMA SaidType ==
    ASSUME NEW kind \in ReplyKinds PROVE Said(kind) \in Reply
BY DEF Said, Reply, Statuses

LEMMA ToldType ==
    ASSUME NEW kind \in ReplyKinds, NEW k \in Keys, NEW S \in SUBSET Scopes,
           NEW st \in Statuses
    PROVE  Told(kind, k, S, st) \in Reply
BY DEF Told, Reply

(* Whatever a handler answers, returning leaves everything but the table in
   its type. *)
LEMMA ReturnType ==
    ASSUME TypeOK, NEW r \in Requests, NEW answer \in Reply, Return(r, answer)
    PROVE  /\ now' \in Nat /\ lock' \in Requests \cup {NoRequest}
           /\ queue' \in Seq(Requests)
           /\ pc' \in [Requests -> Steps \cup {"idle", "waiting", "replied"}]
           /\ job' \in [Requests -> Job]
           /\ given' \in [Requests -> SUBSET Scopes]
           /\ todo' \in [Requests -> Seq(Scopes)]
           /\ new' \in [Requests -> Keys \cup {NoKey}]
           /\ seen' \in [Requests -> Statuses]
           /\ reply' \in [Requests -> Reply]
           /\ known' \subseteq Keys
BY DEF TypeOK, Return, Job, NoJob, Statuses

LEMMA GotoType ==
    ASSUME TypeOK, NEW r \in Requests, NEW step \in Steps, Goto(r, step)
    PROVE  /\ now' \in Nat /\ lock' \in Requests \cup {NoRequest}
           /\ queue' \in Seq(Requests)
           /\ pc' \in [Requests -> Steps \cup {"idle", "waiting", "replied"}]
           /\ job' \in [Requests -> Job]
           /\ reply' \in [Requests -> Reply]
           /\ known' \subseteq Keys
BY DEF TypeOK, Goto

LEMMA ClientType ==
    ASSUME TypeOK, NEW r \in Requests, Client(r) PROVE TypeOK'
<1>1. ASSUME NEW j \in Asks, Arrive(r, j) PROVE TypeOK'
  <2>1. j \in Job
    <3>1. <<>> \in Seq(Scopes) /\ ScopeLists \subseteq Seq(Scopes)
      BY ScopesAssumption
    <3>2. Visible \subseteq Keys /\ known \subseteq Keys
      BY DEF Visible, Issued, TypeOK
    <3>3. CASE j.op = "create"
      BY <3>1, <3>3 DEF Asks, Job
    <3>4. CASE j.op # "create"
      BY <3>1, <3>2, <3>4, OpsAssumption DEF Asks, Job
    <3> QED BY <3>3, <3>4
  <2>2. Append(queue, r) \in Seq(Requests)
    BY AppendProperties DEF TypeOK
  <2>3. Said("bad_request") \in Reply
    BY SaidType DEF ReplyKinds
  <2> QED BY <1>1, <2>1, <2>2, <2>3 DEF Arrive, TypeOK, table, locals
<1>2. CASE Cancel(r)
  <2>1. NoJob \in Job
    BY DEF NoJob, Job
  <2>2. queue' \in Seq(Requests)
    BY <1>2, RemoveAtType DEF Cancel, TypeOK
  <2> QED BY <1>2, <2>1, <2>2 DEF Cancel, TypeOK, table, locals
<1>3. CASE Deliver(r) \/ LoseReply(r)
  <2>1. NoJob \in Job /\ Said("none") \in Reply
    BY SaidType DEF NoJob, Job, ReplyKinds
  <2>2. reply[r].keys \subseteq Keys
    BY DEF TypeOK, Reply
  <2> QED BY <1>3, <2>1, <2>2 DEF Deliver, LoseReply, TypeOK, table, locals
<1> QED BY <1>1, <1>2, <1>3 DEF Client

(* INSERT INTO api_keys keeps the types when the lineage it is given exists. *)
LEMMA InsertRowType ==
    ASSUME TypeOK, NEW r \in Requests, NEW k \in Keys, NEW l \in Keys \cup {NoKey},
           InsertRow(r, k, l)
    PROVE  TypeOK'
<1>1. CASE job[r].user \in Users
  <2>1. /\ status' = [status EXCEPT ![k] = "active"]
        /\ owner' = [owner EXCEPT ![k] = job[r].user]
        /\ lineage' = [lineage EXCEPT ![k] = l]
        /\ new' = [new EXCEPT ![r] = k]
        /\ UNCHANGED <<expires, lastUsed, scopes, given, todo, seen>>
        /\ Goto(r, "scopes")
    BY <1>1 DEF InsertRow, KnownUser
  <2> QED BY <1>1, <2>1, GotoType DEF TypeOK, Statuses, Steps
<1>2. CASE job[r].user \notin Users
  <2>1. Said("internal") \in Reply
    BY SaidType DEF ReplyKinds
  <2> QED BY <1>2, <2>1, ReturnType DEF InsertRow, KnownUser, TypeOK, table
<1> QED BY <1>1, <1>2

LEMMA InsertScopeType ==
    ASSUME TypeOK, NEW r \in Requests, InsertScope(r) PROVE TypeOK'
<1> DEFINE s == Head(todo[r])
<1>1. todo[r] \in Seq(Scopes) /\ todo[r] # <<>>
  BY DEF InsertScope, TypeOK
<1>2. s \in Scopes /\ Tail(todo[r]) \in Seq(Scopes)
  BY <1>1, HeadTailProperties
<1>3. CASE s \notin scopes[new[r]]
  <2>1. /\ scopes' = [scopes EXCEPT ![new[r]] = @ \cup {s}]
        /\ todo' = [todo EXCEPT ![r] = Tail(@)]
        /\ UNCHANGED <<status, owner, lineage, expires, lastUsed, given, new, seen>>
        /\ Goto(r, "scopes")
    BY <1>3 DEF InsertScope
  <2> QED BY <1>2, <2>1, GotoType DEF TypeOK, Steps
<1>4. CASE s \in scopes[new[r]]
  <2>1. Said("internal") \in Reply
    BY SaidType DEF ReplyKinds
  <2> QED BY <1>4, <2>1, ReturnType DEF InsertScope, TypeOK, table
<1> QED BY <1>3, <1>4

LEMMA CreateType ==
    ASSUME TypeOK, NEW r \in Requests,
           CreateCount(r) \/ CreateInsert(r) \/ CreateFinish(r),
           pc[r] = "scopes" => new[r] \in Keys
    PROVE  TypeOK'
<1>1. CASE CreateCount(r)
  <2>1. Said("conflict") \in Reply /\ Said("forbidden") \in Reply
    BY SaidType DEF ReplyKinds
  <2>2. job[r].ask \in Seq(Scopes) /\ ToSet(job[r].ask) \subseteq Scopes
    BY DEF TypeOK, Job, ToSet
  <2>3. CASE /\ Goto(r, "insert") /\ todo' = [todo EXCEPT ![r] = job[r].ask]
             /\ given' = [given EXCEPT ![r] = ToSet(job[r].ask)] /\ UNCHANGED <<new, seen>>
    BY <1>1, <2>2, <2>3, GotoType DEF CreateCount, TypeOK, Steps, table
  <2>4. CASE Return(r, Said("conflict")) \/ Return(r, Said("forbidden"))
    BY <1>1, <2>1, <2>4, ReturnType DEF CreateCount, TypeOK, table
  <2> QED BY <1>1, <2>3, <2>4 DEF CreateCount
<1>2. CASE CreateInsert(r)
  BY <1>2, InsertRowType DEF CreateInsert
<1>3. CASE CreateFinish(r)
  <2>1. Told("created", new[r], given[r], "active") \in Reply
    BY <1>3, ToldType DEF CreateFinish, ReplyKinds, Statuses, TypeOK
  <2> QED BY <1>3, <2>1, ReturnType DEF CreateFinish, TypeOK, table
<1> QED BY <1>1, <1>2, <1>3

(* Whichever of the old key's scopes load_scopes lists, they are in type. *)
LEMMA LoadOldType ==
    ASSUME TypeOK, NEW r \in Requests, NEW S \in SUBSET scopes[job[r].key],
           NEW l \in SetToSeqs(S), LoadOld(r, l), Rotatable(job[r].key, job[r].user)
    PROVE  TypeOK'
<1>1. job[r].key \in Keys /\ IsFiniteSet(S) /\ S \subseteq Scopes
  BY ScopesAssumption, FS_Subset DEF Rotatable, Issued, TypeOK
<1>2. l \in Seq(Scopes) /\ ToSet(l) \subseteq Scopes
  BY <1>1, ListingType
<1> QED BY <1>2, GotoType DEF LoadOld, TypeOK, Steps, table

LEMMA RotateType ==
    ASSUME TypeOK, NEW r \in Requests,
           RotateLoad(r) \/ RotateDeprecate(r) \/ RotateInsert(r) \/ RotateFinish(r),
           pc[r] = "scopes" => new[r] \in Keys,
           pc[r] = "deprecate" \/ (pc[r] \in {"insert", "scopes"} /\ job[r].op = "rotate") =>
              job[r].key \in Keys
    PROVE  TypeOK'
<1> DEFINE k == job[r].key
<1>1. Said("not_found") \in Reply /\ Said("none") \in Reply
  BY SaidType DEF ReplyKinds
<1>2. CASE RotateLoad(r)
  <2>1. CASE Rotatable(k, job[r].user) /\ \E l \in SetToSeqs(scopes[k]) : LoadOld(r, l)
    BY <2>1, LoadOldType
  <2>2. CASE ~Rotatable(k, job[r].user)
    BY <1>1, <1>2, <2>2, ReturnType DEF RotateLoad, TypeOK, table
  <2> QED BY <1>2, <2>1, <2>2 DEF RotateLoad, Listings
<1>3. CASE RotateDeprecate(r)
  <2>1. CASE GraceEnd \in Representable
    <3>1. /\ status' = [status EXCEPT ![k] = "deprecated"]
          /\ expires' = [expires EXCEPT ![k] = StoredExpiry]
          /\ UNCHANGED <<owner, lineage, lastUsed, scopes, locals>>
          /\ Goto(r, "insert") /\ k \in Keys
      BY <1>3, <2>1 DEF RotateDeprecate
    <3>2. StoredExpiry \in Readable \cup {Null}
      BY DEF StoredExpiry
    <3> QED BY <3>1, <3>2, GotoType DEF TypeOK, Steps, Statuses, locals
  <2>2. CASE GraceEnd \notin Representable
    BY <1>1, <1>3, <2>2, ReturnType DEF RotateDeprecate, TypeOK, table
  <2> QED BY <2>1, <2>2
<1>4. CASE RotateInsert(r)
  <2>1. lineage[k] \in Keys \cup {NoKey}
    BY <1>4 DEF RotateInsert, TypeOK
  <2> QED BY <1>4, <2>1, InsertRowType DEF RotateInsert
<1>5. CASE RotateFinish(r)
  <2>1. Told("rotated", new[r], given[r], "active") \in Reply
    BY <1>5, ToldType DEF RotateFinish, ReplyKinds, Statuses, TypeOK
  <2> QED BY <1>5, <2>1, ReturnType DEF RotateFinish, TypeOK, table
<1> QED BY <1>2, <1>3, <1>4, <1>5

LEMMA ReadersAndRevokeType ==
    ASSUME TypeOK, NEW r \in Requests,
           Revoke(r) \/ VerifyLookup(r) \/ VerifyTouch(r) \/ List(r),
           pc[r] = "touch" => job[r].key \in Keys
    PROVE  TypeOK'
<1> DEFINE k == job[r].key
<1>1. Said("not_found") \in Reply /\ Said("invalid") \in Reply
  BY SaidType DEF ReplyKinds
<1>2. CASE Revoke(r)
  <2>1. CASE Revocable(k, job[r].user)
    <3>1. k \in Keys
      BY <2>1 DEF Revocable, Issued
    <3>2. Told("revoked", k, {}, "revoked") \in Reply
      BY <3>1, ToldType DEF ReplyKinds, Statuses
    <3> QED BY <1>2, <2>1, <3>1, <3>2, ReturnType DEF Revoke, TypeOK, Statuses
  <2>2. CASE ~Revocable(k, job[r].user)
    BY <1>1, <1>2, <2>2, ReturnType DEF Revoke, TypeOK, table
  <2> QED BY <2>1, <2>2
<1>3. CASE VerifyLookup(r)
  <2>1. CASE Usable(k)
    <3>1. k \in Keys /\ Goto(r, "touch")
      BY <1>3, <2>1 DEF VerifyLookup, Usable, Issued
    <3> QED BY <1>3, <2>1, <3>1, GotoType DEF VerifyLookup, TypeOK, Steps, table
  <2>2. CASE ~Usable(k)
    BY <1>1, <1>3, <2>2, ReturnType DEF VerifyLookup, TypeOK, table
  <2> QED BY <2>1, <2>2
<1>4. CASE VerifyTouch(r)
  <2>1. Told("valid", k, scopes[k], seen[r]) \in Reply
    BY <1>4, ToldType DEF VerifyTouch, ReplyKinds, TypeOK
  <2> QED BY <1>4, <2>1, ReturnType DEF VerifyTouch, TypeOK
<1>5. CASE List(r)
  <2>1. Listed(Owned(job[r].user)) \in Reply
    BY DEF Listed, Owned, Said, Reply, ReplyKinds, Statuses, Issued
  <2> QED BY <1>5, <2>1, ReturnType DEF List, TypeOK, table
<1> QED BY <1>2, <1>3, <1>4, <1>5

LEMMA FaultType ==
    ASSUME TypeOK, NEW r \in Requests, StatementFails(r),
           pc[r] = "touch" => job[r].key \in Keys
    PROVE  TypeOK'
<1> DEFINE k == job[r].key
<1>1. Said("not_found") \in Reply /\ Said("invalid") \in Reply /\ Said("internal") \in Reply
  BY SaidType DEF ReplyKinds
<1>2. CASE pc[r] = "touch" /\ Return(r, Told("valid", k, scopes[k], seen[r])) /\ UNCHANGED table
  <2>1. Told("valid", k, scopes[k], seen[r]) \in Reply
    BY <1>2, ToldType DEF ReplyKinds, TypeOK
  <2> QED BY <1>2, <2>1, ReturnType DEF TypeOK, table
<1>3. CASE /\ Return(r, Said("internal")) /\ lastUsed' = [lastUsed EXCEPT ![k] = now]
           /\ UNCHANGED <<status, owner, lineage, expires, scopes>> /\ pc[r] = "touch"
  BY <1>1, <1>3, ReturnType DEF TypeOK
<1>4. CASE /\ UNCHANGED table
           /\ \/ Return(r, Said("not_found")) \/ Return(r, Said("invalid"))
              \/ Return(r, Said("internal"))
  BY <1>1, <1>4, ReturnType DEF TypeOK, table
<1> QED BY <1>2, <1>3, <1>4 DEF StatementFails

LEMMA CutShortType ==
    ASSUME TypeOK, NEW r \in Requests, ReadCutShort(r),
           pc[r] = "touch" => job[r].key \in Keys
    PROVE  TypeOK'
<1> DEFINE k == job[r].key
<1>1. CASE /\ Rotatable(k, job[r].user)
           /\ \E S \in SUBSET scopes[k] : \E l \in SetToSeqs(S) : LoadOld(r, l)
  BY <1>1, LoadOldType
<1>2. ASSUME NEW S \in SUBSET scopes[k], NEW t \in {lastUsed[k], now}, pc[r] = "touch",
             Return(r, Told("valid", k, S, seen[r])),
             lastUsed' = [lastUsed EXCEPT ![k] = t],
             UNCHANGED <<status, owner, lineage, expires, scopes>>
      PROVE  TypeOK'
  <2>1. Told("valid", k, S, seen[r]) \in Reply
    BY <1>2, ToldType DEF ReplyKinds, TypeOK
  <2> QED BY <1>2, <2>1, ReturnType DEF TypeOK
<1>3. ASSUME NEW K \in SUBSET Owned(job[r].user), Return(r, Listed(K)), UNCHANGED table
      PROVE  TypeOK'
  <2>1. Listed(K) \in Reply
    BY DEF Listed, Owned, Said, Reply, ReplyKinds, Statuses, Issued
  <2> QED BY <1>3, <2>1, ReturnType DEF TypeOK, table
<1> QED BY <1>1, <1>2, <1>3 DEF ReadCutShort

(* Every step keeps the types; that the keys a handler writes through exist is
   the handlers' own bookkeeping. *)
LEMMA TypeStep ==
    ASSUME TypeOK, Bookkeeping, [Next]_vars PROVE TypeOK'
<1>1. \A r \in Requests :
          /\ pc[r] = "scopes" => new[r] \in Keys
          /\ pc[r] = "touch" => job[r].key \in Keys
          /\ pc[r] = "deprecate" \/ (pc[r] \in {"insert", "scopes"} /\ job[r].op = "rotate")
                => job[r].key \in Keys
  BY DEF Bookkeeping, Holding, OldKey, Issued
<1>2. CASE UNCHANGED vars
  BY <1>2 DEF TypeOK, vars, table, locals
<1>3. CASE Tick
  BY <1>3 DEF Tick, TypeOK, table, locals
<1>4. CASE Restart
  <2>1. NoJob \in Job /\ Said("none") \in Reply
    BY SaidType DEF NoJob, Job, ReplyKinds
  <2> QED BY <1>4, <2>1 DEF Restart, TypeOK, table, Statuses
<1>5. CASE Acquire
  <2>1. queue # <<>> /\ queue \in Seq(Requests)
    BY <1>5 DEF Acquire, Grantable, TypeOK
  <2>2. 1 \in 1..Len(queue) /\ queue[1] \in Requests /\ RemoveAt(queue, 1) \in Seq(Requests)
    BY <2>1, RemoveAtType
  <2>3. FirstStep[job[queue[1]].op] \in Steps
    BY <2>2 DEF FirstStep, TypeOK, Job, Steps
  <2> QED BY <1>5, <2>2, <2>3 DEF Acquire, NextInLine, TypeOK, table, locals
<1>6. ASSUME NEW r \in Requests, Client(r) PROVE TypeOK'
  BY <1>6, ClientType
<1>7. ASSUME NEW r \in Requests, Handler(r) PROVE TypeOK'
  BY <1>1, <1>7, CreateType, RotateType, InsertScopeType, ReadersAndRevokeType DEF Handler
<1>8. ASSUME NEW r \in Requests, StatementFails(r) PROVE TypeOK'
  BY <1>1, <1>8, FaultType
<1>9. ASSUME NEW r \in Requests, ReadCutShort(r) PROVE TypeOK'
  BY <1>1, <1>9, CutShortType
<1> QED BY <1>2, <1>3, <1>4, <1>5, <1>6, <1>7, <1>8, <1>9 DEF Next

-----------------------------------------------------------------------------
(* The mutex *)

(* The request that takes a step of its handler is the only one in a handler. *)
LEMMA OthersWait ==
    ASSUME Exclusive, NEW r \in Requests, pc[r] \in Steps
    PROVE  lock = r /\ \A q \in Requests : q # r => pc[q] \notin Steps
BY DEF Exclusive

(* A statement either keeps the mutex and goes on, or returns and frees it. *)
LEMMA HandlerShape ==
    ASSUME NEW r \in Requests, Handler(r) \/ StatementFails(r) \/ ReadCutShort(r)
    PROVE  /\ pc[r] \in Steps
           /\ (\E step : Goto(r, step)) \/ (\E answer : Return(r, answer))
<1>1. CASE CreateCount(r)
  BY <1>1 DEF CreateCount, Steps
<1>2. CASE CreateInsert(r) \/ RotateInsert(r)
  BY <1>2 DEF CreateInsert, RotateInsert, InsertRow, KnownUser, Steps
<1>3. CASE CreateFinish(r) \/ RotateFinish(r)
  BY <1>3 DEF CreateFinish, RotateFinish, Steps
<1>4. CASE RotateLoad(r)
  BY <1>4 DEF RotateLoad, LoadOld, Steps
<1>5. CASE RotateDeprecate(r)
  BY <1>5 DEF RotateDeprecate, Steps
<1>6. CASE InsertScope(r)
  BY <1>6 DEF InsertScope, Steps
<1>7. CASE Revoke(r) \/ List(r)
  BY <1>7 DEF Revoke, List, Steps
<1>8. CASE VerifyLookup(r) \/ VerifyTouch(r)
  BY <1>8 DEF VerifyLookup, VerifyTouch, Steps
<1>9. CASE StatementFails(r)
  BY <1>9 DEF StatementFails
<1>10. CASE ReadCutShort(r)
  BY <1>10 DEF ReadCutShort, LoadOld, Steps
<1> QED BY <1>1, <1>2, <1>3, <1>4, <1>5, <1>6, <1>7, <1>8, <1>9, <1>10 DEF Handler

LEMMA ExclusiveStep ==
    ASSUME TypeOK, Exclusive, [Next]_vars PROVE Exclusive'
<1>1. CASE UNCHANGED vars
  BY <1>1 DEF Exclusive, vars
<1>2. CASE Tick \/ Restart
  BY <1>2 DEF Tick, Restart, Exclusive, Steps
<1>3. CASE Acquire
  <2>1. \A q \in Requests : pc[q] \notin Steps
    BY <1>3, RequestsAssumption DEF Acquire, Grantable, Exclusive
  <2> QED BY <1>3, <2>1 DEF Acquire, TypeOK, Exclusive
<1>4. ASSUME NEW r \in Requests, Client(r) PROVE Exclusive'
  <2>1. lock' = lock /\ \A q \in Requests : pc'[q] \in Steps => pc[q] \in Steps
    BY <1>4 DEF Client, Arrive, Cancel, Deliver, LoseReply, TypeOK, Steps
  <2> QED BY <2>1 DEF Exclusive
<1>5. ASSUME NEW r \in Requests, Handler(r) \/ StatementFails(r) \/ ReadCutShort(r) PROVE Exclusive'
  <2>1. pc[r] \in Steps /\ lock = r /\ \A q \in Requests : q # r => pc[q] \notin Steps
    BY <1>5, HandlerShape, OthersWait
  <2>2. CASE \E step : Goto(r, step)
    BY <2>1, <2>2 DEF Goto, Exclusive, TypeOK
  <2>3. CASE \E answer : Return(r, answer)
    BY <2>1, <2>3 DEF Return, Exclusive, TypeOK, Steps
  <2> QED BY <1>5, <2>2, <2>3, HandlerShape
<1> QED BY <1>1, <1>2, <1>3, <1>4, <1>5 DEF Next

-----------------------------------------------------------------------------
(* The four statements that write status, owner, lineage or scopes *)

Rows == RowsComplete /\ OneActivePerLineage /\ SuccessorsKeepAuthority

(* A new row starts a lineage of its own, or joins one whose active key was
   just deprecated. *)
LEMMA InsertRowKeeps ==
    ASSUME Inductive, NEW r \in Requests, NEW k \in Keys, NEW l, InsertRow(r, k, l),
           pc[r] = "insert",
           \/ job[r].op = "create" /\ l = k
           \/ job[r].op = "rotate" /\ l = lineage[job[r].key]
    PROVE  Rows'
<1> USE DEF Inductive
<1>1. CASE job[r].user \notin Users
  BY <1>1 DEF InsertRow, KnownUser, table, Rows, RowsComplete, OneActivePerLineage,
              SuccessorsKeepAuthority, Issued, Kin
<1>2. CASE job[r].user \in Users
  <2>1. /\ status[k] = "none"
        /\ status' = [status EXCEPT ![k] = "active"]
        /\ owner' = [owner EXCEPT ![k] = job[r].user]
        /\ lineage' = [lineage EXCEPT ![k] = l]
        /\ scopes' = scopes
    BY <1>2 DEF InsertRow, KnownUser
  <2>2. k \notin Issued /\ Issued' = Issued \cup {k} /\ Issued \subseteq Keys
    BY <2>1 DEF Issued, TypeOK
  <2>3. /\ lineage'[k] = l /\ owner'[k] = job[r].user /\ status'[k] = "active"
        /\ \A j \in Issued : lineage'[j] = lineage[j] /\ owner'[j] = owner[j]
                             /\ status'[j] = status[j]
    BY <2>1, <2>2 DEF TypeOK
  <2>4. \A j \in Issued : lineage[j] \in Issued /\ lineage[j] # k
    BY <2>2 DEF RowsComplete
  <2>5. l \in Issued' /\ owner'[l] = job[r].user /\ (l = k \/ l \in Issued)
    <3>1. CASE job[r].op = "create" /\ l = k
      BY <2>2, <2>3, <3>1
    <3>2. CASE job[r].op = "rotate" /\ l = lineage[job[r].key]
      <4>1. job[r].key \in Issued /\ owner[job[r].key] = job[r].user
        BY <3>2 DEF Bookkeeping, OldKey
      <4> QED BY <2>2, <2>3, <3>2, <4>1 DEF RowsComplete
    <3> QED BY <3>1, <3>2
  <2>6. \A j \in Issued : lineage[j] = l => status[j] # "active"
    <3>1. CASE job[r].op = "create" /\ l = k
      BY <2>4, <3>1
    <3>2. CASE job[r].op = "rotate" /\ l = lineage[job[r].key]
      BY <3>2 DEF Bookkeeping, OldKey, Kin
    <3> QED BY <3>1, <3>2
  <2>7. RowsComplete'
    <3>1. \A j \in Keys : j \notin Issued' => status[j] = "none" /\ owner'[j] = owner[j]
      BY <2>1, <2>2 DEF Issued, TypeOK
    <3>2. \A j \in Keys : status'[j] = "none" =>
              scopes'[j] = {} /\ owner'[j] = NoUser
      BY <2>1, <2>2, <3>1 DEF RowsComplete, Issued
    <3>3. \A j \in Issued' : /\ lineage'[j] \in Issued' /\ owner'[j] = owner'[lineage'[j]]
                             /\ owner'[j] \in Users
      BY <1>2, <2>2, <2>3, <2>4, <2>5 DEF RowsComplete
    <3> QED BY <3>2, <3>3 DEF RowsComplete
  <2>8. OneActivePerLineage'
    BY <2>2, <2>3, <2>6 DEF OneActivePerLineage, Kin
  <2>9. SuccessorsKeepAuthority'
    <3>1. scopes[k] = {}
      BY <2>1 DEF RowsComplete
    <3> QED BY <2>1, <2>2, <2>3, <2>4, <2>5, <3>1 DEF SuccessorsKeepAuthority
  <2> QED BY <2>7, <2>8, <2>9 DEF Rows
<1> QED BY <1>1, <1>2

(* A scope is added to the first key of a lineage, or copied to a later one
   from a key of the lineage. *)
LEMMA InsertScopeKeeps ==
    ASSUME Inductive, NEW r \in Requests, InsertScope(r)
    PROVE  Rows'
<1> USE DEF Inductive
<1> DEFINE s == Head(todo[r])
           n == new[r]
<1>1. CASE s \in scopes[n]
  BY <1>1 DEF InsertScope, table, Rows, RowsComplete, OneActivePerLineage,
              SuccessorsKeepAuthority, Issued, Kin
<1>2. CASE s \notin scopes[n]
  <2>1. /\ scopes' = [scopes EXCEPT ![n] = @ \cup {s}]
        /\ UNCHANGED <<status, owner, lineage>> /\ pc[r] = "scopes"
    BY <1>2 DEF InsertScope
  <2>2. n \in Issued /\ Issued \subseteq Keys /\ Issued' = Issued
    BY <2>1 DEF Bookkeeping, Holding, Issued
  <2>3. RowsComplete'
    BY <2>1, <2>2 DEF RowsComplete, Issued, TypeOK
  <2>4. OneActivePerLineage'
    BY <2>1 DEF OneActivePerLineage, Issued, Kin
  <2>5. lineage[n] = n \/ s \in scopes[lineage[n]]
    <3>1. CASE job[r].op = "create"
      BY <2>1, <3>1 DEF Bookkeeping, Holding
    <3>2. CASE job[r].op = "rotate"
      <4>1. todo[r] \in Seq(Scopes) /\ todo[r] # <<>>
        BY DEF InsertScope, TypeOK
      <4>2. s \in ToSet(todo[r])
        BY <4>1 DEF ToSet
      <4>3. job[r].key \in Issued /\ s \in scopes[job[r].key]
            /\ lineage[n] = lineage[job[r].key]
        BY <2>1, <3>2, <4>2 DEF Bookkeeping, OldKey
      <4> QED BY <4>3 DEF SuccessorsKeepAuthority
    <3> QED BY <2>1, <3>1, <3>2 DEF Bookkeeping, Holding
  <2>6. SuccessorsKeepAuthority'
    BY <2>1, <2>2, <2>5 DEF SuccessorsKeepAuthority, TypeOK
  <2> QED BY <2>3, <2>4, <2>6 DEF Rows
<1> QED BY <1>1, <1>2

(* Deprecating and revoking move an existing row forward. *)
LEMMA StatusMoveKeeps ==
    ASSUME Inductive, NEW k \in Issued, NEW st \in {"deprecated", "revoked"},
           status' = [status EXCEPT ![k] = st], UNCHANGED <<owner, lineage, scopes>>
    PROVE  Rows'
<1> USE DEF Inductive
<1>1. Issued' = Issued /\ Issued \subseteq Keys
  BY DEF Issued, TypeOK
<1>2. \A j \in Keys : status'[j] = IF j = k THEN st ELSE status[j]
  BY DEF TypeOK
<1>3. RowsComplete'
  BY <1>1, <1>2 DEF RowsComplete
<1>4. OneActivePerLineage'
  BY <1>1, <1>2 DEF OneActivePerLineage, Kin
<1>5. SuccessorsKeepAuthority'
  BY <1>1 DEF SuccessorsKeepAuthority
<1> QED BY <1>3, <1>4, <1>5 DEF Rows

LEMMA SameRowsKeep ==
    ASSUME Inductive, UNCHANGED <<status, owner, lineage, scopes>>
    PROVE  Rows'
BY DEF Inductive, Rows, RowsComplete, OneActivePerLineage, SuccessorsKeepAuthority, Issued, Kin

LEMMA RowsStep ==
    ASSUME Inductive, [Next]_vars PROVE Rows'
<1>1. CASE UNCHANGED <<status, owner, lineage, scopes>>
  BY <1>1, SameRowsKeep
<1>2. ASSUME NEW r \in Requests, Client(r) PROVE Rows'
  BY <1>2, <1>1 DEF Client, Arrive, Cancel, Deliver, LoseReply, table
<1>3. ASSUME NEW r \in Requests, CreateInsert(r) \/ RotateInsert(r) PROVE Rows'
  BY <1>3, InsertRowKeeps DEF CreateInsert, RotateInsert
<1>4. ASSUME NEW r \in Requests, InsertScope(r) PROVE Rows'
  BY <1>4, InsertScopeKeeps
<1>5. ASSUME NEW r \in Requests, RotateDeprecate(r) PROVE Rows'
  <2>1. job[r].key \in Issued
    BY <1>5 DEF RotateDeprecate, Inductive, Bookkeeping, Holding, OldKey
  <2>2. CASE GraceEnd \in Representable
    BY <1>5, <2>1, <2>2, StatusMoveKeeps DEF RotateDeprecate
  <2>3. CASE GraceEnd \notin Representable
    BY <1>1, <1>5, <2>3 DEF RotateDeprecate, table
  <2> QED BY <2>2, <2>3
<1>6. ASSUME NEW r \in Requests, Revoke(r) PROVE Rows'
  <2>1. CASE Revocable(job[r].key, job[r].user)
    BY <1>6, <2>1, StatusMoveKeeps DEF Revoke, Revocable
  <2>2. CASE ~Revocable(job[r].key, job[r].user)
    BY <1>1, <1>6, <2>2 DEF Revoke, table
  <2> QED BY <2>1, <2>2
<1>7. ASSUME NEW r \in Requests,
             \/ CreateCount(r) \/ CreateFinish(r) \/ RotateLoad(r) \/ RotateFinish(r)
             \/ VerifyLookup(r) \/ VerifyTouch(r) \/ List(r) \/ StatementFails(r)
             \/ ReadCutShort(r)
      PROVE  Rows'
  <2>1. UNCHANGED <<status, owner, lineage, scopes>>
    BY <1>7 DEF CreateCount, CreateFinish, RotateLoad, RotateFinish, VerifyLookup,
                VerifyTouch, List, StatementFails, ReadCutShort, LoadOld, table
  <2> QED BY <1>1, <2>1
<1>8. CASE Tick \/ Restart \/ Acquire \/ UNCHANGED vars
  BY <1>1, <1>8 DEF Tick, Restart, Acquire, vars, table
<1> QED BY <1>2, <1>3, <1>4, <1>5, <1>6, <1>7, <1>8 DEF Next, Handler

-----------------------------------------------------------------------------
(* What a handler knows between its statements *)

(* Outside the handlers there is nothing to know. *)
LEMMA IdleKeeps ==
    ASSUME NEW q \in Requests, pc'[q] \notin Steps, new'[q] = NoKey
    PROVE  Holding(q)' /\ OldKey(q)'
BY DEF Holding, OldKey, Steps

(* While r is in its handler no step of r concerns anybody else. *)
LEMMA OthersKeep ==
    ASSUME Inductive, NEW r \in Requests, pc[r] \in Steps,
           NEW q \in Requests, q # r, pc'[q] = pc[q], new'[q] = new[q]
    PROVE  Holding(q)' /\ OldKey(q)'
<1>1. pc[q] \notin Steps
  BY OthersWait DEF Inductive
<1>2. new[q] = NoKey
  BY <1>1 DEF Inductive, Bookkeeping, Holding, Steps
<1> QED BY <1>1, <1>2, IdleKeeps

LEMMA ReturnKeeps ==
    ASSUME Inductive, NEW r \in Requests, NEW answer, Return(r, answer)
    PROVE  Holding(r)' /\ OldKey(r)'
<1>1. pc'[r] \notin Steps /\ new'[r] = NoKey
  BY DEF Return, Inductive, TypeOK, Steps
<1> QED BY <1>1, IdleKeeps

LEMMA CreateKeeps ==
    ASSUME Inductive, NEW r \in Requests,
           CreateCount(r) \/ CreateInsert(r) \/ CreateFinish(r)
    PROVE  Holding(r)' /\ OldKey(r)'
<1>1. CASE \E answer : Return(r, answer)
  BY <1>1, ReturnKeeps
<1>2. CASE CreateCount(r) /\ Goto(r, "insert")
  <2>1. pc'[r] = "insert" /\ new' = new /\ job' = job
    BY <1>2 DEF CreateCount, Goto, Inductive, TypeOK, Return
  <2>2. new[r] = NoKey /\ job[r].op = "create"
    BY <1>2 DEF CreateCount, Inductive, Bookkeeping, Holding
  <2> QED BY <2>1, <2>2 DEF Holding, OldKey
<1>3. CASE CreateInsert(r) /\ Goto(r, "scopes")
  <2>1. PICK k \in Keys : InsertRow(r, k, k)
    BY <1>3 DEF CreateInsert
  <2>2. CASE Return(r, Said("internal"))
    BY <2>2, ReturnKeeps
  <2>3. CASE ~Return(r, Said("internal"))
    <3>1. /\ status' = [status EXCEPT ![k] = "active"]
          /\ lineage' = [lineage EXCEPT ![k] = k]
          /\ new' = [new EXCEPT ![r] = k] /\ job' = job /\ pc'[r] = "scopes"
      BY <2>1, <2>3, <1>3 DEF InsertRow, KnownUser, Goto, Inductive, TypeOK
    <3>2. new'[r] = k /\ lineage'[k] = k /\ k \in Issued' /\ k # NoKey
      BY <3>1, KeysAssumption DEF Issued, Inductive, TypeOK
    <3>3. job[r].op = "create"
      BY <1>3 DEF CreateInsert
    <3> QED BY <3>1, <3>2, <3>3 DEF Holding, OldKey
  <2> QED BY <2>2, <2>3
<1> QED BY <1>1, <1>2, <1>3 DEF CreateCount, CreateInsert, CreateFinish, InsertRow, KnownUser

LEMMA RotateKeeps ==
    ASSUME Inductive, NEW r \in Requests,
           \/ RotateLoad(r) \/ RotateDeprecate(r) \/ RotateInsert(r) \/ RotateFinish(r)
           \/ pc[r] = "load" /\ ReadCutShort(r)
    PROVE  Holding(r)' /\ OldKey(r)'
<1> DEFINE old == job[r].key
<1>1. CASE \E answer : Return(r, answer)
  BY <1>1, ReturnKeeps
<1>2. ASSUME ~\E answer : Return(r, answer), pc[r] = "load",
             RotateLoad(r) \/ ReadCutShort(r)
      PROVE  Holding(r)' /\ OldKey(r)'
  <2>0. Rotatable(old, job[r].user)
    BY <1>2 DEF RotateLoad, ReadCutShort
  <2>1. PICK S \in SUBSET scopes[old] : \E listing \in SetToSeqs(S) : LoadOld(r, listing)
    BY <1>2 DEF RotateLoad, ReadCutShort, Listings
  <2>2. PICK l \in SetToSeqs(S) : LoadOld(r, l)
    BY <2>1
  <2>3. IsFiniteSet(S)
    BY <2>0, ScopesAssumption, FS_Subset DEF Rotatable, Issued, Inductive, TypeOK
  <2>4. ToSet(todo'[r]) \subseteq scopes[old]
    BY <2>2, <2>3, ListingType DEF LoadOld, Inductive, TypeOK
  <2>5. new[r] = NoKey /\ job[r].op = "rotate"
    BY <1>2 DEF Inductive, Bookkeeping, Holding
  <2>6. pc'[r] = "deprecate" /\ job' = job
    BY <2>2 DEF LoadOld, Goto, Inductive, TypeOK
  <2> QED BY <2>0, <2>2, <2>4, <2>5, <2>6 DEF Holding, OldKey, LoadOld, Rotatable, Issued, table
<1>3. ASSUME ~\E answer : Return(r, answer), RotateDeprecate(r)
      PROVE  Holding(r)' /\ OldKey(r)'
  <2>1. /\ status' = [status EXCEPT ![old] = "deprecated"]
        /\ UNCHANGED <<owner, lineage, scopes, todo, new>>
        /\ Goto(r, "insert")
    BY <1>3 DEF RotateDeprecate, locals
  <2>2. /\ old \in Issued /\ owner[old] = job[r].user /\ status[old] = "active"
        /\ ToSet(todo[r]) \subseteq scopes[old]
        /\ new[r] = NoKey /\ job[r].op = "rotate"
    BY <1>3 DEF RotateDeprecate, Inductive, Bookkeeping, Holding, OldKey
  <2>3. pc'[r] = "insert" /\ job' = job
    BY <2>1 DEF Goto, Inductive, TypeOK
  <2>4. Issued' = Issued /\ \A j \in Keys : status'[j] = IF j = old THEN "deprecated"
                                                         ELSE status[j]
    BY <2>1, <2>2 DEF Issued, Inductive, TypeOK
  <2>5. \A j \in Kin(old)' : status'[j] # "active"
    <3>1. \A j \in Issued : lineage[j] = lineage[old] => status'[j] # "active"
      BY <2>2, <2>4 DEF Kin, Issued, Inductive, OneActivePerLineage
    <3> QED BY <2>1, <2>3, <2>4, <3>1 DEF Kin
  <2> QED BY <2>1, <2>2, <2>3, <2>4, <2>5 DEF Holding, OldKey
<1>4. ASSUME ~\E answer : Return(r, answer), RotateInsert(r)
      PROVE  Holding(r)' /\ OldKey(r)'
  <2>1. PICK k \in Keys : InsertRow(r, k, lineage[old])
    BY <1>4 DEF RotateInsert
  <2>2. /\ status[k] = "none"
        /\ status' = [status EXCEPT ![k] = "active"]
        /\ owner' = [owner EXCEPT ![k] = job[r].user]
        /\ lineage' = [lineage EXCEPT ![k] = lineage[old]]
        /\ new' = [new EXCEPT ![r] = k] /\ UNCHANGED <<scopes, todo>>
        /\ Goto(r, "scopes")
    BY <1>4, <2>1 DEF InsertRow, KnownUser
  <2>3. /\ old \in Issued /\ owner[old] = job[r].user
        /\ ToSet(todo[r]) \subseteq scopes[old]
        /\ job[r].op = "rotate"
    BY <1>4 DEF RotateInsert, Inductive, Bookkeeping, OldKey
  <2>4. k # old /\ k # lineage[old] /\ old \in Keys
    BY <2>2, <2>3 DEF Issued, Inductive, RowsComplete
  <2>5. /\ pc'[r] = "scopes" /\ job' = job /\ new'[r] = k /\ k # NoKey
        /\ lineage'[k] = lineage[old] /\ lineage'[old] = lineage[old]
        /\ owner'[old] = owner[old] /\ k \in Issued' /\ old \in Issued'
    BY <2>2, <2>3, <2>4, KeysAssumption DEF Goto, Issued, Inductive, TypeOK
  <2> QED BY <2>2, <2>3, <2>4, <2>5 DEF Holding, OldKey
<1> QED BY <1>1, <1>2, <1>3, <1>4 DEF RotateLoad, RotateFinish

LEMMA InsertScopeHolds ==
    ASSUME Inductive, NEW r \in Requests, InsertScope(r)
    PROVE  Holding(r)' /\ OldKey(r)'
<1> DEFINE n == new[r]
<1>1. CASE \E answer : Return(r, answer)
  BY <1>1, ReturnKeeps
<1>2. ASSUME ~\E answer : Return(r, answer) PROVE Holding(r)' /\ OldKey(r)'
  <2>1. /\ scopes' = [scopes EXCEPT ![n] = @ \cup {Head(todo[r])}]
        /\ todo' = [todo EXCEPT ![r] = Tail(@)]
        /\ UNCHANGED <<status, owner, lineage, new>> /\ Goto(r, "scopes")
        /\ pc[r] = "scopes" /\ todo[r] # <<>>
    BY <1>2 DEF InsertScope
  <2>2. pc'[r] = "scopes" /\ job' = job /\ Issued' = Issued
    BY <2>1 DEF Goto, Issued, Inductive, TypeOK
  <2>3. todo[r] \in Seq(Scopes)
    BY DEF Inductive, TypeOK
  <2>4. ToSet(Tail(todo[r])) \subseteq ToSet(todo[r])
    BY <2>1, <2>3, HeadTailProperties DEF ToSet
  <2>5. todo'[r] = Tail(todo[r]) /\ \A j \in Keys : scopes[j] \subseteq scopes'[j]
    BY <2>1 DEF Inductive, TypeOK
  <2>6. Holding(r) /\ OldKey(r)
    BY DEF Inductive, Bookkeeping
  <2>7. Holding(r)'
    BY <2>1, <2>2, <2>6 DEF Holding
  <2>8. OldKey(r)'
    BY <2>1, <2>2, <2>4, <2>5, <2>6 DEF OldKey, Issued
  <2> QED BY <2>7, <2>8
<1> QED BY <1>1, <1>2

LEMMA ReadersHold ==
    ASSUME Inductive, NEW r \in Requests,
           \/ Revoke(r) \/ VerifyLookup(r) \/ VerifyTouch(r) \/ List(r) \/ StatementFails(r)
           \/ pc[r] # "load" /\ ReadCutShort(r)
    PROVE  Holding(r)' /\ OldKey(r)'
<1>1. CASE \E answer : Return(r, answer)
  BY <1>1, ReturnKeeps
<1>2. ASSUME ~\E answer : Return(r, answer) PROVE Holding(r)' /\ OldKey(r)'
  <2>1. VerifyLookup(r) /\ Usable(job[r].key) /\ Goto(r, "touch") /\ UNCHANGED <<table, new>>
    BY <1>2 DEF Revoke, VerifyLookup, VerifyTouch, List, StatementFails, ReadCutShort
  <2>2. pc'[r] = "touch" /\ job' = job /\ new[r] = NoKey
    BY <2>1 DEF Goto, VerifyLookup, Inductive, TypeOK, Bookkeeping, Holding
  <2> QED BY <2>1, <2>2 DEF Holding, OldKey, Usable, Issued, table
<1> QED BY <1>1, <1>2

LEMMA BookkeepingStep ==
    ASSUME Inductive, [Next]_vars PROVE Bookkeeping'
<1>1. CASE UNCHANGED vars \/ Tick
  BY <1>1 DEF vars, table, locals, Tick, Inductive, Bookkeeping, Holding, OldKey, Issued, Kin
<1>2. CASE Restart
  BY <1>2, IdleKeeps DEF Restart, Bookkeeping, Steps
<1>3. CASE Acquire
  <2>1. \A q \in Requests : pc[q] \notin Steps /\ new[q] = NoKey
    BY <1>3, RequestsAssumption
       DEF Acquire, Grantable, Inductive, Exclusive, Bookkeeping, Holding, Steps
  <2>2. PICK r \in Requests : pc' = [pc EXCEPT ![r] = FirstStep[job[r].op]]
    <3>1. queue # <<>> /\ queue \in Seq(Requests)
      BY <1>3 DEF Acquire, Grantable, Inductive, TypeOK
    <3>2. queue[1] \in Requests
      BY <3>1
    <3> QED BY <1>3, <3>2 DEF Acquire, NextInLine
  <2>3. UNCHANGED <<table, job, new>>
    BY <1>3 DEF Acquire, locals
  <2>4. \A q \in Requests : q # r => pc'[q] \notin Steps /\ new'[q] = NoKey
    BY <2>1, <2>2, <2>3 DEF Inductive, TypeOK
  <2>5. /\ pc'[r] \in {"count", "load", "update", "lookup", "select"}
        /\ pc'[r] = "count" => job[r].op = "create"
        /\ pc'[r] = "load" => job[r].op = "rotate"
    BY <2>2 DEF FirstStep, Inductive, TypeOK, Job
  <2>6. Holding(r)' /\ OldKey(r)'
    BY <2>1, <2>3, <2>5 DEF Holding, OldKey
  <2> QED BY <2>4, <2>6, IdleKeeps DEF Bookkeeping
<1>4. ASSUME NEW r \in Requests, Client(r) PROVE Bookkeeping'
  <2>1. /\ pc[r] \notin Steps /\ pc'[r] \notin Steps /\ new' = new
        /\ UNCHANGED <<table, todo>>
        /\ \A q \in Requests : q # r => pc'[q] = pc[q] /\ job'[q] = job[q]
    BY <1>4 DEF Client, Arrive, Cancel, Deliver, LoseReply, Inductive, TypeOK, Steps, locals
  <2>2. Holding(r)' /\ OldKey(r)'
    BY <2>1, IdleKeeps DEF Inductive, Bookkeeping, Holding, Steps
  <2>3. ASSUME NEW q \in Requests, q # r PROVE Holding(q)' /\ OldKey(q)'
    BY <2>1, <2>3 DEF Inductive, Bookkeeping, Holding, OldKey, Issued, Kin, table
  <2> QED BY <2>2, <2>3 DEF Bookkeeping
<1>5. ASSUME NEW r \in Requests, Handler(r) \/ StatementFails(r) \/ ReadCutShort(r) PROVE Bookkeeping'
  <2>1. Holding(r)' /\ OldKey(r)'
    BY <1>5, CreateKeeps, RotateKeeps, InsertScopeHolds, ReadersHold DEF Handler
  <2>2. pc[r] \in Steps
    BY <1>5, HandlerShape
  <2>3. ASSUME NEW q \in Requests, q # r PROVE pc'[q] = pc[q] /\ new'[q] = new[q]
    <3>1. pc'[q] = pc[q]
      <4>1. CASE \E step : Goto(r, step)
        BY <2>3, <4>1 DEF Goto, Inductive, TypeOK
      <4>2. CASE \E answer : Return(r, answer)
        BY <2>3, <4>2 DEF Return, Inductive, TypeOK
      <4> QED BY <1>5, <4>1, <4>2, HandlerShape
    <3>2. new'[q] = new[q]
      BY <1>5, <2>3
         DEF Handler, CreateCount, CreateInsert, CreateFinish, RotateLoad, RotateDeprecate,
             RotateInsert, RotateFinish, InsertRow, InsertScope, Revoke, VerifyLookup,
             VerifyTouch, List, StatementFails, ReadCutShort, LoadOld, Return, locals, Inductive, TypeOK
    <3> QED BY <3>1, <3>2
  <2> QED BY <2>1, <2>2, <2>3, OthersKeep DEF Bookkeeping
<1> QED BY <1>1, <1>2, <1>3, <1>4, <1>5 DEF Next

-----------------------------------------------------------------------------
LEMMA InductiveInit == Init => Inductive
<1> SUFFICES ASSUME Init PROVE Inductive
  OBVIOUS
<1>1. TypeOK
  BY TypeInit
<1>2. Issued = {}
  BY DEF Init, Issued
<1>3. Exclusive /\ Bookkeeping
  BY DEF Init, Exclusive, Bookkeeping, Holding, OldKey, Steps
<1>4. RowsComplete /\ OneActivePerLineage /\ SuccessorsKeepAuthority
  BY <1>2 DEF Init, RowsComplete, OneActivePerLineage, SuccessorsKeepAuthority
<1> QED BY <1>1, <1>3, <1>4 DEF Inductive

LEMMA InductiveStep ==
    ASSUME Inductive, [Next]_vars PROVE Inductive'
<1>1. TypeOK'
  BY TypeStep DEF Inductive
<1>2. Exclusive'
  BY ExclusiveStep DEF Inductive
<1> QED BY <1>1, <1>2, BookkeepingStep, RowsStep DEF Inductive, Rows

THEOREM InductiveHolds == Spec => []Inductive
<1>1. Init => Inductive
  BY InductiveInit
<1>2. Inductive /\ [Next]_vars => Inductive'
  BY InductiveStep
<1> QED BY <1>1, <1>2, PTL DEF Spec

(* Every variable keeps its type, whatever arrives and whatever fails. *)
THEOREM TypeCorrect == Spec => []TypeOK
<1>1. Inductive => TypeOK
  BY DEF Inductive
<1> QED BY <1>1, InductiveHolds, PTL

(* No lineage ever has two active keys: not between two statements of a
   rotation, not after a failure or a crash in the middle of one. *)
THEOREM OneActive == Spec => []OneActivePerLineage
<1>1. Inductive => OneActivePerLineage
  BY DEF Inductive
<1> QED BY <1>1, InductiveHolds, PTL

(* A successor never has a scope or an owner its lineage did not start with. *)
THEOREM AuthorityKept == Spec => []SuccessorsKeepAuthority
<1>1. Inductive => SuccessorsKeepAuthority
  BY DEF Inductive
<1> QED BY <1>1, InductiveHolds, PTL

-----------------------------------------------------------------------------
(* The quota on active keys *)

LEMMA ActiveFinite ==
    ASSUME NEW u
    PROVE  /\ IsFiniteSet(Active(u)) /\ Cardinality(Active(u)) \in Nat
           /\ IsFiniteSet(Counted(u)) /\ Cardinality(Counted(u)) \in Nat
           /\ Cardinality(Active(u)) <= Cardinality(Counted(u))
<1>1. Active(u) \subseteq Keys /\ Counted(u) \subseteq Keys /\ Active(u) \subseteq Counted(u)
  BY DEF Active, Counted, Issued
<1>2. IsFiniteSet(Active(u)) /\ IsFiniteSet(Counted(u))
  BY <1>1, KeysAssumption, FS_Subset
<1> QED BY <1>1, <1>2, FS_CardinalityType, FS_Subset

(* Steps that activate no key keep the quota, and the room of every handler
   that was already about to insert. *)
LEMMA FewerActive ==
    ASSUME QuotaInductive, \A u : Active(u)' \subseteq Active(u),
           \A r \in Requests : pc'[r] = "insert" => pc[r] = "insert" /\ job'[r] = job[r]
    PROVE  QuotaInductive'
<1>1. ASSUME NEW u PROVE /\ Cardinality(Active(u)') <= Cardinality(Active(u))
                         /\ Cardinality(Active(u)') \in Nat /\ Cardinality(Active(u)) \in Nat
  <2>1. IsFiniteSet(Active(u)) /\ Active(u)' \subseteq Active(u)
    BY ActiveFinite
  <2> QED BY <2>1, FS_Subset, FS_CardinalityType
<1>2. ActiveQuota'
  BY <1>1, NumbersAssumption DEF QuotaInductive, ActiveQuota
<1>3. ASSUME NEW r \in Requests, pc'[r] = "insert", NEW u, u = job'[r].user
      PROVE  Cardinality(Active(u)') < MaxKeys
  <2>1. Cardinality(Active(u)) < MaxKeys
    BY <1>3 DEF QuotaInductive, Room
  <2> QED BY <1>1, <2>1, NumbersAssumption
<1>4. Room'
  BY <1>3 DEF Room, Active, Issued
<1> QED BY <1>2, <1>4 DEF QuotaInductive

LEMMA QuotaStep ==
    ASSUME Inductive, QuotaInductive, [Next]_vars PROVE QuotaInductive'
<1>1. CASE /\ UNCHANGED <<status, owner>>
           /\ \A r \in Requests : pc'[r] = "insert" => pc[r] = "insert" /\ job'[r] = job[r]
  BY <1>1, FewerActive DEF Active, Issued
<1>2. CASE UNCHANGED vars \/ Tick \/ Restart
  BY <1>1, <1>2 DEF vars, table, Tick, Restart
<1>3. CASE Acquire
  <2>1. queue # <<>> /\ queue \in Seq(Requests)
    BY <1>3 DEF Acquire, Grantable, Inductive, TypeOK
  <2>2. queue[1] \in Requests
    BY <2>1
  <2>3. FirstStep[job[queue[1]].op] # "insert"
    BY <2>2 DEF FirstStep, Inductive, TypeOK, Job
  <2> QED BY <1>1, <1>3, <2>2, <2>3 DEF Acquire, NextInLine, table, Inductive, TypeOK
<1>4. ASSUME NEW r \in Requests, Client(r) PROVE QuotaInductive'
  BY <1>1, <1>4 DEF Client, Arrive, Cancel, Deliver, LoseReply, table, Inductive, TypeOK
<1>5. ASSUME NEW r \in Requests, Handler(r) \/ StatementFails(r) \/ ReadCutShort(r) PROVE QuotaInductive'
  <2>1. /\ pc[r] \in Steps
        /\ (\E step : Goto(r, step)) \/ (\E answer : Return(r, answer))
    BY <1>5, HandlerShape
  <2>2. \A q \in Requests : q # r => pc[q] # "insert"
    BY <2>1, OthersWait DEF Inductive, Steps
  <2>3. \A q \in Requests : q # r => pc'[q] # "insert"
    <3>1. CASE \E step : Goto(r, step)
      BY <2>2, <3>1 DEF Goto, Inductive, TypeOK
    <3>2. CASE \E answer : Return(r, answer)
      BY <2>2, <3>2 DEF Return, Inductive, TypeOK
    <3> QED BY <2>1, <3>1, <3>2
  <2>4. CASE UNCHANGED <<status, owner>> /\ pc'[r] # "insert"
    BY <1>1, <2>3, <2>4
  <2>5. CASE CreateCount(r)
    <3>1. CASE \E answer : Return(r, answer)
      BY <2>4, <2>5, <3>1 DEF CreateCount, Return, table, Inductive, TypeOK
    <3>2. CASE Goto(r, "insert") /\ ~LimitReached(job[r].user)
      <4>1. UNCHANGED <<status, owner>> /\ job' = job
        BY <2>5, <3>2 DEF CreateCount, Goto, table
      <4>2. \A u : Active(u)' = Active(u)
        BY <4>1 DEF Active, Issued
      <4>3. Cardinality(Active(job[r].user)) < MaxKeys
        BY <3>2, ActiveFinite, NumbersAssumption DEF LimitReached
      <4> QED BY <2>3, <4>1, <4>2, <4>3 DEF QuotaInductive, ActiveQuota, Room
    <3> QED BY <2>5, <3>1, <3>2 DEF CreateCount
  <2>6. CASE RotateDeprecate(r)
    <3>1. CASE GraceEnd \notin Representable
      BY <2>4, <2>6, <3>1 DEF RotateDeprecate, Return, table, Inductive, TypeOK
    <3>2. ASSUME GraceEnd \in Representable, NEW old, old = job[r].key,
                 NEW u, u = job[r].user
          PROVE  QuotaInductive'
      <4>1. /\ status' = [status EXCEPT ![old] = "deprecated"] /\ owner' = owner
            /\ job' = job
        BY <2>6, <3>2 DEF RotateDeprecate, Goto
      <4>2. old \in Issued /\ owner[old] = u /\ status[old] = "active" /\ u \in Users
        BY <2>6, <3>2 DEF RotateDeprecate, Inductive, Bookkeeping, Holding, OldKey, RowsComplete
      <4>3. /\ \A v : Active(v)' \subseteq Active(v)
            /\ old \in Active(u) /\ old \notin Active(u)'
        BY <4>1, <4>2 DEF Active, Issued, Inductive, TypeOK
      <4>4. ASSUME NEW v
            PROVE  /\ Cardinality(Active(v)') <= Cardinality(Active(v))
                   /\ Cardinality(Active(v)') \in Nat /\ Cardinality(Active(v)) \in Nat
                   /\ Active(v) # Active(v)' => Cardinality(Active(v)') # Cardinality(Active(v))
        BY <4>3, ActiveFinite, FS_Subset, FS_CardinalityType
      <4>5. Cardinality(Active(u)') < Cardinality(Active(u))
        BY <4>3, <4>4
      <4>6. ActiveQuota' /\ Cardinality(Active(u)') < MaxKeys
        BY <4>2, <4>4, <4>5, NumbersAssumption DEF QuotaInductive, ActiveQuota
      <4>7. Cardinality(Active(job[r].user)') < MaxKeys
        BY <4>1, <4>6, <3>2
      <4> QED BY <2>3, <4>6, <4>7 DEF QuotaInductive, Room
    <3> QED BY <3>1, <3>2
  <2>7. ASSUME NEW k \in Keys, NEW l, InsertRow(r, k, l), pc[r] = "insert"
        PROVE  QuotaInductive'
    <3>1. CASE \E answer : Return(r, answer) /\ UNCHANGED table
      BY <2>4, <3>1 DEF Return, table, Inductive, TypeOK
    <3>2. ASSUME NEW u \in Users, u = job[r].user, status[k] = "none",
                 status' = [status EXCEPT ![k] = "active"],
                 owner' = [owner EXCEPT ![k] = u], Goto(r, "scopes")
          PROVE  QuotaInductive'
      <4>1. /\ k \notin Active(u) /\ Active(u)' = Active(u) \cup {k}
            /\ \A v : v # u => Active(v)' = Active(v)
        BY <3>2 DEF Active, Issued, Inductive, TypeOK
      <4>2. Cardinality(Active(u)) < MaxKeys
        BY <2>7, <3>2 DEF QuotaInductive, Room
      <4>3. Cardinality(Active(u)') = Cardinality(Active(u)) + 1
        BY <4>1, ActiveFinite, FS_AddElement
      <4>4. ActiveQuota'
        BY <4>1, <4>2, <4>3, ActiveFinite, NumbersAssumption DEF QuotaInductive, ActiveQuota
      <4>5. pc'[r] # "insert"
        BY <3>2 DEF Goto, Inductive, TypeOK
      <4> QED BY <2>3, <4>4, <4>5 DEF QuotaInductive, Room
    <3> QED BY <2>7, <3>1, <3>2 DEF InsertRow, KnownUser
  <2>8. CASE CreateInsert(r) \/ RotateInsert(r)
    BY <2>7, <2>8 DEF CreateInsert, RotateInsert
  <2>9. CASE Revoke(r)
    <3>1. \A u : Active(u)' \subseteq Active(u)
      BY <2>9 DEF Revoke, Active, Issued, table, Inductive, TypeOK
    <3>2. pc'[r] # "insert"
      BY <2>9 DEF Revoke, Return, Inductive, TypeOK
    <3> QED BY <2>3, <3>1, <3>2, FewerActive
  <2>10. CASE InsertScope(r)
    BY <2>4, <2>10 DEF InsertScope, Goto, Return, table, Inductive, TypeOK
  <2>11. CASE CreateFinish(r) \/ RotateFinish(r) \/ VerifyTouch(r) \/ List(r) \/ StatementFails(r)
    BY <2>4, <2>11 DEF CreateFinish, RotateFinish, VerifyTouch, List, StatementFails, Return,
                       table, Inductive, TypeOK
  <2>12. CASE RotateLoad(r) \/ VerifyLookup(r) \/ ReadCutShort(r)
    BY <2>4, <2>12 DEF RotateLoad, VerifyLookup, ReadCutShort, LoadOld, Goto, Return, table, Inductive, TypeOK
  <2> QED BY <1>5, <2>5, <2>6, <2>8, <2>9, <2>10, <2>11, <2>12 DEF Handler
<1> QED BY <1>2, <1>3, <1>4, <1>5 DEF Next

(* With what a handler about to insert has made sure of, the quota is inductive. *)
THEOREM QuotaAndRoom == Spec => []QuotaInductive
<1>1. Init => QuotaInductive
  <2> SUFFICES ASSUME Init PROVE QuotaInductive
    OBVIOUS
  <2>1. \A u : Active(u) = {}
    BY DEF Init, Active, Issued
  <2>2. ActiveQuota
    BY <2>1, FS_EmptySet, NumbersAssumption DEF ActiveQuota
  <2>3. \A r \in Requests : pc[r] # "insert"
    BY DEF Init
  <2> QED BY <2>2, <2>3 DEF QuotaInductive, Room
<1>2. Inductive /\ QuotaInductive /\ [Next]_vars => QuotaInductive'
  BY QuotaStep
<1> QED BY <1>1, <1>2, InductiveHolds, PTL DEF Spec

(* max_keys_per_user bounds the active keys of every user, in every
   interleaving of creations, rotations and revocations and whatever fails. *)
THEOREM QuotaKept == Spec => []ActiveQuota
<1>1. QuotaInductive => ActiveQuota
  BY DEF QuotaInductive
<1> QED BY <1>1, QuotaAndRoom, PTL

-----------------------------------------------------------------------------

(* A step of a handler concerns its own request alone. *)
LEMMA OthersStill ==
    ASSUME Inductive, NEW r \in Requests,
           Handler(r) \/ StatementFails(r) \/ ReadCutShort(r),
           NEW q \in Requests, q # r
    PROVE  /\ pc'[q] = pc[q] /\ pc[q] \notin Steps
           /\ job'[q] = job[q] /\ reply'[q] = reply[q]
<1>1. pc[q] \notin Steps
  BY HandlerShape, OthersWait DEF Inductive
<1>2. CASE \E step : Goto(r, step)
  BY <1>1, <1>2 DEF Goto, Inductive, TypeOK
<1>3. CASE \E answer : Return(r, answer)
  BY <1>1, <1>3 DEF Return, Inductive, TypeOK
<1> QED BY <1>2, <1>3, HandlerShape

(* The mutex goes to one waiting request, and nobody is in a handler then. *)
LEMMA GrantShape ==
    ASSUME Inductive, Acquire
    PROVE  /\ \A q \in Requests : pc[q] \notin Steps
           /\ \E r \in Requests :
                  /\ pc'[r] \in {"count", "load", "update", "lookup", "select"}
                  /\ \A q \in Requests : q # r => pc'[q] = pc[q]
           /\ UNCHANGED <<table, now, job, locals, reply, known>>
<1>1. \A q \in Requests : pc[q] \notin Steps
  BY RequestsAssumption DEF Acquire, Grantable, Inductive, Exclusive
<1>2. queue[1] \in Requests
  BY DEF Acquire, Grantable, Inductive, TypeOK
<1>3. job[queue[1]].op \in {"create", "rotate", "revoke", "verify", "list"}
  BY <1>2 DEF Inductive, TypeOK, Job
<1> QED BY <1>1, <1>2, <1>3 DEF Acquire, NextInLine, FirstStep, Inductive, TypeOK

(* A request stands in the queue of the mutex once, and waits. *)
Queued ==
    /\ \A i \in 1..Len(queue) : pc[queue[i]] = "waiting"
    /\ \A i, j \in 1..Len(queue) : queue[i] = queue[j] => i = j

LEMMA RemoveAtElements ==
    ASSUME NEW S, NEW s \in Seq(S), NEW i \in 1..Len(s)
    PROVE  /\ Len(RemoveAt(s, i)) = Len(s) - 1
           /\ \A m \in 1..Len(s) - 1 : RemoveAt(s, i)[m] = IF m < i THEN s[m] ELSE s[m + 1]
<1> DEFINE a == SubSeq(s, 1, i - 1)
           b == SubSeq(s, i + 1, Len(s))
<1>1. /\ Len(s) \in Nat /\ i \in Nat
      /\ a \in Seq(S) /\ Len(a) = i - 1 /\ \A m \in 1..i - 1 : a[m] = s[m]
      /\ b \in Seq(S) /\ Len(b) = Len(s) - i /\ \A m \in 1..Len(s) - i : b[m] = s[m + i]
  OBVIOUS
<1> HIDE DEF a, b
<1>2. /\ Len(a \o b) = Len(a) + Len(b)
      /\ \A m \in 1..Len(a) + Len(b) : (a \o b)[m] = IF m <= Len(a) THEN a[m] ELSE b[m - Len(a)]
  BY <1>1, ConcatProperties
<1>3. Len(a) + Len(b) = Len(s) - 1
  BY <1>1
<1>4. ASSUME NEW m \in 1..Len(s) - 1
      PROVE  (a \o b)[m] = IF m < i THEN s[m] ELSE s[m + 1]
  <2>1. CASE m < i
    BY <1>1, <1>2, <1>3, <2>1
  <2>2. CASE ~(m < i)
    <3>1. m - Len(a) \in 1..Len(s) - i /\ ~(m <= Len(a)) /\ (m - Len(a)) + i = m + 1
      BY <1>1, <2>2
    <3>2. (a \o b)[m] = b[m - Len(a)]
      BY <1>2, <1>3, <3>1
    <3> QED BY <1>1, <2>2, <3>1, <3>2
  <2> QED BY <2>1, <2>2
<1> QED BY <1>2, <1>3, <1>4 DEF RemoveAt, a, b

LEMMA QueuedStep ==
    ASSUME TypeOK, Queued, [Next]_vars PROVE Queued'
<1>1. ASSUME NEW i \in 1..Len(queue), queue' = RemoveAt(queue, i),
             \A q \in Requests : q # queue[i] => pc'[q] = pc[q]
      PROVE  Queued'
  <2>1. /\ Len(queue') = Len(queue) - 1 /\ Len(queue) \in Nat
        /\ \A m \in 1..Len(queue) - 1 : queue'[m] = IF m < i THEN queue[m] ELSE queue[m + 1]
    <3>1. queue \in Seq(Requests)
      BY DEF TypeOK
    <3>2. /\ Len(RemoveAt(queue, i)) = Len(queue) - 1
          /\ \A m \in 1..Len(queue) - 1 :
                 RemoveAt(queue, i)[m] = IF m < i THEN queue[m] ELSE queue[m + 1]
      BY <3>1, RemoveAtElements
    <3>3. Len(queue) \in Nat
      BY <3>1
    <3> QED BY <1>1, <3>2, <3>3, Zenon
  <2>2. ASSUME NEW m \in 1..Len(queue')
        PROVE  \E n \in 1..Len(queue) : /\ n # i /\ queue'[m] = queue[n]
                                        /\ n = IF m < i THEN m ELSE m + 1
    BY <2>1, <2>2
  <2>3. \A n \in 1..Len(queue) : n # i => /\ queue[n] \in Requests /\ queue[n] # queue[i]
                                          /\ pc'[queue[n]] = "waiting"
    BY <1>1 DEF Queued, TypeOK
  <2>4. ASSUME NEW m \in 1..Len(queue'), NEW n \in 1..Len(queue'), queue'[m] = queue'[n]
        PROVE  m = n
    <3>1. PICK x \in 1..Len(queue) : queue'[m] = queue[x] /\ x = IF m < i THEN m ELSE m + 1
      BY <2>2
    <3>2. PICK y \in 1..Len(queue) : queue'[n] = queue[y] /\ y = IF n < i THEN n ELSE n + 1
      BY <2>2
    <3>3. x = y
      BY <2>4, <3>1, <3>2 DEF Queued
    <3> QED BY <2>1, <3>1, <3>2, <3>3
  <2> QED BY <2>2, <2>3, <2>4 DEF Queued
<1>2. ASSUME NEW r \in Requests, NEW j \in Asks, Arrive(r, j) PROVE Queued'
  <2>1. \A i \in 1..Len(queue) : queue[i] \in Requests /\ queue[i] # r
    BY <1>2 DEF Arrive, Queued, TypeOK
  <2>2. \A q \in Requests : q # r => pc'[q] = pc[q]
    BY <1>2 DEF Arrive, TypeOK
  <2>3. CASE queue' = queue
    BY <2>1, <2>2, <2>3 DEF Queued
  <2>4. CASE queue' = Append(queue, r) /\ pc'[r] = "waiting"
    <3>1. /\ Len(queue') = Len(queue) + 1 /\ Len(queue) \in Nat
          /\ queue'[Len(queue) + 1] = r /\ \A i \in 1..Len(queue) : queue'[i] = queue[i]
      BY <2>4 DEF TypeOK
    <3>2. \A i \in 1..Len(queue') : i \in 1..Len(queue) \/ i = Len(queue) + 1
      BY <3>1
    <3> QED BY <2>1, <2>2, <2>4, <3>1, <3>2 DEF Queued
  <2> QED BY <1>2, <2>3, <2>4 DEF Arrive, TypeOK
<1>3. ASSUME NEW r \in Requests, Cancel(r) PROVE Queued'
  BY <1>1, <1>3 DEF Cancel, TypeOK
<1>4. ASSUME NEW r \in Requests, queue' = queue, pc[r] # "waiting",
             \A q \in Requests : q # r => pc'[q] = pc[q]
      PROVE  Queued'
  BY <1>4 DEF Queued, TypeOK
<1>5. ASSUME NEW r \in Requests, Deliver(r) \/ LoseReply(r) PROVE Queued'
  BY <1>4, <1>5 DEF Deliver, LoseReply, TypeOK
<1>6. ASSUME NEW r \in Requests, Handler(r) \/ StatementFails(r) \/ ReadCutShort(r) PROVE Queued'
  <2>1. pc[r] # "waiting" /\ queue' = queue
    BY <1>6, HandlerShape DEF Goto, Return, Steps
  <2>2. ASSUME NEW q \in Requests, q # r PROVE pc'[q] = pc[q]
    <3>1. CASE \E step : Goto(r, step)
      BY <2>2, <3>1 DEF Goto, TypeOK
    <3>2. CASE \E answer : Return(r, answer)
      BY <2>2, <3>2 DEF Return, TypeOK
    <3> QED BY <1>6, <3>1, <3>2, HandlerShape
  <2> QED BY <1>4, <2>1, <2>2
<1>7. CASE Acquire
  <2>1. 1 \in 1..Len(queue)
    BY <1>7 DEF Acquire, Grantable, TypeOK
  <2> QED BY <1>1, <1>7, <2>1 DEF Acquire, NextInLine, TypeOK
<1>8. CASE Tick \/ UNCHANGED vars
  BY <1>8 DEF Tick, vars, Queued
<1>9. CASE Restart
  BY <1>9 DEF Restart, Queued
<1> QED BY <1>2, <1>3, <1>5, <1>6, <1>7, <1>8, <1>9 DEF Next, Client

LEMMA QueuedHolds == Spec => []Queued
<1>1. Init => Queued
  BY DEF Init, Queued
<1>2. Inductive /\ Queued /\ [Next]_vars => Queued'
  BY QueuedStep DEF Inductive
<1> QED BY <1>1, <1>2, InductiveHolds, PTL DEF Spec

-----------------------------------------------------------------------------
(* Rows only age *)

(* The row a verification is about to touch is still one it may accept: the
   mutex is held since it was read. *)
Touchable == \A r \in Requests : pc[r] = "touch" => status[job[r].key] # "revoked"

LEMMA TouchableStep ==
    ASSUME Inductive, Touchable, [Next]_vars PROVE Touchable'
<1>1. CASE UNCHANGED vars \/ Tick
  BY <1>1 DEF vars, table, Tick, Touchable
<1>2. CASE Restart
  BY <1>2 DEF Restart, Touchable
<1>3. CASE Acquire
  BY <1>3, GrantShape DEF Touchable, Steps
<1>4. ASSUME NEW r \in Requests, Client(r) PROVE Touchable'
  BY <1>4 DEF Client, Arrive, Cancel, Deliver, LoseReply, Touchable, table, Inductive, TypeOK
<1>5. ASSUME NEW r \in Requests, Handler(r) \/ StatementFails(r) \/ ReadCutShort(r)
      PROVE  Touchable'
  <2>1. \A q \in Requests : q # r => pc'[q] # "touch"
    BY <1>5, OthersStill DEF Steps
  <2>2. CASE \E answer : Return(r, answer)
    BY <2>1, <2>2 DEF Return, Touchable, Inductive, TypeOK
  <2>3. ASSUME NEW step, Goto(r, step), step # "touch" PROVE Touchable'
    BY <2>1, <2>3 DEF Goto, Touchable, Inductive, TypeOK
  <2>4. CASE VerifyLookup(r) /\ Goto(r, "touch") /\ Usable(job[r].key)
    BY <2>1, <2>4 DEF VerifyLookup, Goto, Usable, table, Touchable, Inductive, TypeOK
  <2> QED
    BY <1>5, <2>2, <2>3, <2>4
       DEF Handler, CreateCount, CreateInsert, CreateFinish, RotateLoad, RotateDeprecate,
           RotateInsert, RotateFinish, InsertRow, InsertScope, Revoke, VerifyLookup,
           VerifyTouch, List, StatementFails, ReadCutShort, LoadOld
<1> QED BY <1>1, <1>2, <1>3, <1>4, <1>5 DEF Next

LEMMA TouchableHolds == Spec => []Touchable
<1>1. Init => Touchable
  BY DEF Init, Touchable
<1>2. Inductive /\ Touchable /\ [Next]_vars => Touchable'
  BY TouchableStep
<1> QED BY <1>1, <1>2, InductiveHolds, PTL DEF Spec

Ages(k) ==
    /\ Rank[status'[k]] >= Rank[status[k]]
    /\ owner'[k] = owner[k] /\ lineage'[k] = lineage[k]
    /\ status[k] # "active" => expires'[k] = expires[k]
    /\ status[k] = "revoked" => lastUsed'[k] = lastUsed[k]
    /\ scopes'[k] # scopes[k] => \E r \in Requests : new[r] = k /\ pc[r] = "scopes"

LEMMA RankOrder ==
    ASSUME NEW s \in Statuses PROVE Rank[s] \in Nat /\ Rank[s] <= Rank["revoked"]
BY DEF Statuses, Rank

LEMMA SameRowAges ==
    ASSUME Inductive, NEW k \in Issued, UNCHANGED table PROVE Ages(k)
<1>1. Rank[status[k]] \in Nat
  BY RankOrder DEF Issued, Inductive, TypeOK
<1> QED BY <1>1 DEF Ages, table

LEMMA AgesStep ==
    ASSUME Inductive, Touchable, [Next]_vars, NEW k \in Issued PROVE Ages(k)
<1>0. k \in Keys /\ status[k] \in Statuses /\ Rank[status[k]] \in Nat
  BY RankOrder DEF Issued, Inductive, TypeOK
<1>1. CASE UNCHANGED table
  BY <1>1, SameRowAges
<1>2. ASSUME NEW r \in Requests, NEW n \in Keys, NEW l, InsertRow(r, n, l) PROVE Ages(k)
  <2>1. CASE KnownUser(job[r].user)
    <3>1. /\ status[n] = "none" /\ UNCHANGED <<expires, lastUsed, scopes>>
          /\ status' = [status EXCEPT ![n] = "active"]
          /\ owner' = [owner EXCEPT ![n] = job[r].user]
          /\ lineage' = [lineage EXCEPT ![n] = l]
      BY <1>2, <2>1 DEF InsertRow
    <3>2. n # k
      BY <3>1 DEF Issued
    <3> QED BY <1>0, <3>1, <3>2 DEF Ages, Inductive, TypeOK
  <2> QED BY <1>1, <1>2, <2>1 DEF InsertRow
<1>3. ASSUME NEW r \in Requests, InsertScope(r) PROVE Ages(k)
  <2>1. CASE new[r] = k
    BY <1>0, <1>3, <2>1 DEF InsertScope, Ages, table
  <2>2. CASE new[r] # k
    BY <1>0, <1>3, <2>2 DEF InsertScope, Ages, table, Inductive, TypeOK
  <2> QED BY <2>1, <2>2
<1>4. ASSUME NEW r \in Requests, RotateDeprecate(r) PROVE Ages(k)
  <2>1. status[job[r].key] = "active"
    BY <1>4 DEF RotateDeprecate, Inductive, Bookkeeping, Holding, OldKey
  <2>2. CASE GraceEnd \in Representable
    BY <1>0, <1>4, <2>1, <2>2 DEF RotateDeprecate, Ages, Rank, Inductive, TypeOK
  <2> QED BY <1>1, <1>4, <2>2 DEF RotateDeprecate
<1>5. ASSUME NEW r \in Requests, Revoke(r) PROVE Ages(k)
  <2>1. CASE UNCHANGED <<owner, lineage, expires, lastUsed, scopes>>
                /\ status' = [status EXCEPT ![job[r].key] = "revoked"]
    <3>1. Rank[status'[k]] >= Rank[status[k]]
      BY <1>0, <2>1, RankOrder DEF Inductive, TypeOK, Rank
    <3> QED BY <2>1, <3>1 DEF Ages
  <2> QED BY <1>1, <1>5, <2>1 DEF Revoke
<1>6. ASSUME NEW r \in Requests, pc[r] = "touch",
             UNCHANGED <<status, owner, lineage, expires, scopes>>,
             NEW t, lastUsed' = [lastUsed EXCEPT ![job[r].key] = t]
      PROVE  Ages(k)
  BY <1>0, <1>6 DEF Touchable, Ages, Inductive, TypeOK
<1>7. ASSUME NEW r \in Requests, VerifyTouch(r) \/ StatementFails(r) \/ ReadCutShort(r)
      PROVE  Ages(k)
  BY <1>1, <1>6, <1>7 DEF VerifyTouch, StatementFails, ReadCutShort, LoadOld
<1>8. ASSUME NEW r \in Requests,
             \/ CreateCount(r) \/ CreateFinish(r) \/ RotateLoad(r) \/ RotateFinish(r)
             \/ VerifyLookup(r) \/ List(r) \/ Client(r)
      PROVE  Ages(k)
  BY <1>1, <1>8 DEF CreateCount, CreateFinish, RotateLoad, RotateFinish, VerifyLookup, List,
                    LoadOld, Client, Arrive, Cancel, Deliver, LoseReply
<1>9. CASE Tick \/ Restart \/ Acquire \/ UNCHANGED vars
  BY <1>1, <1>9 DEF Tick, Restart, Acquire, vars
<1>10. ASSUME NEW r \in Requests, Handler(r) PROVE Ages(k)
  BY <1>2, <1>3, <1>4, <1>5, <1>7, <1>8, <1>10 DEF Handler, CreateInsert, RotateInsert
<1> QED BY <1>7, <1>8, <1>9, <1>10 DEF Next

(* Whatever the order of the requests and whatever fails, a row never goes back
   to an earlier status, changes hands or lineage, gets another end of its
   grace, is touched after its revocation, or gains a scope from anybody but
   the handler that inserted it. *)
THEOREM RowsAge == Spec => RowsOnlyAge
<1>1. ASSUME Inductive, Touchable, [Next]_vars
      PROVE  [\A k \in Issued :
                /\ Rank[status'[k]] >= Rank[status[k]]
                /\ owner'[k] = owner[k] /\ lineage'[k] = lineage[k]
                /\ status[k] # "active" => expires'[k] = expires[k]
                /\ status[k] = "revoked" => lastUsed'[k] = lastUsed[k]
                /\ scopes'[k] # scopes[k] =>
                       \E r \in Requests : new[r] = k /\ pc[r] = "scopes"]_vars
  BY <1>1, AgesStep DEF Ages
<1> QED BY <1>1, InductiveHolds, TouchableHolds, PTL DEF Spec, RowsOnlyAge

-----------------------------------------------------------------------------
(* Answers match the table *)

(* What has been inserted of the scopes a handler was given, and what is left,
   are those scopes; none of them is a wildcard, and no row has one. *)
Carries(r) ==
    /\ pc[r] \in {"deprecate", "insert", "scopes"} => given[r] \cap Wildcards = {}
    /\ pc[r] \in {"deprecate", "insert"} => given[r] = ToSet(todo[r])
    /\ pc[r] = "scopes" => /\ given[r] = scopes[new[r]] \cup ToSet(todo[r])
                           /\ owner[new[r]] = job[r].user

Clean == \A k \in Keys : scopes[k] \cap Wildcards = {}

(* An answer under way tells of rows that are finished, and truly. *)
Telling == {"created", "rotated", "valid"}
Tells(r) ==
    reply[r].kind \in Telling => \A k \in reply[r].keys :
        /\ k \in Issued /\ \A q \in Requests : new[q] # k
        /\ reply[r].kind # "valid" => owner[k] = job[r].user
        /\ \/ reply[r].scopes = scopes[k]
           \/ Faults /\ reply[r].kind = "valid" /\ reply[r].scopes \subseteq scopes[k]

Silent(r) == pc[r] \in {"idle", "waiting"} => reply[r].kind = "none"

Answers == Clean /\ \A r \in Requests : Carries(r) /\ Silent(r) /\ Tells(r)

LEMMA AnswersSuffice ==
    ASSUME TypeOK, Answers PROVE AnswersMatchTable
<1> SUFFICES ASSUME NEW r \in Requests, reply[r].kind \in Telling, NEW k \in reply[r].keys
             PROVE  /\ k \in Issued
                    /\ reply[r].kind # "valid" => owner[k] = job[r].user
                    /\ \/ reply[r].scopes = scopes[k]
                       \/ Faults /\ reply[r].kind = "valid" /\ reply[r].scopes \subseteq scopes[k]
                    /\ reply[r].scopes \cap Wildcards = {}
  BY DEF AnswersMatchTable, Telling
<1>1. Tells(r)
  BY DEF Answers
<1>2. reply[r].scopes \subseteq scopes[k] /\ k \in Keys
  BY <1>1 DEF Tells, Issued
<1> QED BY <1>1, <1>2 DEF Tells, Answers, Clean

(* A handler that takes a key takes one no row has yet. *)
LEMMA NewIsFresh ==
    ASSUME Inductive, [Next]_vars, NEW q \in Requests
    PROVE  new'[q] \in {new[q], NoKey} \/ new'[q] \notin Issued
<1>1. ASSUME NEW r \in Requests, NEW n \in Keys, NEW l, InsertRow(r, n, l)
      PROVE  new'[q] \in {new[q], NoKey} \/ new'[q] \notin Issued
  BY <1>1 DEF InsertRow, Return, Issued, Inductive, TypeOK
<1>2. ASSUME NEW r \in Requests, Client(r) PROVE new'[q] = new[q]
  BY <1>2 DEF Client, Arrive, Cancel, Deliver, LoseReply, locals
<1>3. ASSUME NEW r \in Requests,
             \/ CreateCount(r) \/ CreateFinish(r) \/ RotateLoad(r) \/ RotateDeprecate(r)
             \/ RotateFinish(r) \/ InsertScope(r) \/ Revoke(r) \/ VerifyLookup(r)
             \/ VerifyTouch(r) \/ List(r) \/ StatementFails(r) \/ ReadCutShort(r)
      PROVE  new'[q] \in {new[q], NoKey}
  BY <1>3 DEF CreateCount, CreateFinish, RotateLoad, RotateDeprecate, RotateFinish, InsertScope,
              Revoke, VerifyLookup, VerifyTouch, List, StatementFails, ReadCutShort, LoadOld,
              Return, locals, Inductive, TypeOK
<1>4. CASE Tick \/ Restart \/ Acquire \/ UNCHANGED vars
  BY <1>4 DEF Tick, Restart, Acquire, vars, locals
<1> QED BY <1>1, <1>2, <1>3, <1>4 DEF Next, Handler, CreateInsert, RotateInsert

(* What an answer says of a finished row stays true: rows only age. *)
LEMMA TellsKept ==
    ASSUME Inductive, Touchable, [Next]_vars, NEW r \in Requests, Tells(r),
           reply'[r] = reply[r], job'[r] = job[r]
    PROVE  Tells(r)'
<1> SUFFICES ASSUME reply[r].kind \in Telling, NEW k \in reply[r].keys
             PROVE  /\ k \in Issued' /\ \A q \in Requests : new'[q] # k
                    /\ owner'[k] = owner[k] /\ scopes'[k] = scopes[k]
  BY DEF Tells
<1>1. k \in Issued /\ k \in Keys /\ \A q \in Requests : new[q] # k
  BY DEF Tells, Issued
<1>2. Ages(k)
  BY <1>1, AgesStep
<1>3. k \in Issued'
  <2>1. status[k] \in Statuses /\ status'[k] \in Statuses /\ status[k] # "none"
    BY <1>1, TypeStep DEF Inductive, TypeOK, Issued
  <2>2. status'[k] # "none"
    BY <1>2, <2>1 DEF Ages, Rank, Statuses
  <2> QED BY <1>1, <2>2 DEF Issued
<1>4. \A q \in Requests : new'[q] # k
  BY <1>1, NewIsFresh, KeysAssumption
<1> QED BY <1>1, <1>2, <1>3, <1>4 DEF Ages

(* The scopes still to be inserted, one inserted. *)
LEMMA HeadTailSet ==
    ASSUME NEW S, NEW s \in Seq(S), s # <<>>
    PROVE  ToSet(s) = {Head(s)} \cup ToSet(Tail(s))
<1>1. \A t \in Seq(S) : \A x : x \in ToSet(t) <=> \E i \in 1..Len(t) : t[i] = x
  BY DEF ToSet
<1>2. /\ Head(s) = s[1] /\ Len(Tail(s)) = Len(s) - 1 /\ Len(s) \in Nat \ {0}
      /\ Tail(s) \in Seq(S) /\ \A i \in 1..Len(Tail(s)) : Tail(s)[i] = s[i + 1]
  BY HeadTailProperties, EmptySeq
<1>3. \A x : x \in ToSet(Tail(s)) <=> \E i \in 1..Len(s) - 1 : s[i + 1] = x
  <2>1. \A x : x \in ToSet(Tail(s)) <=> \E i \in 1..Len(Tail(s)) : Tail(s)[i] = x
    BY <1>1, <1>2
  <2> QED BY <1>2, <2>1
<1>4. ASSUME NEW i \in 1..Len(s), i # 1
      PROVE  i - 1 \in 1..Len(s) - 1 /\ s[(i - 1) + 1] = s[i]
  <2>1. Len(s) \in Nat /\ i \in Nat
    BY <1>2
  <2>2. i - 1 \in 1..Len(s) - 1 /\ (i - 1) + 1 = i
    BY <1>4, <2>1
  <2> QED BY <2>2
<1>5. ASSUME NEW x \in ToSet(s) PROVE x \in {Head(s)} \cup ToSet(Tail(s))
  <2>1. PICK i \in 1..Len(s) : s[i] = x
    BY <1>1, <1>5
  <2> QED BY <1>2, <1>3, <1>4, <2>1
<1>6. ASSUME NEW x \in {Head(s)} \cup ToSet(Tail(s)) PROVE x \in ToSet(s)
  BY <1>1, <1>2, <1>3, <1>6
<1> QED BY <1>5, <1>6

-----------------------------------------------------------------------------
(* One statement of a handler *)

LEMMA CleanStep ==
    ASSUME Inductive, Answers, [Next]_vars PROVE Clean'
<1>1. ASSUME NEW r \in Requests, InsertScope(r) PROVE Clean'
  <2>1. CASE UNCHANGED table
    BY <2>1 DEF table, Clean, Answers
  <2>2. CASE scopes' = [scopes EXCEPT ![new[r]] = @ \cup {Head(todo[r])}]
    <3>1. todo[r] \in Seq(Scopes) /\ todo[r] # <<>> /\ pc[r] = "scopes"
      BY <1>1 DEF InsertScope, Inductive, TypeOK
    <3>2. Head(todo[r]) \in ToSet(todo[r])
      BY <3>1, HeadTailSet
    <3>3. Head(todo[r]) \notin Wildcards
      BY <3>1, <3>2 DEF Answers, Carries
    <3> QED BY <2>2, <3>3 DEF Answers, Clean, Inductive, TypeOK
  <2> QED BY <1>1, <2>1, <2>2 DEF InsertScope
<1>2. ASSUME NEW r \in Requests, Handler(r) \/ StatementFails(r) \/ ReadCutShort(r) \/ Client(r),
             ~InsertScope(r)
      PROVE  Clean'
  <2>1. scopes' = scopes
    BY <1>2
       DEF Handler, CreateCount, CreateInsert, CreateFinish, RotateLoad, RotateDeprecate,
           RotateInsert, RotateFinish, InsertRow, Revoke, VerifyLookup, VerifyTouch, List,
           StatementFails, ReadCutShort, LoadOld, Client, Arrive, Cancel, Deliver, LoseReply, table
  <2> QED BY <2>1 DEF Answers, Clean
<1>3. CASE Tick \/ Restart \/ Acquire \/ UNCHANGED vars
  BY <1>3 DEF Tick, Restart, Acquire, vars, table, Answers, Clean
<1> QED BY <1>1, <1>2, <1>3 DEF Next, Handler

LEMMA CarriesStep ==
    ASSUME Inductive, Answers, NEW r \in Requests,
           Handler(r) \/ StatementFails(r) \/ ReadCutShort(r)
    PROVE  Carries(r)'
<1> DEFINE n == new[r]
           old == job[r].key
<1>1. CASE \E answer : Return(r, answer)
  BY <1>1 DEF Return, Carries, Inductive, TypeOK
<1>2. CASE CreateCount(r) /\ Goto(r, "insert") /\ Assignable(job[r].ask)
           /\ given' = [given EXCEPT ![r] = ToSet(job[r].ask)]
           /\ todo' = [todo EXCEPT ![r] = job[r].ask]
  BY <1>2 DEF Goto, Assignable, Carries, Inductive, TypeOK
<1>3. ASSUME NEW S \in SUBSET scopes[old], NEW listing \in SetToSeqs(S), LoadOld(r, listing),
             old \in Issued
      PROVE  Carries(r)'
  <2>1. IsFiniteSet(S)
    BY <1>3, ScopesAssumption, FS_Subset DEF Issued, Inductive, TypeOK
  <2>2. ToSet(listing) \subseteq scopes[old]
    BY <2>1, ListingType
  <2>3. ToSet(listing) \cap Wildcards = {}
    BY <1>3, <2>2 DEF Issued, Answers, Clean
  <2>4. /\ given'[r] = ToSet(listing) /\ todo'[r] = listing /\ pc'[r] = "deprecate"
    BY <1>3 DEF LoadOld, Goto, Inductive, TypeOK
  <2> QED BY <2>3, <2>4 DEF Carries
<1>4. CASE RotateDeprecate(r) /\ Goto(r, "insert") /\ UNCHANGED locals
  BY <1>4 DEF RotateDeprecate, Goto, locals, Answers, Carries, Inductive, TypeOK
<1>5. ASSUME NEW k \in Keys, NEW l, InsertRow(r, k, l), pc[r] = "insert", Goto(r, "scopes")
      PROVE  Carries(r)'
  <2>1. CASE Return(r, Said("internal"))
    BY <1>1, <2>1
  <2>2. CASE KnownUser(job[r].user)
    <3>1. /\ owner'[k] = job[r].user /\ new'[r] = k /\ pc'[r] = "scopes"
          /\ UNCHANGED <<scopes, given, todo, job>>
      BY <1>5, <2>2 DEF InsertRow, Goto, Inductive, TypeOK
    <3>2. scopes[k] = {}
      BY <1>5, <2>2 DEF InsertRow, Inductive, RowsComplete
    <3> QED BY <1>5, <3>1, <3>2 DEF Answers, Carries
  <2> QED BY <1>5, <2>1, <2>2 DEF InsertRow
<1>6. CASE InsertScope(r) /\ Goto(r, "scopes") /\ Head(todo[r]) \notin scopes[n]
  <2>1. /\ scopes' = [scopes EXCEPT ![n] = @ \cup {Head(todo[r])}]
        /\ todo' = [todo EXCEPT ![r] = Tail(@)]
        /\ UNCHANGED <<owner, given, new>> /\ pc[r] = "scopes"
    BY <1>6 DEF InsertScope
  <2>2. n \in Keys /\ todo[r] \in Seq(Scopes) /\ todo[r] # <<>>
    BY <1>6 DEF InsertScope, Inductive, Bookkeeping, Holding, Issued, TypeOK
  <2>3. /\ scopes'[n] = scopes[n] \cup {Head(todo[r])} /\ todo'[r] = Tail(todo[r])
        /\ pc'[r] = "scopes" /\ job' = job
    BY <1>6, <2>1, <2>2 DEF Goto, Inductive, TypeOK
  <2>4. ToSet(todo[r]) = {Head(todo[r])} \cup ToSet(Tail(todo[r]))
    BY <2>2, HeadTailSet
  <2> QED BY <2>1, <2>3, <2>4 DEF Answers, Carries
<1>7. CASE Goto(r, "touch")
  BY <1>7 DEF Goto, Carries, Inductive, TypeOK
<1>8. CASE RotateLoad(r) \/ (ReadCutShort(r) /\ pc[r] = "load")
  BY <1>1, <1>3, <1>8 DEF RotateLoad, ReadCutShort, Rotatable, Listings
<1>9. CASE CreateInsert(r) \/ RotateInsert(r)
  BY <1>1, <1>5, <1>9 DEF CreateInsert, RotateInsert, InsertRow
<1>10. CASE CreateCount(r) \/ RotateDeprecate(r) \/ InsertScope(r) \/ VerifyLookup(r)
  BY <1>1, <1>2, <1>4, <1>6, <1>7, <1>10
     DEF CreateCount, RotateDeprecate, InsertScope, VerifyLookup
<1>11. CASE \/ CreateFinish(r) \/ RotateFinish(r) \/ Revoke(r) \/ VerifyTouch(r) \/ List(r)
            \/ StatementFails(r) \/ (ReadCutShort(r) /\ pc[r] # "load")
  BY <1>1, <1>11
     DEF CreateFinish, RotateFinish, Revoke, VerifyTouch, List, StatementFails, ReadCutShort
<1> QED BY <1>8, <1>9, <1>10, <1>11 DEF Handler

(* The answer a handler returns with. *)
LEMMA AnswerIsTrue ==
    ASSUME Inductive, NEW r \in Requests, pc[r] \in Steps, NEW answer, Return(r, answer),
           NEW k, answer.kind \in Telling => k \in Issued /\ answer.keys = {k},
           UNCHANGED <<status, owner, scopes>>,
           answer.kind \in {"created", "rotated"} => owner[k] = job[r].user,
           answer.kind \in Telling =>
               \/ answer.scopes = scopes[k]
               \/ Faults /\ answer.kind = "valid" /\ answer.scopes \subseteq scopes[k]
    PROVE  Tells(r)' /\ Silent(r)'
<1>1. reply'[r] = answer /\ pc'[r] = IF answer.kind = "none" THEN "idle" ELSE "replied"
  BY DEF Return, Inductive, TypeOK
<1>2. CASE answer.kind \notin Telling
  BY <1>1, <1>2 DEF Tells, Silent
<1>3. CASE answer.kind \in Telling
  <2>1. job'[r] = job[r] /\ pc'[r] = "replied" /\ Issued' = Issued
    BY <1>1, <1>3 DEF Return, Telling, Issued, Inductive, TypeOK
  <2>2. \A q \in Requests : new'[q] = NoKey
    <3>1. \A q \in Requests : q # r => pc[q] \notin Steps
      BY OthersWait DEF Inductive
    <3>2. \A q \in Requests : q # r => new[q] = NoKey
      BY <3>1 DEF Inductive, Bookkeeping, Holding, Steps
    <3> QED BY <3>2 DEF Return, Inductive, TypeOK
  <2>3. k \in Issued /\ k # NoKey
    BY <1>3, KeysAssumption DEF Issued
  <2> QED BY <1>1, <1>3, <2>1, <2>2, <2>3 DEF Tells, Silent, Telling
<1> QED BY <1>2, <1>3

LEMMA TellsStep ==
    ASSUME Inductive, Touchable, Answers, NEW r \in Requests,
           Handler(r) \/ StatementFails(r) \/ ReadCutShort(r)
    PROVE  Tells(r)' /\ Silent(r)'
<1>0. pc[r] \in Steps
  BY HandlerShape
<1>1. ASSUME NEW step \in Steps, Goto(r, step) PROVE Tells(r)' /\ Silent(r)'
  <2>1. reply' = reply /\ job' = job /\ pc'[r] = step
    BY <1>1 DEF Goto, Inductive, TypeOK
  <2> QED BY <1>1, <2>1, TellsKept DEF Answers, Silent, Steps, Next
<1>2. ASSUME NEW answer, Return(r, answer), answer.kind \notin Telling
      PROVE  Tells(r)' /\ Silent(r)'
  <2>1. reply'[r] = answer /\ pc'[r] = IF answer.kind = "none" THEN "idle" ELSE "replied"
    BY <1>2 DEF Return, Inductive, TypeOK
  <2> QED BY <1>2, <2>1 DEF Tells, Silent
<1>3. ASSUME NEW kind, Return(r, Said(kind)), kind \notin Telling
      PROVE  Tells(r)' /\ Silent(r)'
  BY <1>2, <1>3 DEF Said
<1>4. ASSUME pc[r] = "scopes", todo[r] = <<>>, UNCHANGED table,
             NEW kind \in {"created", "rotated"}, Return(r, Told(kind, new[r], given[r], "active"))
      PROVE  Tells(r)' /\ Silent(r)'
  <2>1. new[r] \in Issued /\ owner[new[r]] = job[r].user /\ given[r] = scopes[new[r]]
    <3>1. ToSet(todo[r]) = {}
      BY <1>4 DEF ToSet
    <3> QED BY <1>4, <3>1 DEF Inductive, Bookkeeping, Holding, Answers, Carries
  <2> QED BY <1>0, <1>4, <2>1, AnswerIsTrue DEF Told, table
<1>5. ASSUME pc[r] = "touch", UNCHANGED <<status, owner, scopes>>,
             NEW S \in SUBSET scopes[job[r].key], S = scopes[job[r].key] \/ Faults,
             Return(r, Told("valid", job[r].key, S, seen[r]))
      PROVE  Tells(r)' /\ Silent(r)'
  <2>1. job[r].key \in Issued
    BY <1>5 DEF Inductive, Bookkeeping, Holding
  <2> QED BY <1>0, <1>5, <2>1, AnswerIsTrue DEF Told, Telling
<1>6. CASE CreateCount(r) \/ RotateLoad(r) \/ RotateDeprecate(r) \/ InsertScope(r) \/ VerifyLookup(r)
  BY <1>1, <1>3, <1>6 DEF CreateCount, RotateLoad, LoadOld, RotateDeprecate, InsertScope,
                          VerifyLookup, Steps, Telling
<1>7. CASE CreateInsert(r) \/ RotateInsert(r)
  BY <1>1, <1>3, <1>7 DEF CreateInsert, RotateInsert, InsertRow, Steps, Telling
<1>8. CASE CreateFinish(r) \/ RotateFinish(r)
  BY <1>4, <1>8 DEF CreateFinish, RotateFinish
<1>9. CASE Revoke(r)
  <2>1. \A k : Told("revoked", k, {}, "revoked").kind \notin Telling
    BY DEF Told, Telling
  <2> QED BY <1>2, <1>3, <1>9, <2>1 DEF Revoke, Telling
<1>10. \A K : Listed(K).kind \notin Telling
  BY DEF Listed, Said, Telling
<1>11. CASE VerifyTouch(r) \/ List(r)
  BY <1>2, <1>5, <1>10, <1>11 DEF VerifyTouch, List
<1>12. CASE StatementFails(r)
  BY <1>3, <1>5, <1>12 DEF StatementFails, table, Telling
<1>13. CASE ReadCutShort(r)
  BY <1>1, <1>2, <1>5, <1>10, <1>13 DEF ReadCutShort, LoadOld, Steps
<1> QED BY <1>6, <1>7, <1>8, <1>9, <1>11, <1>12, <1>13 DEF Handler

LEMMA AnswersStep ==
    ASSUME Inductive, Touchable, Answers, [Next]_vars PROVE Answers'
<1>0. Clean'
  BY CleanStep
<1>1. ASSUME NEW q \in Requests, pc'[q] \notin Steps PROVE Carries(q)'
  BY <1>1 DEF Carries, Steps
<1>2. ASSUME NEW q \in Requests, reply'[q].kind = "none" PROVE Tells(q)' /\ Silent(q)'
  BY <1>2 DEF Tells, Silent, Telling
<1>3. ASSUME NEW q \in Requests, reply'[q] = reply[q], job'[q] = job[q],
             pc'[q] \in {"idle", "waiting"} => pc[q] = pc'[q]
      PROVE  Tells(q)' /\ Silent(q)'
  BY <1>3, TellsKept DEF Answers, Silent
<1>4. CASE UNCHANGED vars \/ Tick
  <2>1. UNCHANGED <<table, pc, job, locals, reply>>
    BY <1>4 DEF vars, Tick
  <2> QED BY <1>0, <1>3, <2>1 DEF Answers, Carries, table, locals, Silent
<1>5. CASE Restart
  BY <1>0, <1>1, <1>2, <1>5 DEF Restart, Answers, Said, Steps
<1>6. CASE Acquire
  <2>1. \A q \in Requests : Carries(q)'
    BY <1>1, <1>6, GrantShape DEF Carries, Steps
  <2>2. ASSUME NEW q \in Requests PROVE Tells(q)' /\ Silent(q)'
    BY <1>3, <1>6, GrantShape, TellsKept DEF Answers, Silent, Steps
  <2> QED BY <1>0, <2>1, <2>2 DEF Answers
<1>7. ASSUME NEW r \in Requests, Client(r) PROVE Answers'
  <2>1. /\ pc[r] \notin Steps /\ pc'[r] \notin Steps
        /\ UNCHANGED <<table, locals>>
        /\ \A q \in Requests : q # r => pc'[q] = pc[q] /\ job'[q] = job[q] /\ reply'[q] = reply[q]
    BY <1>7 DEF Client, Arrive, Cancel, Deliver, LoseReply, Inductive, TypeOK, Steps
  <2>2. reply'[r].kind \notin Telling /\ Silent(r)'
    BY <1>7 DEF Client, Arrive, Cancel, Deliver, LoseReply, Answers, Silent, Said, Telling,
                Inductive, TypeOK
  <2>3. Tells(r)'
    BY <2>2 DEF Tells
  <2>4. \A q \in Requests : Carries(q)'
    BY <1>1, <2>1 DEF Answers, Carries, table, locals
  <2>5. ASSUME NEW q \in Requests, q # r PROVE Tells(q)' /\ Silent(q)'
    BY <1>3, <2>1, <2>5
  <2> QED BY <1>0, <2>2, <2>3, <2>4, <2>5 DEF Answers
<1>8. ASSUME NEW r \in Requests, Handler(r) \/ StatementFails(r) \/ ReadCutShort(r)
      PROVE  Answers'
  <2>1. ASSUME NEW q \in Requests, q # r PROVE Carries(q)' /\ Tells(q)' /\ Silent(q)'
    BY <1>1, <1>3, <1>8, <2>1, OthersStill
  <2>2. Carries(r)' /\ Tells(r)' /\ Silent(r)'
    BY <1>8, CarriesStep, TellsStep
  <2> QED BY <1>0, <2>1, <2>2 DEF Answers
<1> QED BY <1>4, <1>5, <1>6, <1>7, <1>8 DEF Next

LEMMA AnswersHold == Spec => []Answers
<1>1. Init => Answers
  BY DEF Init, Answers, Clean, Carries, Silent, Tells, Telling, Said
<1>2. Inductive /\ Touchable /\ Answers /\ [Next]_vars => Answers'
  BY AnswersStep
<1> QED BY <1>1, <1>2, InductiveHolds, TouchableHolds, PTL DEF Spec

(* As long as an answer that names a key is on its way, the scopes and the
   owner it gives are those in the table, whatever other requests do to the row
   meanwhile and whatever fails, and none of the scopes is a wildcard. *)
THEOREM AnswersTrue == Spec => []AnswersMatchTable
<1>1. Inductive /\ Answers => AnswersMatchTable
  BY AnswersSuffice DEF Inductive
<1> QED BY <1>1, InductiveHolds, AnswersHold, PTL

-----------------------------------------------------------------------------
(* No lineage is stranded when nothing fails *)

(* The lineage of a deprecated key has an active or a revoked key, or a handler
   is about to give it one. *)
Succeeded(k) ==
    \/ \E j \in Kin(k) : status[j] \in {"active", "revoked"}
    \/ \E r \in Requests : /\ pc[r] = "insert" /\ job[r].op = "rotate"
                           /\ lineage[job[r].key] = lineage[k]
AllSucceeded == \A k \in Issued : status[k] = "deprecated" => Succeeded(k)

(* A step that leaves status and lineages alone, and every rotation that is
   about to insert where it was. *)
LEMMA SucceededKept ==
    ASSUME AllSucceeded, UNCHANGED <<status, lineage>>,
           \A r \in Requests : pc[r] = "insert" /\ job[r].op = "rotate" =>
               pc'[r] = "insert" /\ job'[r] = job[r]
    PROVE  AllSucceeded'
BY DEF AllSucceeded, Succeeded, Kin, Issued

LEMMA SucceededHandler ==
    ASSUME ~Faults, Inductive, AllSucceeded, NEW r \in Requests, Handler(r)
    PROVE  AllSucceeded'
<1>0. \A q \in Requests : q # r => pc'[q] = pc[q] /\ job'[q] = job[q] /\ pc[q] # "insert"
  BY OthersStill DEF Steps
<1>1. CASE pc[r] # "insert" /\ UNCHANGED <<status, lineage>>
  BY <1>0, <1>1, SucceededKept
<1>2. CASE RotateDeprecate(r)
  <2>1. CASE GraceEnd \notin Representable
    BY <1>1, <1>2, <2>1 DEF RotateDeprecate, table
  <2>2. ASSUME GraceEnd \in Representable, NEW old, old = job[r].key PROVE AllSucceeded'
    <3>1. /\ status' = [status EXCEPT ![old] = "deprecated"] /\ lineage' = lineage
          /\ pc'[r] = "insert" /\ job' = job
      BY <1>2, <2>2 DEF RotateDeprecate, Goto, Inductive, TypeOK
    <3>2. old \in Issued /\ job[r].op = "rotate" /\ status[old] = "active"
      BY <1>2, <2>2 DEF RotateDeprecate, Inductive, Bookkeeping, Holding, OldKey
    <3>3. Issued' = Issued /\ \A k \in Issued : k # old => status'[k] = status[k]
      BY <3>1, <3>2 DEF Issued, Inductive, TypeOK
    <3>4. ASSUME NEW k \in Issued, lineage[k] = lineage[old] PROVE Succeeded(k)'
      BY <2>2, <3>1, <3>2, <3>4 DEF Succeeded
    <3>5. ASSUME NEW k \in Issued, lineage[k] # lineage[old], status[k] = "deprecated"
          PROVE  Succeeded(k)'
      <4>1. PICK j \in Kin(k) : status[j] \in {"active", "revoked"}
        BY <1>0, <1>2, <3>5 DEF AllSucceeded, Succeeded, RotateDeprecate
      <4>2. j # old
        BY <3>5, <4>1 DEF Kin
      <4> QED BY <3>1, <3>3, <4>1, <4>2 DEF Succeeded, Kin
    <3>6. \A k \in Issued : status'[k] = "deprecated" => k = old \/ status[k] = "deprecated"
      BY <3>3
    <3> QED BY <3>3, <3>4, <3>5, <3>6 DEF AllSucceeded
  <2> QED BY <2>1, <2>2
<1>3. ASSUME NEW n \in Keys, NEW l, InsertRow(r, n, l), pc[r] = "insert",
             job[r].op = "create" \/ l = lineage[job[r].key]
      PROVE  AllSucceeded'
  <2>1. CASE ~KnownUser(job[r].user)
    <3>1. job[r].op = "create"
      <4>1. ASSUME job[r].op = "rotate" PROVE FALSE
        BY <1>3, <2>1, <4>1 DEF KnownUser, Inductive, Bookkeeping, OldKey, RowsComplete
      <4> QED BY <1>3, <4>1 DEF Inductive, Bookkeeping, Holding
    <3> QED BY <1>0, <1>3, <2>1, <3>1, SucceededKept DEF InsertRow, table
  <2>2. CASE KnownUser(job[r].user)
    <3>1. /\ status[n] = "none" /\ job' = job
          /\ status' = [status EXCEPT ![n] = "active"] /\ lineage' = [lineage EXCEPT ![n] = l]
      BY <1>3, <2>2 DEF InsertRow, Goto
    <3>2. /\ n \notin Issued /\ Issued' = Issued \cup {n} /\ status'[n] = "active" /\ lineage'[n] = l
          /\ \A k \in Issued : status'[k] = status[k] /\ lineage'[k] = lineage[k]
      BY <3>1 DEF Issued, Inductive, TypeOK
    <3>3. ASSUME NEW k \in Issued, status[k] = "deprecated" PROVE Succeeded(k)'
      <4>1. CASE \E j \in Kin(k) : status[j] \in {"active", "revoked"}
        BY <3>2, <4>1 DEF Succeeded, Kin
      <4>2. CASE job[r].op = "rotate" /\ lineage[job[r].key] = lineage[k]
        BY <1>3, <3>2, <4>2 DEF Succeeded, Kin
      <4> QED BY <1>0, <3>3, <4>1, <4>2 DEF AllSucceeded, Succeeded
    <3> QED BY <3>2, <3>3 DEF AllSucceeded
  <2> QED BY <2>1, <2>2
<1>4. CASE Revoke(r)
  <2>1. CASE UNCHANGED table
    BY <1>1, <1>4, <2>1 DEF Revoke, table
  <2>2. ASSUME NEW old \in Issued, status' = [status EXCEPT ![old] = "revoked"],
               UNCHANGED <<lineage>>
        PROVE  AllSucceeded'
    <3>1. Issued' = Issued /\ \A k \in Issued : status'[k] = IF k = old THEN "revoked" ELSE status[k]
      BY <2>2 DEF Issued, Inductive, TypeOK
    <3>2. ASSUME NEW k \in Issued, status[k] = "deprecated" PROVE Succeeded(k)'
      <4>1. PICK j \in Kin(k) : status[j] \in {"active", "revoked"}
        BY <1>0, <1>4, <3>2 DEF AllSucceeded, Succeeded, Revoke
      <4> QED BY <2>2, <3>1, <4>1 DEF Succeeded, Kin
    <3> QED BY <3>1, <3>2 DEF AllSucceeded
  <2> QED BY <1>4, <2>1, <2>2 DEF Revoke, Revocable
<1>5. CASE \/ CreateCount(r) \/ CreateFinish(r) \/ RotateLoad(r) \/ RotateFinish(r)
           \/ InsertScope(r) \/ VerifyLookup(r) \/ VerifyTouch(r) \/ List(r)
  BY <1>1, <1>5 DEF CreateCount, CreateFinish, RotateLoad, RotateFinish, InsertScope,
                    VerifyLookup, VerifyTouch, List, LoadOld, table
<1> QED BY <1>2, <1>3, <1>4, <1>5 DEF Handler, CreateInsert, RotateInsert

LEMMA SucceededStep ==
    ASSUME ~Faults, Inductive, AllSucceeded, [Next]_vars PROVE AllSucceeded'
<1>1. CASE UNCHANGED vars \/ Tick
  BY <1>1, SucceededKept DEF vars, table, Tick
<1>2. CASE Acquire
  <2>1. UNCHANGED <<status, lineage>> /\ \A q \in Requests : pc[q] # "insert"
    BY <1>2, GrantShape DEF table, Steps
  <2> QED BY <2>1, SucceededKept
<1>3. ASSUME NEW r \in Requests, Client(r) PROVE AllSucceeded'
  <2>1. /\ UNCHANGED <<status, lineage>> /\ pc[r] # "insert"
        /\ \A q \in Requests : q # r => pc'[q] = pc[q] /\ job'[q] = job[q]
    BY <1>3 DEF Client, Arrive, Cancel, Deliver, LoseReply, table, Inductive, TypeOK
  <2> QED BY <2>1, SucceededKept
<1> QED BY <1>1, <1>2, <1>3, SucceededHandler DEF Next, Restart, StatementFails, ReadCutShort

(* When no statement fails and the process does not die, a rotation that took a
   lineage's active key away has given it another one by the time it releases
   the mutex: the lineage is without one only if somebody revoked it. *)
THEOREM NothingStranded == ASSUME ~Faults PROVE Spec => []NoStrandedLineage
<1>1. Init => AllSucceeded
  BY DEF Init, AllSucceeded, Issued
<1>2. Inductive /\ AllSucceeded /\ [Next]_vars => AllSucceeded'
  BY SucceededStep
<1>3. Inductive /\ AllSucceeded => NoStrandedLineage
  <2> SUFFICES ASSUME Inductive, AllSucceeded, lock = NoRequest,
                      NEW k \in Issued, status[k] = "deprecated"
               PROVE  \E j \in Kin(k) : status[j] \in {"active", "revoked"}
    BY DEF NoStrandedLineage
  <2>1. \A r \in Requests : pc[r] # "insert"
    BY RequestsAssumption DEF Inductive, Exclusive, Steps
  <2> QED BY <2>1 DEF AllSucceeded, Succeeded
<1> QED BY <1>1, <1>2, <1>3, InductiveHolds, PTL DEF Spec

-----------------------------------------------------------------------------
(* The key of a row is told *)

Distinct(s) == \A i, j \in 1..Len(s) : s[i] = s[j] => i = j

(* A listing names every scope of the key once. *)
LEMMA ListingComplete ==
    ASSUME NEW S, IsFiniteSet(S), NEW l \in SetToSeqs(S)
    PROVE  ToSet(l) = S /\ Distinct(l)
<1> DEFINE D == 1..Cardinality(S)
<1>1. Cardinality(S) \in Nat
  BY FS_CardinalityType
<1>2. l \in [D -> S] /\ \A i, j \in D : l[i] = l[j] => i = j
  BY DEF SetToSeqs
<1>3. Cardinality(D) = Cardinality(S)
  BY <1>1, FS_Interval
<1>4. l \in Injection(D, S)
  BY <1>2 DEF Injection, IsInjective
<1>5. l \in Surjection(D, S)
  BY <1>3, <1>4, FS_Injection
<1>6. ToSet(l) = S
  BY <1>2, <1>5 DEF ToSet, Surjection
<1>7. l \in Seq(S) /\ Len(l) = Cardinality(S)
  BY <1>1, <1>2
<1> QED BY <1>2, <1>6, <1>7 DEF Distinct

LEMMA DistinctTail ==
    ASSUME NEW S, NEW s \in Seq(S), s # <<>>, Distinct(s)
    PROVE  Distinct(Tail(s)) /\ Head(s) \notin ToSet(Tail(s))
<1>1. /\ Tail(s) \in Seq(S) /\ Len(Tail(s)) = Len(s) - 1 /\ Len(s) \in Nat \ {0}
      /\ \A i \in 1..Len(Tail(s)) : Tail(s)[i] = s[i + 1]
      /\ Head(s) = s[1]
  BY HeadTailProperties, EmptySeq
<1>2. ASSUME NEW i \in 1..Len(Tail(s)), NEW j \in 1..Len(Tail(s)), Tail(s)[i] = Tail(s)[j]
      PROVE  i = j
  <2>1. i + 1 \in 1..Len(s) /\ j + 1 \in 1..Len(s) /\ i \in Int /\ j \in Int
    BY <1>1
  <2>2. i + 1 = j + 1
    BY <1>1, <1>2, <2>1 DEF Distinct
  <2> QED BY <2>1, <2>2
<1>3. ASSUME Head(s) \in ToSet(Tail(s)) PROVE FALSE
  <2>1. PICK i \in 1..Len(Tail(s)) : Tail(s)[i] = Head(s)
    BY <1>1, <1>3 DEF ToSet
  <2>2. i + 1 \in 1..Len(s) /\ 1 \in 1..Len(s) /\ i + 1 # 1
    BY <1>1
  <2> QED BY <1>1, <2>1, <2>2 DEF Distinct
<1> QED BY <1>2, <1>3 DEF Distinct

(* No request names a scope twice. *)
NoRepeats == \A ask \in ScopeLists : Distinct(ask)

(* A handler is still to insert scopes its new row does not have, each once. *)
Inserts(r) ==
    /\ job[r].op = "create" => Distinct(job[r].ask)
    /\ pc[r] \in {"deprecate", "insert", "scopes"} => Distinct(todo[r])
    /\ pc[r] = "scopes" => ToSet(todo[r]) \cap scopes[new[r]] = {}
AllInsert == \A r \in Requests : Inserts(r)

(* Outside its handler only what a request asks for matters. *)
LEMMA WaitingInserts ==
    ASSUME NEW r \in Requests, pc'[r] \notin {"deprecate", "insert", "scopes"},
           job'[r].op = "create" => Distinct(job'[r].ask)
    PROVE  Inserts(r)'
BY DEF Inserts

LEMMA HandlerInserts ==
    ASSUME Inductive, NEW r \in Requests, Inserts(r),
           Handler(r) \/ StatementFails(r) \/ ReadCutShort(r)
    PROVE  Inserts(r)'
<1> DEFINE old == job[r].key
<1>0. job[r].op = "create" => Distinct(job[r].ask)
  BY DEF Inserts
<1>1. CASE \E answer : Return(r, answer)
  <2>1. pc'[r] \in {"idle", "replied"} /\ job'[r] \in {NoJob, job[r]}
    BY <1>1 DEF Return, Inductive, TypeOK
  <2> QED BY <1>0, <2>1, WaitingInserts DEF NoJob
<1>2. CASE CreateCount(r) /\ Goto(r, "insert") /\ todo' = [todo EXCEPT ![r] = job[r].ask]
  <2>1. pc'[r] = "insert" /\ job' = job /\ todo'[r] = job[r].ask /\ job[r].op = "create"
    BY <1>2 DEF CreateCount, Goto, Inductive, TypeOK, Bookkeeping, Holding
  <2> QED BY <1>0, <2>1 DEF Inserts
<1>3. ASSUME NEW S \in SUBSET scopes[old], NEW l \in SetToSeqs(S), LoadOld(r, l), old \in Issued
      PROVE  Inserts(r)'
  <2>1. IsFiniteSet(S)
    BY <1>3, ScopesAssumption, FS_Subset DEF Issued, Inductive, TypeOK
  <2>2. Distinct(l)
    BY <2>1, ListingComplete
  <2>3. pc'[r] = "deprecate" /\ job' = job /\ todo'[r] = l
    BY <1>3 DEF LoadOld, Goto, Inductive, TypeOK
  <2> QED BY <1>0, <2>2, <2>3 DEF Inserts
<1>4. CASE RotateDeprecate(r) /\ Goto(r, "insert") /\ UNCHANGED locals
  <2>1. pc'[r] = "insert" /\ job' = job /\ todo' = todo /\ pc[r] = "deprecate"
    BY <1>4 DEF RotateDeprecate, Goto, locals, Inductive, TypeOK
  <2> QED BY <1>0, <2>1 DEF Inserts
<1>5. ASSUME NEW k \in Keys, NEW l, InsertRow(r, k, l), pc[r] = "insert", KnownUser(job[r].user)
      PROVE  Inserts(r)'
  <2>1. /\ pc'[r] = "scopes" /\ new'[r] = k /\ UNCHANGED <<job, scopes, todo>>
        /\ status[k] = "none"
    BY <1>5 DEF InsertRow, Goto, Inductive, TypeOK
  <2>2. scopes[k] = {}
    BY <1>5, <2>1 DEF Inductive, RowsComplete
  <2> QED BY <1>0, <1>5, <2>1, <2>2 DEF Inserts
<1>6. CASE InsertScope(r) /\ Goto(r, "scopes") /\ Head(todo[r]) \notin scopes[new[r]]
  <2>1. /\ todo[r] \in Seq(Scopes) /\ todo[r] # <<>> /\ pc[r] = "scopes" /\ new[r] \in Keys
    BY <1>6 DEF InsertScope, Inductive, Bookkeeping, Holding, Issued, TypeOK
  <2>2. /\ scopes'[new[r]] = scopes[new[r]] \cup {Head(todo[r])} /\ new' = new
        /\ todo'[r] = Tail(todo[r]) /\ pc'[r] = "scopes" /\ job' = job
    BY <1>6, <2>1 DEF InsertScope, Goto, Inductive, TypeOK
  <2>3. Distinct(todo[r]) /\ ToSet(todo[r]) \cap scopes[new[r]] = {}
    BY <2>1 DEF Inserts
  <2>4. /\ Distinct(Tail(todo[r])) /\ Head(todo[r]) \notin ToSet(Tail(todo[r]))
        /\ ToSet(Tail(todo[r])) \subseteq ToSet(todo[r])
    BY <2>1, <2>3, DistinctTail, HeadTailSet
  <2> QED BY <1>0, <2>2, <2>3, <2>4 DEF Inserts
<1>7. CASE Goto(r, "touch")
  <2>1. pc'[r] = "touch" /\ job' = job
    BY <1>7 DEF Goto, Inductive, TypeOK
  <2> QED BY <1>0, <2>1, WaitingInserts
<1>8. CASE RotateLoad(r) \/ ReadCutShort(r)
  BY <1>1, <1>3, <1>8 DEF RotateLoad, ReadCutShort, Rotatable, Listings
<1>9. CASE CreateInsert(r) \/ RotateInsert(r)
  BY <1>1, <1>5, <1>9 DEF CreateInsert, RotateInsert, InsertRow
<1>10. CASE CreateCount(r) \/ RotateDeprecate(r) \/ InsertScope(r) \/ VerifyLookup(r)
  BY <1>1, <1>2, <1>4, <1>6, <1>7, <1>10
     DEF CreateCount, RotateDeprecate, InsertScope, VerifyLookup
<1>11. CASE \/ CreateFinish(r) \/ RotateFinish(r) \/ Revoke(r) \/ VerifyTouch(r) \/ List(r)
            \/ StatementFails(r)
  BY <1>1, <1>11 DEF CreateFinish, RotateFinish, Revoke, VerifyTouch, List, StatementFails
<1> QED BY <1>8, <1>9, <1>10, <1>11 DEF Handler

LEMMA InsertsStep ==
    ASSUME NoRepeats, Inductive, AllInsert, [Next]_vars PROVE AllInsert'
<1>1. CASE UNCHANGED vars \/ Tick
  BY <1>1 DEF vars, table, locals, Tick, AllInsert, Inserts
<1>2. CASE Restart
  BY <1>2, WaitingInserts DEF Restart, AllInsert, NoJob
<1>3. CASE Acquire
  <2>1. job' = job /\ \A q \in Requests : pc'[q] \notin {"deprecate", "insert", "scopes"}
    BY <1>3, GrantShape DEF Steps
  <2> QED BY <2>1, WaitingInserts DEF AllInsert, Inserts
<1>4. ASSUME NEW r \in Requests, Client(r) PROVE AllInsert'
  <2>1. /\ UNCHANGED <<scopes, todo, new>> /\ pc'[r] \in {"idle", "replied", "waiting"}
        /\ \A q \in Requests : q # r => pc'[q] = pc[q] /\ job'[q] = job[q]
    BY <1>4 DEF Client, Arrive, Cancel, Deliver, LoseReply, table, locals, Inductive, TypeOK
  <2>2. job'[r].op = "create" => Distinct(job'[r].ask)
    <3>1. ASSUME NEW j \in Asks, j.op = "create" PROVE Distinct(j.ask)
      BY <3>1 DEF Asks, NoRepeats
    <3> QED BY <1>4, <3>1 DEF Client, Arrive, Cancel, Deliver, LoseReply, NoJob, Inductive, TypeOK
  <2> QED BY <2>1, <2>2, WaitingInserts DEF AllInsert, Inserts
<1>5. ASSUME NEW r \in Requests, Handler(r) \/ StatementFails(r) \/ ReadCutShort(r)
      PROVE  AllInsert'
  <2>1. \A q \in Requests : q # r => pc'[q] = pc[q] /\ job'[q] = job[q] /\ pc[q] \notin Steps
    BY <1>5, OthersStill
  <2>2. ASSUME NEW q \in Requests, q # r PROVE Inserts(q)'
    BY <2>1, <2>2, WaitingInserts DEF AllInsert, Inserts, Steps
  <2> QED BY <1>5, <2>2, HandlerInserts DEF AllInsert
<1> QED BY <1>1, <1>2, <1>3, <1>4, <1>5 DEF Next

(* A row goes out of its handler's hands only with an answer that names it. *)
LEMMA TellingStep ==
    ASSUME ~Faults, Inductive, AllInsert, [Next]_vars, NEW r \in Requests,
           new[r] # NoKey, new'[r] = NoKey
    PROVE  reply'[r].keys = {new[r]}
<1>1. pc[r] = "scopes"
  BY DEF Inductive, Bookkeeping, Holding
<1>2. ASSUME NEW q \in Requests, Handler(q) PROVE q = r
  BY <1>1, <1>2, OthersStill DEF Steps
<1>3. Handler(r)
  <2>1. ~(UNCHANGED vars \/ Tick \/ Acquire \/ \E q \in Requests : Client(q))
    BY DEF vars, locals, Tick, Acquire, Client, Arrive, Cancel, Deliver, LoseReply
  <2> QED BY <1>2, <2>1 DEF Next, Restart, StatementFails, ReadCutShort
<1>4. CreateFinish(r) \/ RotateFinish(r) \/ InsertScope(r)
  BY <1>1, <1>3 DEF Handler, CreateCount, CreateInsert, RotateLoad, RotateDeprecate, RotateInsert,
                    Revoke, VerifyLookup, VerifyTouch, List
<1>5. ~InsertScope(r)
  <2>1. ASSUME InsertScope(r) PROVE FALSE
    <3>1. todo[r] \in Seq(Scopes) /\ todo[r] # <<>>
      BY <2>1 DEF InsertScope, Inductive, TypeOK
    <3>2. Head(todo[r]) \notin scopes[new[r]]
      BY <1>1, <3>1, HeadTailSet DEF AllInsert, Inserts
    <3> QED BY <2>1, <3>2 DEF InsertScope
  <2> QED BY <2>1
<1> QED BY <1>4, <1>5 DEF CreateFinish, RotateFinish, Return, Told, Inductive, TypeOK

(* As long as no statement fails and no request names a scope twice, a handler
   that has inserted a row answers with the key of that row: the raw key is
   nowhere else, and no row is left behind that nobody can use. *)
THEOREM KeysTold == ASSUME ~Faults, NoRepeats PROVE Spec => EveryKeyIsTold
<1>1. Init => AllInsert
  BY DEF Init, AllInsert, Inserts, NoJob
<1>2. Inductive /\ AllInsert /\ [Next]_vars => AllInsert'
  BY InsertsStep
<1>3. Inductive /\ AllInsert /\ [Next]_vars
        => [\A r \in Requests : new[r] # NoKey /\ new'[r] = NoKey =>
                reply'[r].keys = {new[r]}]_vars
  BY TellingStep
<1> QED BY <1>1, <1>2, <1>3, InductiveHolds, PTL DEF Spec, EveryKeyIsTold

-----------------------------------------------------------------------------
(* What EveryRequestEnds rests on: the mutex comes back, nobody waiting is
   forgotten, and no handler has endless work *)

(* Only a request inside its handler holds the guard. *)
Held == lock # NoRequest => pc[lock] \in Steps

(* Who waits stands in the queue. *)
Enqueued == \A r \in Requests : pc[r] = "waiting" => \E i \in 1..Len(queue) : queue[i] = r

LEMMA HeldStep ==
    ASSUME Inductive, Queued, Held, [Next]_vars PROVE Held'
<1>1. CASE UNCHANGED vars \/ Tick
  BY <1>1 DEF vars, Tick, Held
<1>2. CASE Restart
  BY <1>2 DEF Restart, Held
<1>3. CASE Acquire
  <2>1. queue[1] \in Requests
    BY <1>3 DEF Acquire, Grantable, Inductive, TypeOK
  <2>2. job[queue[1]].op \in {"create", "rotate", "revoke", "verify", "list"}
    BY <2>1 DEF Inductive, TypeOK, Job
  <2>3. FirstStep[job[queue[1]].op] \in Steps
    BY <2>2 DEF FirstStep, Steps
  <2> QED BY <1>3, <2>1, <2>3 DEF Acquire, NextInLine, Held, Inductive, TypeOK
<1>4. ASSUME NEW r \in Requests, Client(r) PROVE Held'
  <2>1. /\ lock' = lock /\ pc[r] \notin Steps
        /\ \A q \in Requests : q # r => pc'[q] = pc[q]
    BY <1>4 DEF Client, Arrive, Cancel, Deliver, LoseReply, Inductive, TypeOK, Steps
  <2> QED BY <2>1 DEF Held, Inductive, TypeOK
<1>5. ASSUME NEW r \in Requests, Handler(r) \/ StatementFails(r) \/ ReadCutShort(r) PROVE Held'
  <2>1. pc[r] \in Steps /\ lock = r
    BY <1>5, HandlerShape, OthersWait DEF Inductive
  <2>2. CASE \E answer : Return(r, answer)
    BY <2>2 DEF Return, Held
  <2>3. ASSUME NEW step, Goto(r, step), step \in Steps PROVE Held'
    BY <2>1, <2>3 DEF Goto, Held, Inductive, TypeOK
  <2>4. \A k, l : InsertRow(r, k, l) => Held'
    BY <2>2, <2>3 DEF InsertRow, Steps
  <2> QED
    BY <1>5, <2>2, <2>3, <2>4
       DEF Handler, CreateCount, CreateInsert, CreateFinish, RotateLoad, RotateDeprecate,
           RotateInsert, RotateFinish, InsertScope, Revoke, VerifyLookup, VerifyTouch, List,
           StatementFails, ReadCutShort, LoadOld, Steps
<1> QED BY <1>1, <1>2, <1>3, <1>4, <1>5 DEF Next

(* Whoever leaves the queue no longer waits; the others stay in it. *)
LEMMA RemovalEnqueues ==
    ASSUME Inductive, Enqueued, NEW i \in 1..Len(queue), queue' = RemoveAt(queue, i),
           pc'[queue[i]] # "waiting", \A q \in Requests : q # queue[i] => pc'[q] = pc[q]
    PROVE  Enqueued'
<1> SUFFICES ASSUME NEW r \in Requests, pc'[r] = "waiting"
             PROVE  \E m \in 1..Len(queue') : queue'[m] = r
  BY DEF Enqueued
<1>1. queue \in Seq(Requests) /\ Len(queue) \in Nat
  BY DEF Inductive, TypeOK
<1>2. PICK n \in 1..Len(queue) : queue[n] = r /\ n # i
  BY DEF Enqueued
<1>3. /\ Len(queue') = Len(queue) - 1
      /\ \A m \in 1..Len(queue) - 1 : queue'[m] = IF m < i THEN queue[m] ELSE queue[m + 1]
  <2>1. /\ Len(RemoveAt(queue, i)) = Len(queue) - 1
        /\ \A m \in 1..Len(queue) - 1 :
               RemoveAt(queue, i)[m] = IF m < i THEN queue[m] ELSE queue[m + 1]
    BY <1>1, RemoveAtElements
  <2> QED BY <2>1, Zenon
<1>4. CASE n < i
  <2>1. n \in 1..Len(queue) - 1
    BY <1>1, <1>4
  <2> QED BY <1>2, <1>3, <1>4, <2>1
<1>5. CASE ~(n < i)
  <2>1. n - 1 \in 1..Len(queue) - 1 /\ ~(n - 1 < i) /\ (n - 1) + 1 = n
    BY <1>1, <1>2, <1>5
  <2> QED BY <1>2, <1>3, <2>1
<1> QED BY <1>4, <1>5

LEMMA EnqueuedStep ==
    ASSUME Inductive, Queued, Enqueued, [Next]_vars PROVE Enqueued'
<1>1. CASE UNCHANGED vars \/ Tick
  BY <1>1 DEF vars, Tick, Enqueued
<1>2. CASE Restart
  BY <1>2 DEF Restart, Enqueued
<1>3. CASE Acquire
  <2>1. 1 \in 1..Len(queue) /\ queue[1] \in Requests
    BY <1>3 DEF Acquire, Grantable, Inductive, TypeOK
  <2>2. job[queue[1]].op \in {"create", "rotate", "revoke", "verify", "list"}
    BY <2>1 DEF Inductive, TypeOK, Job
  <2>3. FirstStep[job[queue[1]].op] # "waiting"
    BY <2>2 DEF FirstStep
  <2> QED BY <1>3, <2>1, <2>3, RemovalEnqueues DEF Acquire, NextInLine, Inductive, TypeOK
<1>4. ASSUME NEW r \in Requests, NEW j \in Asks, Arrive(r, j) PROVE Enqueued'
  <2>1. \A q \in Requests : q # r => pc'[q] = pc[q]
    BY <1>4 DEF Arrive, Inductive, TypeOK
  <2>2. CASE queue' = queue /\ pc'[r] # "waiting"
    BY <2>1, <2>2 DEF Enqueued
  <2>3. CASE queue' = Append(queue, r)
    <3>1. /\ Len(queue') = Len(queue) + 1 /\ Len(queue) \in Nat
          /\ queue'[Len(queue) + 1] = r /\ \A i \in 1..Len(queue) : queue'[i] = queue[i]
      BY <2>3 DEF Inductive, TypeOK
    <3>2. Len(queue) + 1 \in 1..Len(queue') /\ \A i \in 1..Len(queue) : i \in 1..Len(queue')
      BY <3>1
    <3> QED BY <2>1, <3>1, <3>2 DEF Enqueued
  <2> QED BY <1>4, <2>2, <2>3 DEF Arrive, Inductive, TypeOK
<1>5. ASSUME NEW r \in Requests, Cancel(r) PROVE Enqueued'
  <2>1. PICK i \in 1..Len(queue) : queue[i] = r /\ queue' = RemoveAt(queue, i)
    BY <1>5 DEF Cancel, Inductive, TypeOK
  <2>2. pc'[r] # "waiting" /\ \A q \in Requests : q # r => pc'[q] = pc[q]
    BY <1>5 DEF Cancel, Inductive, TypeOK
  <2> QED BY <2>1, <2>2, RemovalEnqueues
<1>6. ASSUME NEW r \in Requests, queue' = queue, pc'[r] # "waiting",
             \A q \in Requests : q # r => pc'[q] = pc[q]
      PROVE  Enqueued'
  BY <1>6 DEF Enqueued
<1>7. ASSUME NEW r \in Requests, Deliver(r) \/ LoseReply(r) PROVE Enqueued'
  BY <1>6, <1>7 DEF Deliver, LoseReply, Inductive, TypeOK
<1>8. ASSUME NEW r \in Requests, Handler(r) \/ StatementFails(r) \/ ReadCutShort(r)
      PROVE  Enqueued'
  <2>1. \A q \in Requests : q # r => pc'[q] = pc[q]
    BY <1>8, OthersStill
  <2>2. queue' = queue
    BY <1>8, HandlerShape DEF Goto, Return
  <2>3. pc'[r] # "waiting"
    <3>1. CASE \E answer : Return(r, answer)
      BY <3>1 DEF Return, Inductive, TypeOK
    <3>2. CASE \E step : Goto(r, step)
      BY <1>8, <3>1, <3>2
         DEF Handler, CreateCount, CreateInsert, CreateFinish, RotateLoad, RotateDeprecate,
             RotateInsert, RotateFinish, InsertRow, InsertScope, Revoke, VerifyLookup, VerifyTouch,
             List, StatementFails, ReadCutShort, LoadOld, Goto, Inductive, TypeOK
    <3> QED BY <1>8, <3>1, <3>2, HandlerShape
  <2> QED BY <1>6, <2>1, <2>2, <2>3
<1> QED BY <1>1, <1>2, <1>3, <1>4, <1>5, <1>7, <1>8 DEF Next, Client

(* The guard of the mutex is never left behind, whether a handler returns, fails,
   panics or is dropped: while somebody holds it he is inside his handler.  And
   each request that waits stands in the queue, once, behind others that wait. *)
THEOREM MutexComesBack == Spec => [](Held /\ Queued /\ Enqueued)
<1>1. Init => Held /\ Enqueued
  BY DEF Init, Held, Enqueued
<1>2. Inductive /\ Queued /\ Held /\ Enqueued /\ [Next]_vars => Held' /\ Enqueued'
  BY HeldStep, EnqueuedStep
<1> QED BY <1>1, <1>2, InductiveHolds, QueuedHolds, PTL DEF Spec

(* The statements a handler has before it, at most: those of its steps, and one
   for each scope it may have to copy. *)
After == [count |-> 3, insert |-> 2, scopes |-> 1, load |-> 4, deprecate |-> 3,
          update |-> 1, lookup |-> 2, touch |-> 1, select |-> 1]
Copies(r) ==
    CASE pc[r] = "count" -> Len(job[r].ask)
      [] pc[r] = "load" -> Cardinality(Scopes)
      [] OTHER -> Len(todo[r])
Left(r) == IF pc[r] \in Steps THEN After[pc[r]] + Copies(r) ELSE 0

LEMMA LeftType ==
    ASSUME Inductive, NEW r \in Requests
    PROVE  Left(r) \in Nat /\ (pc[r] \in Steps => Left(r) > 0)
<1>1. Len(job[r].ask) \in Nat /\ Len(todo[r]) \in Nat
  BY DEF Inductive, TypeOK, Job
<1>2. Cardinality(Scopes) \in Nat
  BY ScopesAssumption, FS_CardinalityType
<1>3. Copies(r) \in Nat
  BY <1>1, <1>2 DEF Copies
<1>4. pc[r] \in Steps => After[pc[r]] \in Nat \ {0}
  BY DEF After, Steps
<1> QED BY <1>3, <1>4 DEF Left

LEMMA LeftShrinks ==
    ASSUME Inductive, [Next]_vars, NEW r \in Requests,
           Handler(r) \/ StatementFails(r) \/ ReadCutShort(r)
    PROVE  Left(r)' < Left(r)
<1>0. pc[r] \in Steps /\ Left(r) \in Nat /\ Left(r) > 0
  BY HandlerShape, LeftType
<1>1. CASE \E answer : Return(r, answer)
  <2>1. pc'[r] \notin Steps
    BY <1>1 DEF Return, Steps, Inductive, TypeOK
  <2>2. Left(r)' = 0
    BY <2>1 DEF Left
  <2> QED BY <1>0, <2>2
<1>2. CASE CreateCount(r) /\ Goto(r, "insert") /\ todo' = [todo EXCEPT ![r] = job[r].ask]
  <2>1. pc[r] = "count" /\ pc'[r] = "insert" /\ todo'[r] = job[r].ask
    BY <1>2 DEF CreateCount, Goto, Inductive, TypeOK
  <2>2. Left(r) = 3 + Len(job[r].ask) /\ Left(r)' = 2 + Len(job[r].ask)
    BY <2>1 DEF Left, After, Copies, Steps
  <2> QED BY <2>2 DEF Inductive, TypeOK, Job
<1>3. ASSUME NEW S \in SUBSET scopes[job[r].key], NEW l \in SetToSeqs(S), LoadOld(r, l),
             job[r].key \in Issued, pc[r] = "load"
      PROVE  Left(r)' < Left(r)
  <2>1. S \subseteq Scopes /\ IsFiniteSet(S)
    BY <1>3, ScopesAssumption, FS_Subset DEF Issued, Inductive, TypeOK
  <2>2. Cardinality(S) <= Cardinality(Scopes) /\ Cardinality(S) \in Nat /\ Cardinality(Scopes) \in Nat
    BY <2>1, ScopesAssumption, FS_Subset, FS_CardinalityType
  <2>3. l \in [1..Cardinality(S) -> S]
    BY DEF SetToSeqs
  <2>4. Len(l) = Cardinality(S)
    BY <2>2, <2>3
  <2>5. pc'[r] = "deprecate" /\ todo'[r] = l
    BY <1>3 DEF LoadOld, Goto, Inductive, TypeOK
  <2>6. Left(r) = 4 + Cardinality(Scopes) /\ Left(r)' = 3 + Cardinality(S)
    BY <1>3, <2>4, <2>5 DEF Left, After, Copies, Steps
  <2> QED BY <2>2, <2>6
<1>4. ASSUME todo'[r] = todo[r], pc[r] \in {"deprecate", "insert", "lookup"},
             pc'[r] = IF pc[r] = "deprecate" THEN "insert"
                      ELSE IF pc[r] = "insert" THEN "scopes" ELSE "touch"
      PROVE  Left(r)' < Left(r)
  <2>1. Len(todo[r]) \in Nat
    BY DEF Inductive, TypeOK
  <2>2. CASE pc[r] = "deprecate"
    <3>1. Left(r) = 3 + Len(todo[r]) /\ Left(r)' = 2 + Len(todo[r])
      BY <1>4, <2>2 DEF Left, After, Copies, Steps
    <3> QED BY <2>1, <3>1
  <2>3. CASE pc[r] # "deprecate"
    <3>1. Left(r) = 2 + Len(todo[r]) /\ Left(r)' = 1 + Len(todo[r])
      BY <1>4, <2>3 DEF Left, After, Copies, Steps
    <3> QED BY <2>1, <3>1
  <2> QED BY <2>2, <2>3
<1>5. CASE InsertScope(r) /\ Goto(r, "scopes") /\ todo' = [todo EXCEPT ![r] = Tail(@)]
  <2>1. /\ pc[r] = "scopes" /\ pc'[r] = "scopes" /\ todo'[r] = Tail(todo[r])
        /\ todo[r] # <<>> /\ todo[r] \in Seq(Scopes)
    BY <1>5 DEF InsertScope, Goto, Inductive, TypeOK
  <2>2. Len(Tail(todo[r])) = Len(todo[r]) - 1 /\ Len(todo[r]) \in Nat
    BY <2>1, HeadTailProperties
  <2>3. Left(r) = 1 + Len(todo[r]) /\ Left(r)' = 1 + Len(Tail(todo[r]))
    BY <2>1 DEF Left, After, Copies, Steps
  <2> QED BY <2>2, <2>3
<1>6. CASE RotateDeprecate(r) /\ Goto(r, "insert") /\ UNCHANGED locals
  BY <1>4, <1>6 DEF RotateDeprecate, Goto, locals, Inductive, TypeOK
<1>7. ASSUME NEW k, NEW l, InsertRow(r, k, l), pc[r] = "insert" PROVE Left(r)' < Left(r)
  BY <1>1, <1>4, <1>7 DEF InsertRow, Goto, Inductive, TypeOK
<1>8. CASE VerifyLookup(r)
  BY <1>1, <1>4, <1>8 DEF VerifyLookup, Goto, Inductive, TypeOK
<1>9. CASE RotateLoad(r) \/ ReadCutShort(r)
  BY <1>1, <1>3, <1>9 DEF RotateLoad, ReadCutShort, Rotatable, Listings
<1>10. CASE CreateInsert(r) \/ RotateInsert(r)
  BY <1>7, <1>10 DEF CreateInsert, RotateInsert
<1>11. CASE CreateCount(r) \/ RotateDeprecate(r) \/ InsertScope(r)
  BY <1>1, <1>2, <1>5, <1>6, <1>11 DEF CreateCount, RotateDeprecate, InsertScope
<1>12. CASE \/ CreateFinish(r) \/ RotateFinish(r) \/ Revoke(r) \/ VerifyTouch(r) \/ List(r)
            \/ StatementFails(r)
  BY <1>1, <1>12 DEF CreateFinish, RotateFinish, Revoke, VerifyTouch, List, StatementFails
<1> QED BY <1>8, <1>9, <1>10, <1>11, <1>12 DEF Handler

(* No handler keeps the mutex for ever: each of its steps leaves it less to do, and
   what it has to do is bounded when it gets the guard. *)
THEOREM HandlersEnd ==
    Spec => [][\A r \in Requests : Handler(r) \/ StatementFails(r) \/ ReadCutShort(r) =>
                   Left(r) \in Nat /\ Left(r)' < Left(r)]_vars
<1>1. Inductive /\ [Next]_vars
        => [\A r \in Requests : Handler(r) \/ StatementFails(r) \/ ReadCutShort(r) =>
                Left(r) \in Nat /\ Left(r)' < Left(r)]_vars
  BY LeftType, LeftShrinks
<1> QED BY <1>1, InductiveHolds, PTL DEF Spec

=============================================================================
