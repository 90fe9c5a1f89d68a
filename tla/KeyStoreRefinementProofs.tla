---------------------- MODULE KeyStoreRefinementProofs ----------------------
(***************************************************************************)
(* Proof that KeyStore implements KeyRegistry: every statement of a        *)
(* handler is a stutter of the registry, except the one that ends it.      *)
(***************************************************************************)
EXTENDS KeyStoreRefinement, KeyStoreProofs

(* What the registry's variables stand for. *)
StatusBar == [k \in Keys |-> IF Rotating(k) THEN "active" ELSE Shown(status, "none")[k]]
OwnerBar == Shown(owner, NoUser)
LineageBar == Shown(lineage, NoKey)
ExpiresBar == [k \in Keys |-> IF Rotating(k) THEN Null ELSE expires[k]]
ScopesBar == Shown(scopes, {})

-----------------------------------------------------------------------------
(* What a handler knows, beyond Inductive and Answers *)

(* Rows carry an expiry only once they are deprecated. *)
Blank ==
    \A k \in Keys : /\ status[k] = "none" => lineage[k] = NoKey
                    /\ status[k] \in {"none", "active"} => expires[k] = Null

(* A creation has room, and is given at least one scope. *)
Creating(r) ==
    job[r].op = "create" =>
        /\ pc[r] \in {"waiting", "count"} => job[r].ask # <<>>
        /\ pc[r] \in {"insert", "scopes"} => given[r] # {}
        /\ pc[r] = "insert" => Cardinality(Counted(job[r].user)) < MaxKeys
        /\ pc[r] = "scopes" => Cardinality(Counted(job[r].user) \ {new[r]}) < MaxKeys

(* A rotation has given the old key the end of its grace, and copies each of
   its scopes once: all of them, unless reading them failed. *)
Renewing(r) ==
    job[r].op = "rotate" =>
        LET old == job[r].key IN
        /\ pc[r] \in {"insert", "scopes"} =>
               status[old] = "deprecated" /\ \E t \in 0..now : expires[old] = Registry!End(t)
        /\ pc[r] \in {"deprecate", "insert", "scopes"} =>
               /\ Distinct(todo[r])
               /\ given[r] \subseteq scopes[old] /\ (given[r] = scopes[old] \/ Faults)
        /\ pc[r] = "scopes" => ToSet(todo[r]) \cap scopes[new[r]] = {}

(* The row a handler has inserted is still as it inserted it. *)
Fresh == \A r \in Requests : pc[r] = "scopes" => status[new[r]] = "active"

Detail == Blank /\ Fresh /\ \A r \in Requests : Creating(r) /\ Renewing(r)

LEMMA BlankStep ==
    ASSUME Inductive, Blank, [Next]_vars PROVE Blank'
<1> SUFFICES ASSUME NEW k \in Keys
             PROVE  /\ status'[k] = "none" => lineage'[k] = NoKey
                    /\ status'[k] \in {"none", "active"} => expires'[k] = Null
  BY DEF Blank
<1>0. /\ status[k] = "none" => lineage[k] = NoKey
      /\ status[k] \in {"none", "active"} => expires[k] = Null
  BY DEF Blank
<1>1. CASE UNCHANGED <<status, lineage, expires>>
  BY <1>0, <1>1
<1>2. ASSUME NEW r \in Requests, NEW n \in Keys, NEW l, InsertRow(r, n, l)
      PROVE  /\ status'[k] = "none" => lineage'[k] = NoKey
             /\ status'[k] \in {"none", "active"} => expires'[k] = Null
  BY <1>0, <1>2 DEF InsertRow, table, Inductive, TypeOK
<1>3. ASSUME NEW r \in Requests, NEW old, NEW st \in {"deprecated", "revoked"},
             status' = [status EXCEPT ![old] = st], lineage' = lineage,
             expires' = expires \/ expires' = [expires EXCEPT ![old] = StoredExpiry]
      PROVE  /\ status'[k] = "none" => lineage'[k] = NoKey
             /\ status'[k] \in {"none", "active"} => expires'[k] = Null
  BY <1>0, <1>3 DEF Inductive, TypeOK
<1>4. ASSUME NEW r \in Requests,
             \/ CreateCount(r) \/ CreateFinish(r) \/ RotateLoad(r) \/ RotateFinish(r)
             \/ InsertScope(r) \/ VerifyLookup(r) \/ VerifyTouch(r) \/ List(r)
             \/ StatementFails(r) \/ ReadCutShort(r) \/ Client(r)
      PROVE  UNCHANGED <<status, lineage, expires>>
  BY <1>4 DEF CreateCount, CreateFinish, RotateLoad, RotateFinish, InsertScope, VerifyLookup,
              VerifyTouch, List, StatementFails, ReadCutShort, LoadOld, Client, Arrive, Cancel,
              Deliver, LoseReply, table
<1>5. ASSUME NEW r \in Requests, RotateDeprecate(r) \/ Revoke(r)
      PROVE  /\ status'[k] = "none" => lineage'[k] = NoKey
             /\ status'[k] \in {"none", "active"} => expires'[k] = Null
  BY <1>1, <1>3, <1>5 DEF RotateDeprecate, Revoke, table
<1>6. CASE Tick \/ Restart \/ Acquire \/ UNCHANGED vars
  BY <1>1, <1>6 DEF Tick, Restart, Acquire, vars, table
<1> QED BY <1>1, <1>2, <1>4, <1>5, <1>6 DEF Next, Handler, CreateInsert, RotateInsert

LEMMA FreshStep ==
    ASSUME Inductive, Fresh, [Next]_vars PROVE Fresh'
<1>1. CASE UNCHANGED vars \/ Tick
  BY <1>1 DEF vars, table, locals, Tick, Fresh
<1>2. CASE Restart
  BY <1>2 DEF Restart, Fresh
<1>3. CASE Acquire
  BY <1>3, GrantShape DEF Fresh, Steps
<1>4. ASSUME NEW r \in Requests, Client(r) PROVE Fresh'
  BY <1>4 DEF Client, Arrive, Cancel, Deliver, LoseReply, Fresh, table, locals, Inductive, TypeOK
<1>5. ASSUME NEW r \in Requests, Handler(r) \/ StatementFails(r) \/ ReadCutShort(r) PROVE Fresh'
  <2>1. \A q \in Requests : q # r => pc'[q] # "scopes"
    BY <1>5, OthersStill DEF Steps
  <2>2. CASE (\E answer : Return(r, answer))
    BY <2>1, <2>2 DEF Return, Fresh, Inductive, TypeOK
  <2>3. ASSUME NEW step, Goto(r, step), step # "scopes" PROVE Fresh'
    BY <2>1, <2>3 DEF Goto, Fresh, Inductive, TypeOK
  <2>4. ASSUME NEW n \in Keys, NEW l, InsertRow(r, n, l) PROVE Fresh'
    BY <2>1, <2>2, <2>4 DEF InsertRow, Goto, Fresh, Inductive, TypeOK
  <2>5. CASE InsertScope(r)
    BY <2>1, <2>2, <2>5 DEF InsertScope, Goto, Fresh, Inductive, TypeOK
  <2> QED
    BY <1>5, <2>2, <2>3, <2>4, <2>5
       DEF Handler, CreateCount, CreateInsert, CreateFinish, RotateLoad, RotateDeprecate,
           RotateInsert, RotateFinish, Revoke, VerifyLookup, VerifyTouch, List,
           StatementFails, ReadCutShort, LoadOld
<1> QED BY <1>1, <1>2, <1>3, <1>4, <1>5 DEF Next

(* A handler that returned, or never started, knows nothing. *)
LEMMA DetailIdle ==
    ASSUME NEW r \in Requests, pc'[r] \notin {"waiting", "count", "deprecate", "insert", "scopes"}
    PROVE  Creating(r)' /\ Renewing(r)'
BY DEF Creating, Renewing

LEMMA CreatingStep ==
    ASSUME Inductive, Answers, Detail, NEW r \in Requests,
           CreateCount(r) \/ CreateInsert(r) \/ (InsertScope(r) /\ job[r].op = "create")
    PROVE  Creating(r)' /\ Renewing(r)'
<1> DEFINE u == job[r].user
<1>1. CASE \E answer : Return(r, answer)
  BY <1>1, DetailIdle DEF Return, Inductive, TypeOK
<1>2. CASE CreateCount(r) /\ Goto(r, "insert") /\ ~LimitReached(u)
           /\ given' = [given EXCEPT ![r] = ToSet(job[r].ask)]
  <2>1. /\ pc'[r] = "insert" /\ job' = job /\ given'[r] = ToSet(job[r].ask) /\ status' = status
        /\ owner' = owner /\ job[r].op = "create"
    BY <1>2 DEF CreateCount, Goto, table, Inductive, TypeOK, Bookkeeping, Holding
  <2>2. job[r].ask # <<>> /\ job[r].ask \in Seq(Scopes)
    BY <1>2, <2>1 DEF CreateCount, Detail, Creating, Inductive, TypeOK, Job
  <2>3. job[r].ask[1] \in ToSet(job[r].ask)
    BY <2>2 DEF ToSet
  <2>4. Cardinality(Counted(u)) < MaxKeys
    BY <1>2, ActiveFinite, NumbersAssumption DEF LimitReached
  <2>5. Cardinality(Counted(u)') < MaxKeys
    BY <2>1, <2>4 DEF Counted, Issued
  <2> QED BY <2>1, <2>3, <2>5 DEF Creating, Renewing
<1>3. ASSUME NEW k \in Keys, InsertRow(r, k, k), Goto(r, "scopes"), pc[r] = "insert",
             job[r].op = "create", KnownUser(u)
      PROVE  Creating(r)' /\ Renewing(r)'
  <2>1. /\ pc'[r] = "scopes" /\ job' = job /\ given' = given /\ new'[r] = k
        /\ status[k] = "none" /\ status' = [status EXCEPT ![k] = "active"]
        /\ owner' = [owner EXCEPT ![k] = u]
    BY <1>3 DEF InsertRow, Goto, Inductive, TypeOK
  <2>2. Counted(u)' \ {k} = Counted(u)
    BY <2>1 DEF Counted, Issued, Inductive, TypeOK
  <2>3. given[r] # {} /\ Cardinality(Counted(u)) < MaxKeys
    BY <1>3 DEF Detail, Creating
  <2> QED BY <1>3, <2>1, <2>2, <2>3 DEF Creating, Renewing
<1>4. CASE InsertScope(r) /\ Goto(r, "scopes") /\ job[r].op = "create"
           /\ UNCHANGED <<status, owner, given, new>>
  <2>1. /\ pc'[r] = "scopes" /\ job' = job /\ pc[r] = "scopes"
    BY <1>4 DEF InsertScope, Goto, Inductive, TypeOK
  <2>2. \A v : Counted(v)' = Counted(v)
    BY <1>4 DEF Counted, Issued
  <2> QED BY <1>4, <2>1, <2>2 DEF Creating, Renewing, Detail
<1>5. CASE CreateCount(r)
  BY <1>1, <1>2, <1>5 DEF CreateCount
<1>6. CASE CreateInsert(r)
  BY <1>1, <1>3, <1>6 DEF CreateInsert, InsertRow
<1>7. CASE InsertScope(r) /\ job[r].op = "create"
  BY <1>1, <1>4, <1>7 DEF InsertScope
<1> QED BY <1>5, <1>6, <1>7

LEMMA RenewingStep ==
    ASSUME GraceHours < HalfWord, Inductive, Answers, Detail, NEW r \in Requests,
           \/ RotateLoad(r) \/ RotateDeprecate(r) \/ RotateInsert(r) \/ ReadCutShort(r)
           \/ (InsertScope(r) /\ job[r].op = "rotate")
    PROVE  Creating(r)' /\ Renewing(r)'
<1> DEFINE old == job[r].key
<1>1. CASE \E answer : Return(r, answer)
  BY <1>1, DetailIdle DEF Return, Inductive, TypeOK
<1>2. ASSUME NEW S \in SUBSET scopes[old], NEW l \in SetToSeqs(S), LoadOld(r, l),
             S = scopes[old] \/ Faults, pc[r] = "load", old \in Issued
      PROVE  Creating(r)' /\ Renewing(r)'
  <2>1. IsFiniteSet(S)
    BY <1>2, ScopesAssumption, FS_Subset DEF Issued, Inductive, TypeOK
  <2>2. ToSet(l) = S /\ Distinct(l)
    BY <2>1, ListingComplete
  <2>3. /\ pc'[r] = "deprecate" /\ job' = job /\ todo'[r] = l /\ given'[r] = S
        /\ scopes' = scopes /\ job[r].op = "rotate"
    BY <1>2, <2>2 DEF LoadOld, Goto, table, Inductive, TypeOK, Bookkeeping, Holding
  <2> QED BY <1>2, <2>2, <2>3 DEF Creating, Renewing
<1>3. CASE RotateDeprecate(r) /\ GraceEnd \in Representable
  <2>1. /\ status' = [status EXCEPT ![old] = "deprecated"]
        /\ expires' = [expires EXCEPT ![old] = StoredExpiry]
        /\ UNCHANGED <<scopes, todo, given, now, job>> /\ pc'[r] = "insert" /\ pc[r] = "deprecate"
    BY <1>3 DEF RotateDeprecate, Goto, locals, Inductive, TypeOK
  <2>2. old \in Keys /\ job[r].op = "rotate"
    BY <2>1 DEF Inductive, Bookkeeping, Holding, OldKey, Issued
  <2>3. status'[old] = "deprecated" /\ expires'[old] = StoredExpiry
    BY <2>1, <2>2 DEF Inductive, TypeOK
  <2>4. StoredExpiry = Registry!End(now) /\ now \in 0..now
    BY DEF StoredExpiry, GraceEnd, AsI64, Registry!End, Inductive, TypeOK
  <2>5. \E t \in 0..now' : expires'[old] = Registry!End(t)
    BY <2>1, <2>3, <2>4
  <2>6. /\ Distinct(todo[r])
        /\ given[r] \subseteq scopes[old] /\ (given[r] = scopes[old] \/ Faults)
    BY <2>1, <2>2 DEF Detail, Renewing
  <2> QED BY <2>1, <2>2, <2>3, <2>5, <2>6 DEF Creating, Renewing
<1>4. ASSUME NEW k \in Keys, InsertRow(r, k, lineage[old]), Goto(r, "scopes"), pc[r] = "insert",
             job[r].op = "rotate", KnownUser(job[r].user)
      PROVE  Creating(r)' /\ Renewing(r)'
  <2>1. /\ pc'[r] = "scopes" /\ new'[r] = k /\ UNCHANGED <<job, scopes, todo, given, now, expires>>
        /\ status[k] = "none" /\ status' = [status EXCEPT ![k] = "active"]
    BY <1>4 DEF InsertRow, Goto, Inductive, TypeOK
  <2>2. scopes[k] = {}
    BY <2>1 DEF Inductive, RowsComplete
  <2>3. status[old] = "deprecated" /\ status'[old] = "deprecated"
    BY <1>4, <2>1 DEF Detail, Renewing, Inductive, TypeOK
  <2>4. Distinct(todo[r]) /\ given[r] \subseteq scopes[old] /\ (given[r] = scopes[old] \/ Faults)
        /\ \E t \in 0..now : expires[old] = Registry!End(t)
    BY <1>4 DEF Detail, Renewing
  <2> QED BY <1>4, <2>1, <2>2, <2>3, <2>4 DEF Creating, Renewing
<1>5. CASE InsertScope(r) /\ job[r].op = "rotate" /\ Goto(r, "scopes")
           /\ scopes' = [scopes EXCEPT ![new[r]] = @ \cup {Head(todo[r])}]
           /\ todo' = [todo EXCEPT ![r] = Tail(@)]
           /\ UNCHANGED <<status, expires, given, new>>
  <2>1. /\ pc'[r] = "scopes" /\ pc[r] = "scopes" /\ UNCHANGED <<job, now>> /\ todo'[r] = Tail(todo[r])
        /\ todo[r] # <<>> /\ todo[r] \in Seq(Scopes)
    BY <1>5 DEF InsertScope, Goto, Inductive, TypeOK
  <2>2. /\ old \in Keys /\ new[r] \in Keys /\ new[r] # old
    <3>1. old \in Issued /\ new[r] \in Issued
      BY <1>5, <2>1 DEF Inductive, Bookkeeping, Holding, OldKey
    <3>2. status[old] = "deprecated"
      BY <1>5, <2>1 DEF Detail, Renewing
    <3>3. ToSet(todo[r]) \subseteq scopes[old] /\ ToSet(todo[r]) \cap scopes[new[r]] = {}
          /\ Head(todo[r]) \in ToSet(todo[r])
      BY <1>5, <2>1, HeadTailSet DEF Detail, Renewing, Inductive, Bookkeeping, OldKey
    <3> QED BY <3>1, <3>3 DEF Issued
  <2>3. /\ scopes'[new[r]] = scopes[new[r]] \cup {Head(todo[r])} /\ scopes'[old] = scopes[old]
    BY <1>5, <2>2 DEF Inductive, TypeOK
  <2>4. Distinct(todo[r]) /\ ToSet(todo[r]) \cap scopes[new[r]] = {}
        /\ given[r] \subseteq scopes[old] /\ (given[r] = scopes[old] \/ Faults)
        /\ status[old] = "deprecated" /\ \E t \in 0..now : expires[old] = Registry!End(t)
    BY <1>5, <2>1 DEF Detail, Renewing
  <2>5. Distinct(Tail(todo[r])) /\ Head(todo[r]) \notin ToSet(Tail(todo[r]))
        /\ ToSet(Tail(todo[r])) \subseteq ToSet(todo[r])
    BY <2>1, <2>4, DistinctTail, HeadTailSet
  <2>6. ToSet(todo'[r]) \cap scopes'[new'[r]] = {} /\ Distinct(todo'[r])
    BY <1>5, <2>1, <2>3, <2>4, <2>5
  <2> QED BY <1>5, <2>1, <2>3, <2>4, <2>6 DEF Creating, Renewing
<1>6. CASE RotateLoad(r) \/ ReadCutShort(r)
  BY <1>1, <1>2, <1>6 DEF RotateLoad, ReadCutShort, Rotatable, Listings
<1>7. CASE RotateDeprecate(r)
  BY <1>1, <1>3, <1>7 DEF RotateDeprecate
<1>8. CASE RotateInsert(r)
  BY <1>1, <1>4, <1>8 DEF RotateInsert, InsertRow
<1>9. CASE InsertScope(r) /\ job[r].op = "rotate"
  BY <1>1, <1>5, <1>9 DEF InsertScope
<1> QED BY <1>6, <1>7, <1>8, <1>9

LEMMA DetailWaits ==
    ASSUME NEW r \in Requests, pc'[r] \notin {"deprecate", "insert", "scopes"},
           pc'[r] \in {"waiting", "count"} /\ job'[r].op = "create" => job'[r].ask # <<>>
    PROVE  Creating(r)' /\ Renewing(r)'
BY DEF Creating, Renewing

LEMMA DetailStep ==
    ASSUME GraceHours < HalfWord, Inductive, Answers, Queued, Detail, [Next]_vars
    PROVE  Detail'
<1>0. Blank' /\ Fresh'
  BY BlankStep, FreshStep DEF Detail
<1>1. CASE UNCHANGED vars \/ Tick
  <2>1. UNCHANGED <<status, owner, expires, scopes, pc, job, given, todo, new>>
    BY <1>1 DEF vars, table, locals, Tick
  <2>2. 0..now \subseteq 0..now'
    BY <1>1 DEF vars, Tick, Inductive, TypeOK
  <2>3. \A v : Counted(v)' = Counted(v)
    BY <2>1 DEF Counted, Issued
  <2>4. ASSUME NEW r \in Requests PROVE Creating(r)' /\ Renewing(r)'
    <3>1. Creating(r)'
      BY <2>1, <2>3 DEF Creating, Detail
    <3>2. Renewing(r)'
      BY <2>1, <2>2 DEF Renewing, Detail
    <3> QED BY <3>1, <3>2
  <2> QED BY <1>0, <2>4 DEF Detail
<1>2. CASE Restart
  <2>1. \A r \in Requests : pc'[r] = "idle"
    BY <1>2 DEF Restart
  <2> QED BY <1>0, <2>1, DetailIdle DEF Detail
<1>3. CASE Acquire
  <2>1. PICK r \in Requests : r = queue[NextInLine] /\ pc[r] = "waiting"
    BY <1>3 DEF Acquire, Grantable, NextInLine, Queued, Inductive, TypeOK
  <2>2. /\ job' = job /\ \A q \in Requests : q # r => pc'[q] = pc[q]
        /\ pc'[r] = FirstStep[job[r].op]
    BY <1>3, <2>1 DEF Acquire, Inductive, TypeOK
  <2>3. job[r].op \in {"create", "rotate", "revoke", "verify", "list"}
    BY DEF Inductive, TypeOK, Job
  <2>4. pc'[r] \in {"count", "load", "update", "lookup", "select"}
    BY <2>2, <2>3 DEF FirstStep
  <2>5. \A q \in Requests : pc[q] \notin Steps
    BY <1>3, GrantShape
  <2>6. ASSUME NEW q \in Requests PROVE Creating(q)' /\ Renewing(q)'
    <3>1. /\ pc'[q] \notin {"deprecate", "insert", "scopes"}
          /\ pc'[q] \in {"waiting", "count"} => pc[q] = "waiting"
      BY <2>1, <2>2, <2>4, <2>5 DEF Steps
    <3> QED BY <2>2, <3>1, DetailWaits DEF Detail, Creating
  <2> QED BY <1>0, <2>6 DEF Detail
<1>4. ASSUME NEW r \in Requests, Client(r) PROVE Detail'
  <2>1. /\ UNCHANGED <<status, owner, expires, scopes, given, todo, new, now>>
        /\ \A q \in Requests : q # r => pc'[q] = pc[q] /\ job'[q] = job[q]
    BY <1>4 DEF Client, Arrive, Cancel, Deliver, LoseReply, table, locals, Inductive, TypeOK
  <2>2. \A v : Counted(v)' = Counted(v)
    BY <2>1 DEF Counted, Issued
  <2>3. ASSUME NEW q \in Requests, q # r PROVE Creating(q)' /\ Renewing(q)'
    <3>1. Creating(q)'
      BY <2>1, <2>2, <2>3 DEF Creating, Detail
    <3>2. Renewing(q)'
      BY <2>1, <2>3 DEF Renewing, Detail
    <3> QED BY <3>1, <3>2
  <2>4. /\ pc'[r] \in {"idle", "replied", "waiting"}
        /\ pc'[r] = "waiting" /\ job'[r].op = "create" => job'[r].ask # <<>>
    BY <1>4 DEF Client, Arrive, Cancel, Deliver, LoseReply, Inductive, TypeOK
  <2>5. Creating(r)' /\ Renewing(r)'
    BY <2>4 DEF Creating, Renewing
  <2> QED BY <1>0, <2>3, <2>5 DEF Detail
<1>5. ASSUME NEW r \in Requests, Handler(r) \/ StatementFails(r) \/ ReadCutShort(r) PROVE Detail'
  <2>1. ASSUME NEW q \in Requests, q # r PROVE Creating(q)' /\ Renewing(q)'
    <3>1. pc'[q] = pc[q] /\ job'[q] = job[q] /\ pc[q] \notin Steps
      BY <1>5, <2>1, OthersStill
    <3> QED BY <3>1, DetailWaits DEF Detail, Creating, Steps
  <2>2. (\E answer : Return(r, answer)) \/ Goto(r, "touch") =>
            pc'[r] \in {"idle", "replied", "touch"}
    BY DEF Return, Goto, Inductive, TypeOK
  <2>3. InsertScope(r) => job[r].op \in {"create", "rotate"}
    BY DEF InsertScope, Inductive, Bookkeeping, Holding
  <2>4. Creating(r)' /\ Renewing(r)'
    <3>1. CASE \/ CreateFinish(r) \/ RotateFinish(r) \/ Revoke(r) \/ VerifyLookup(r)
               \/ VerifyTouch(r) \/ List(r) \/ StatementFails(r)
      <4>1. (\E answer : Return(r, answer)) \/ Goto(r, "touch")
        BY <3>1 DEF CreateFinish, RotateFinish, Revoke, VerifyLookup, VerifyTouch, List,
                    StatementFails
      <4> QED BY <2>2, <4>1, DetailIdle
    <3> QED BY <1>5, <2>3, <3>1, CreatingStep, RenewingStep DEF Handler
  <2> QED BY <1>0, <2>1, <2>4 DEF Detail
<1> QED BY <1>1, <1>2, <1>3, <1>4, <1>5 DEF Next

LEMMA DetailHolds == ASSUME GraceHours < HalfWord PROVE Spec => []Detail
<1>1. Init => Detail
  BY DEF Init, Detail, Blank, Fresh, Creating, Renewing, NoJob
<1>2. Inductive /\ Answers /\ Queued /\ Detail /\ [Next]_vars => Detail'
  BY DetailStep
<1> QED BY <1>1, <1>2, InductiveHolds, AnswersHold, QueuedHolds, PTL DEF Spec

-----------------------------------------------------------------------------
(* What the registry sees *)

(* With nobody between insert and return, the registry is the table. *)
Quiet(p) == \A r \in Requests : p[r] \notin {"insert", "scopes"}

LEMMA QuietShows ==
    ASSUME Inductive, Quiet(pc), NEW k \in Keys PROVE ~Unfinished(k) /\ ~Rotating(k)
BY KeysAssumption DEF Quiet, Unfinished, Rotating, Inductive, Bookkeeping, Holding

LEMMA QuietShowsNext ==
    ASSUME Inductive', Quiet(pc'), NEW k \in Keys PROVE ~Unfinished(k)' /\ ~Rotating(k)'
BY KeysAssumption DEF Quiet, Unfinished, Rotating, Inductive, Bookkeeping, Holding

(* Otherwise one handler hides its new row, and the deprecation of its old one. *)
LEMMA BusyShows ==
    ASSUME Inductive, NEW r \in Requests, pc[r] \in {"insert", "scopes"}, NEW k \in Keys
    PROVE  /\ Unfinished(k) <=> pc[r] = "scopes" /\ new[r] = k
           /\ Rotating(k) <=> job[r].op = "rotate" /\ job[r].key = k
<1>1. \A q \in Requests : q # r => pc[q] \notin Steps
  BY OthersWait DEF Inductive, Steps
<1>2. \A q \in Requests : new[q] = k => pc[q] = "scopes"
  BY KeysAssumption DEF Inductive, Bookkeeping, Holding
<1> QED BY <1>1, <1>2 DEF Unfinished, Rotating, Steps

LEMMA BusyShowsNext ==
    ASSUME Inductive', NEW r \in Requests, pc'[r] \in {"insert", "scopes"}, NEW k \in Keys
    PROVE  /\ Unfinished(k)' <=> pc'[r] = "scopes" /\ new'[r] = k
           /\ Rotating(k)' <=> job'[r].op = "rotate" /\ job'[r].key = k
<1>1. \A q \in Requests : q # r => pc'[q] \notin Steps
  BY DEF Inductive, Exclusive, Steps
<1>2. \A q \in Requests : new'[q] = k => pc'[q] = "scopes"
  BY KeysAssumption DEF Inductive, Bookkeeping, Holding
<1> QED BY <1>1, <1>2 DEF Unfinished, Rotating, Steps

LEMMA StutterShows ==
    ASSUME UNCHANGED <<status, owner, lineage, expires, scopes, now>>,
           \A k \in Keys : (Unfinished(k)' <=> Unfinished(k)) /\ (Rotating(k)' <=> Rotating(k))
    PROVE  UNCHANGED Registry!vars
<1>1. /\ StatusBar' = StatusBar /\ OwnerBar' = OwnerBar /\ LineageBar' = LineageBar
      /\ ExpiresBar' = ExpiresBar /\ ScopesBar' = ScopesBar
  BY DEF StatusBar, OwnerBar, LineageBar, ExpiresBar, ScopesBar, Shown
<1> QED BY <1>1 DEF Registry!vars, StatusBar, OwnerBar, LineageBar, ExpiresBar, ScopesBar

LEMMA SameCardinality ==
    ASSUME NEW S PROVE Registry!Cardinality(S) = Cardinality(S)
BY DEF Registry!Cardinality, Cardinality

(* The registry's operations, said of what its variables stand for. *)
LEMMA RegistryCreates ==
    ASSUME NEW k \in Keys, NEW u \in Users, NEW S \in SUBSET Scopes, StatusBar[k] = "none",
           Cardinality(Registry!Live(u)) < MaxKeys,
           S \cap Wildcards = {}, S # {} \/ Faults,
           StatusBar' = [StatusBar EXCEPT ![k] = "active"],
           OwnerBar' = [OwnerBar EXCEPT ![k] = u],
           LineageBar' = [LineageBar EXCEPT ![k] = k],
           ScopesBar' = [ScopesBar EXCEPT ![k] = S],
           ExpiresBar' = ExpiresBar, now' = now
    PROVE  Registry!Next
<1>1. Registry!Create(k, u, S)
  BY SameCardinality DEF Registry!Create, Registry!Issue,
         StatusBar, OwnerBar, LineageBar, ScopesBar, ExpiresBar
<1> QED BY <1>1 DEF Registry!Next

LEMMA RegistryRotates ==
    ASSUME NEW old \in Keys, NEW k \in Keys, NEW S \in SUBSET Scopes,
           StatusBar[old] = "active", StatusBar[k] = "none",
           S = ScopesBar[old] \/ (Faults /\ S \subseteq ScopesBar[old]),
           NEW t \in 0..now, ExpiresBar' = [ExpiresBar EXCEPT ![old] = Registry!End(t)],
           StatusBar' = [StatusBar EXCEPT ![old] = "deprecated", ![k] = "active"],
           OwnerBar' = [OwnerBar EXCEPT ![k] = OwnerBar[old]],
           LineageBar' = [LineageBar EXCEPT ![k] = LineageBar[old]],
           ScopesBar' = [ScopesBar EXCEPT ![k] = S], now' = now
    PROVE  Registry!Next
<1>1. Registry!Rotate(old, k, S)
  BY DEF Registry!Rotate, Registry!Retire, Registry!Issue,
         StatusBar, OwnerBar, LineageBar, ScopesBar, ExpiresBar
<1> QED BY <1>1 DEF Registry!Next

LEMMA RegistryStrands ==
    ASSUME NEW old \in Keys, Faults, StatusBar[old] = "active",
           NEW t \in 0..now, ExpiresBar' = [ExpiresBar EXCEPT ![old] = Registry!End(t)],
           StatusBar' = [StatusBar EXCEPT ![old] = "deprecated"],
           OwnerBar' = OwnerBar, LineageBar' = LineageBar, ScopesBar' = ScopesBar, now' = now
    PROVE  Registry!Next
<1>1. Registry!Strand(old)
  BY DEF Registry!Strand, Registry!Retire,
         StatusBar, OwnerBar, LineageBar, ScopesBar, ExpiresBar
<1> QED BY <1>1 DEF Registry!Next

LEMMA RegistryRevokes ==
    ASSUME NEW k \in Keys, StatusBar[k] \in {"active", "deprecated"},
           StatusBar' = [StatusBar EXCEPT ![k] = "revoked"],
           OwnerBar' = OwnerBar, LineageBar' = LineageBar, ExpiresBar' = ExpiresBar,
           ScopesBar' = ScopesBar, now' = now
    PROVE  Registry!Next
<1>1. Registry!Revoke(k)
  BY DEF Registry!Revoke, StatusBar, OwnerBar, LineageBar, ScopesBar, ExpiresBar
<1> QED BY <1>1 DEF Registry!Next

-----------------------------------------------------------------------------
(* The steps that take effect *)

(* A creation or a rotation gives up the mutex, its row inserted. *)
LEMMA FinishShows ==
    ASSUME Inductive, Answers, Detail, Inductive', NEW r \in Requests, pc[r] = "scopes",
           UNCHANGED <<status, owner, lineage, expires, scopes, now>>, Quiet(pc'),
           \/ Faults
           \/ job[r].op = "create" /\ scopes[new[r]] # {}
           \/ todo[r] = <<>>
    PROVE  Registry!Next
<1> DEFINE k == new[r]
           old == job[r].key
<1>1. /\ k \in Issued /\ k \in Keys /\ owner[k] = job[r].user /\ owner[k] \in Users
      /\ scopes[k] \in SUBSET Scopes
  BY DEF Inductive, Bookkeeping, Holding, Issued, TypeOK, Answers, Carries, RowsComplete
<1>2. status[k] = "active" /\ expires[k] = Null
  BY <1>1 DEF Detail, Blank, Fresh
<1>3. \A j \in Keys : /\ ~Unfinished(j)' /\ ~Rotating(j)'
                      /\ Unfinished(j) <=> j = k
                      /\ Rotating(j) <=> job[r].op = "rotate" /\ j = old
  BY QuietShowsNext, BusyShows
<1>4. given[r] = scopes[k] \cup ToSet(todo[r]) /\ (todo[r] = <<>> => given[r] = scopes[k])
  <2>1. todo[r] = <<>> => ToSet(todo[r]) = {}
    BY DEF ToSet
  <2> QED BY <2>1 DEF Answers, Carries
<1>5. ScopesBar' = [ScopesBar EXCEPT ![k] = scopes[k]]
  BY <1>1, <1>3 DEF ScopesBar, Shown
<1>6. OwnerBar' = [OwnerBar EXCEPT ![k] = owner[k]]
  BY <1>1, <1>3 DEF OwnerBar, Shown
<1>7. LineageBar' = [LineageBar EXCEPT ![k] = lineage[k]]
  BY <1>1, <1>3 DEF LineageBar, Shown
<1>8. CASE job[r].op = "create"
  <2>1. /\ StatusBar[k] = "none" /\ StatusBar' = [StatusBar EXCEPT ![k] = "active"]
        /\ ExpiresBar' = ExpiresBar
    BY <1>1, <1>2, <1>3, <1>8 DEF StatusBar, ExpiresBar, Shown
  <2>2. Cardinality(Registry!Live(owner[k])) < MaxKeys
    <3>1. ASSUME NEW u \in Users
          PROVE  Registry!Live(u) = Counted(u) \ {k}
      <4>1. \A j \in Keys : j \in Registry!Live(u) <=>
                /\ j # k /\ owner[j] = u /\ status[j] \in {"active", "deprecated"}
        BY <1>3, <1>8, <3>1, UsersAssumption DEF Registry!Live, Shown
      <4>2. \A j \in Keys : j \in Counted(u) <=> owner[j] = u /\ status[j] \in {"active", "deprecated"}
        BY DEF Counted, Issued, Inductive, TypeOK, Statuses
      <4>3. Registry!Live(u) \subseteq Keys /\ Counted(u) \subseteq Keys
        BY DEF Registry!Live, Counted, Issued
      <4> QED BY <4>1, <4>2, <4>3
    <3>2. Cardinality(Counted(owner[k]) \ {k}) < MaxKeys
      BY <1>1, <1>8 DEF Detail, Creating
    <3> QED BY <1>1, <3>1, <3>2
  <2>3. lineage[k] = k /\ scopes[k] \cap Wildcards = {}
    BY <1>1, <1>8 DEF Inductive, Bookkeeping, Holding, Answers, Clean
  <2>4. scopes[k] # {} \/ Faults
    BY <1>4, <1>8 DEF Detail, Creating
  <2> QED BY <1>1, <1>5, <1>6, <1>7, <2>1, <2>2, <2>3, <2>4, RegistryCreates
<1>9. CASE job[r].op = "rotate"
  <2>1. /\ old \in Keys /\ owner[old] = owner[k] /\ lineage[k] = lineage[old]
        /\ ToSet(todo[r]) \subseteq scopes[old]
    BY <1>1, <1>9 DEF Inductive, Bookkeeping, OldKey, Issued
  <2>2. /\ status[old] = "deprecated"
        /\ given[r] \subseteq scopes[old] /\ (given[r] = scopes[old] \/ Faults)
    BY <1>9 DEF Detail, Renewing
  <2>3. PICK t \in 0..now : expires[old] = Registry!End(t)
    BY <1>9 DEF Detail, Renewing
  <2>4. old # k
    BY <1>2, <2>2
  <2>5. /\ StatusBar[old] = "active" /\ StatusBar[k] = "none"
        /\ StatusBar' = [StatusBar EXCEPT ![old] = "deprecated", ![k] = "active"]
    BY <1>1, <1>2, <1>3, <1>9, <2>1, <2>2, <2>4 DEF StatusBar, Shown
  <2>6. ExpiresBar' = [ExpiresBar EXCEPT ![old] = expires[old]]
    BY <1>3, <1>9, <2>1 DEF ExpiresBar
  <2>7. OwnerBar[old] = owner[old] /\ LineageBar[old] = lineage[old] /\ ScopesBar[old] = scopes[old]
    BY <1>3, <2>1, <2>4 DEF OwnerBar, LineageBar, ScopesBar, Shown
  <2>8. scopes[k] = scopes[old] \/ (Faults /\ scopes[k] \subseteq scopes[old])
    BY <1>4, <1>9, <2>2
  <2> QED BY <1>1, <1>5, <1>6, <1>7, <2>1, <2>3, <2>4, <2>5, <2>6, <2>7, <2>8, RegistryRotates
<1> QED BY <1>8, <1>9 DEF Inductive, Bookkeeping, Holding

(* A rotation that gives up after it deprecated the old key. *)
LEMMA AbandonShows ==
    ASSUME Inductive, Detail, Inductive', NEW r \in Requests, pc[r] = "insert",
           UNCHANGED <<status, owner, lineage, expires, scopes, now>>, Quiet(pc'),
           Faults \/ job[r].op = "create"
    PROVE  Registry!Next \/ UNCHANGED Registry!vars
<1> DEFINE old == job[r].key
<1>1. \A j \in Keys : /\ ~Unfinished(j)' /\ ~Rotating(j)'
                      /\ ~Unfinished(j)
                      /\ Rotating(j) <=> job[r].op = "rotate" /\ j = old
  BY QuietShowsNext, BusyShows
<1>2. CASE job[r].op = "create"
  BY <1>1, <1>2, StutterShows
<1>3. CASE job[r].op = "rotate" /\ Faults
  <2>1. old \in Keys /\ status[old] = "deprecated"
    BY <1>3 DEF Inductive, Bookkeeping, OldKey, Issued, Detail, Renewing
  <2>2. PICK t \in 0..now : expires[old] = Registry!End(t)
    BY <1>3 DEF Detail, Renewing
  <2>3. /\ StatusBar[old] = "active" /\ StatusBar' = [StatusBar EXCEPT ![old] = "deprecated"]
    BY <1>1, <1>3, <2>1 DEF StatusBar, Shown
  <2>4. ExpiresBar' = [ExpiresBar EXCEPT ![old] = expires[old]]
    BY <1>1, <1>3, <2>1 DEF ExpiresBar
  <2>5. OwnerBar' = OwnerBar /\ LineageBar' = LineageBar /\ ScopesBar' = ScopesBar
    BY <1>1 DEF OwnerBar, LineageBar, ScopesBar, Shown
  <2> QED BY <1>3, <2>1, <2>2, <2>3, <2>4, <2>5, RegistryStrands
<1> QED BY <1>2, <1>3 DEF Inductive, Bookkeeping, Holding

-----------------------------------------------------------------------------
(* The steps nobody else sees *)

LEMMA BarsSame ==
    ASSUME StatusBar' = StatusBar, OwnerBar' = OwnerBar, LineageBar' = LineageBar,
           ExpiresBar' = ExpiresBar, ScopesBar' = ScopesBar, now' = now
    PROVE  UNCHANGED Registry!vars
BY DEF Registry!vars, StatusBar, OwnerBar, LineageBar, ExpiresBar, ScopesBar

LEMMA QuietStutter ==
    ASSUME Inductive, Inductive', Quiet(pc), Quiet(pc'),
           UNCHANGED <<status, owner, lineage, expires, scopes, now>>
    PROVE  UNCHANGED Registry!vars
BY QuietShows, QuietShowsNext, StutterShows

LEMMA DeprecateShows ==
    ASSUME Inductive, Detail, Inductive', NEW r \in Requests, RotateDeprecate(r), Quiet(pc),
           GraceEnd \in Representable
    PROVE  UNCHANGED Registry!vars
<1> DEFINE old == job[r].key
<1>1. /\ status' = [status EXCEPT ![old] = "deprecated"]
      /\ expires' = [expires EXCEPT ![old] = StoredExpiry]
      /\ UNCHANGED <<owner, lineage, scopes, now, job>> /\ pc'[r] = "insert"
  BY DEF RotateDeprecate, Goto, Inductive, TypeOK
<1>2. old \in Keys /\ job[r].op = "rotate" /\ status[old] = "active" /\ expires[old] = Null
  BY DEF RotateDeprecate, Inductive, Bookkeeping, Holding, OldKey, Issued, Detail, Blank
<1>3. \A j \in Keys : /\ ~Unfinished(j) /\ ~Rotating(j)
                      /\ ~Unfinished(j)' /\ (Rotating(j)' <=> j = old)
  BY <1>1, <1>2, QuietShows, BusyShowsNext
<1>4. StatusBar' = StatusBar /\ ExpiresBar' = ExpiresBar
  BY <1>1, <1>2, <1>3 DEF StatusBar, ExpiresBar, Shown, Inductive, TypeOK
<1>5. OwnerBar' = OwnerBar /\ LineageBar' = LineageBar /\ ScopesBar' = ScopesBar
  BY <1>1, <1>3 DEF OwnerBar, LineageBar, ScopesBar, Shown
<1> QED BY <1>1, <1>4, <1>5, BarsSame

LEMMA InsertShows ==
    ASSUME Inductive, Detail, Inductive', NEW r \in Requests, NEW k \in Keys, NEW l,
           InsertRow(r, k, l), pc[r] = "insert", KnownUser(job[r].user)
    PROVE  UNCHANGED Registry!vars
<1>1. /\ status[k] = "none"
      /\ status' = [status EXCEPT ![k] = "active"]
      /\ owner' = [owner EXCEPT ![k] = job[r].user]
      /\ lineage' = [lineage EXCEPT ![k] = l]
      /\ UNCHANGED <<expires, scopes, now, job>> /\ pc'[r] = "scopes" /\ new'[r] = k
  BY DEF InsertRow, Goto, Inductive, TypeOK
<1>2. owner[k] = NoUser /\ lineage[k] = NoKey /\ scopes[k] = {}
  BY <1>1 DEF Inductive, RowsComplete, Detail, Blank
<1>3. \A j \in Keys : /\ ~Unfinished(j) /\ (Unfinished(j)' <=> j = k)
                      /\ (Rotating(j)' <=> Rotating(j))
  BY <1>1, BusyShows, BusyShowsNext
<1>4. ~Rotating(k)
  <2>1. job[r].op = "rotate" => status[job[r].key] = "deprecated"
    BY DEF Detail, Renewing
  <2> QED BY <1>1, <2>1, BusyShows
<1>5. StatusBar' = StatusBar /\ ExpiresBar' = ExpiresBar
  BY <1>1, <1>3, <1>4 DEF StatusBar, ExpiresBar, Shown, Inductive, TypeOK
<1>6. OwnerBar' = OwnerBar /\ LineageBar' = LineageBar /\ ScopesBar' = ScopesBar
  <2>1. \A j \in Keys : j # k => owner'[j] = owner[j] /\ lineage'[j] = lineage[j]
    BY <1>1 DEF Inductive, TypeOK
  <2> QED BY <1>1, <1>2, <1>3, <2>1 DEF OwnerBar, LineageBar, ScopesBar, Shown
<1> QED BY <1>1, <1>5, <1>6, BarsSame

LEMMA ScopeShows ==
    ASSUME Inductive, Inductive', NEW r \in Requests, InsertScope(r), Goto(r, "scopes"),
           scopes' = [scopes EXCEPT ![new[r]] = @ \cup {Head(todo[r])}],
           UNCHANGED <<status, owner, lineage, expires, new>>
    PROVE  UNCHANGED Registry!vars
<1>1. pc[r] = "scopes" /\ pc'[r] = "scopes" /\ UNCHANGED <<job, now>>
  BY DEF InsertScope, Goto, Inductive, TypeOK
<1>2. \A j \in Keys : /\ (Unfinished(j) <=> j = new[r]) /\ (Unfinished(j)' <=> j = new[r])
                      /\ (Rotating(j)' <=> Rotating(j))
  BY <1>1, BusyShows, BusyShowsNext
<1>3. StatusBar' = StatusBar /\ ExpiresBar' = ExpiresBar
  BY <1>2 DEF StatusBar, ExpiresBar, Shown
<1>4. OwnerBar' = OwnerBar /\ LineageBar' = LineageBar
  BY <1>2 DEF OwnerBar, LineageBar, Shown
<1>5. ScopesBar' = ScopesBar
  <2>1. \A j \in Keys : j # new[r] => scopes'[j] = scopes[j]
    BY DEF Inductive, TypeOK
  <2> QED BY <1>2, <2>1 DEF ScopesBar, Shown
<1> QED BY <1>1, <1>3, <1>4, <1>5, BarsSame

-----------------------------------------------------------------------------
(* Every step *)

(* A handler that is neither inserting nor about to. *)
LEMMA PlainShows ==
    ASSUME Inductive, Inductive', NEW r \in Requests, pc[r] \in Steps \ {"insert", "scopes"},
           pc'[r] \notin {"insert", "scopes"}, \A q \in Requests : q # r => pc'[q] = pc[q],
           UNCHANGED <<status, owner, lineage, expires, scopes, now>>
    PROVE  UNCHANGED Registry!vars
<1>1. \A q \in Requests : q # r => pc[q] \notin Steps
  BY OthersWait DEF Inductive
<1>2. Quiet(pc) /\ Quiet(pc')
  BY <1>1 DEF Quiet, Steps
<1> QED BY <1>2, QuietStutter

LEMMA ReturnShows ==
    ASSUME Inductive, Answers, Detail, Inductive', NEW r \in Requests, pc[r] \in Steps,
           NEW answer, Return(r, answer), UNCHANGED <<status, owner, lineage, expires, scopes>>,
           pc[r] = "insert" => Faults \/ job[r].op = "create",
           pc[r] = "scopes" => \/ Faults
                               \/ job[r].op = "create" /\ scopes[new[r]] # {}
                               \/ todo[r] = <<>>
    PROVE  Registry!Next \/ UNCHANGED Registry!vars
<1>1. /\ pc'[r] \in {"idle", "replied"} /\ now' = now
      /\ \A q \in Requests : q # r => pc'[q] = pc[q] /\ pc[q] \notin Steps
  BY OthersWait DEF Return, Inductive, TypeOK
<1>2. Quiet(pc')
  BY <1>1 DEF Quiet, Steps
<1>3. CASE pc[r] = "scopes"
  BY <1>1, <1>2, <1>3, FinishShows
<1>4. CASE pc[r] = "insert"
  BY <1>1, <1>2, <1>4, AbandonShows
<1>5. CASE pc[r] \notin {"insert", "scopes"}
  BY <1>1, <1>5, PlainShows
<1> QED BY <1>3, <1>4, <1>5

LEMMA RevokeShows ==
    ASSUME Inductive, Answers, Detail, Inductive', NEW r \in Requests, Revoke(r)
    PROVE  Registry!Next \/ UNCHANGED Registry!vars
<1> DEFINE k == job[r].key
<1>1. CASE UNCHANGED table
  BY <1>1, ReturnShows DEF Revoke, table, Steps
<1>2. CASE /\ status' = [status EXCEPT ![k] = "revoked"]
           /\ UNCHANGED <<owner, lineage, expires, lastUsed, scopes>>
           /\ Return(r, Told("revoked", k, {}, "revoked")) /\ Revocable(k, job[r].user)
  <2>1. /\ pc'[r] \in {"idle", "replied"} /\ now' = now /\ pc[r] = "update"
        /\ \A q \in Requests : q # r => pc'[q] = pc[q] /\ pc[q] \notin Steps
    BY <1>2, OthersWait DEF Revoke, Return, Inductive, TypeOK, Steps
  <2>2. Quiet(pc) /\ Quiet(pc')
    BY <2>1 DEF Quiet, Steps
  <2>3. \A j \in Keys : ~Unfinished(j) /\ ~Rotating(j) /\ ~Unfinished(j)' /\ ~Rotating(j)'
    BY <2>2, QuietShows, QuietShowsNext
  <2>4. k \in Keys /\ status[k] \in {"active", "deprecated"}
    BY <1>2 DEF Revocable, Issued, Inductive, TypeOK, Statuses
  <2>5. StatusBar[k] = status[k] /\ StatusBar' = [StatusBar EXCEPT ![k] = "revoked"]
    BY <1>2, <2>3, <2>4 DEF StatusBar, Shown, Inductive, TypeOK
  <2>6. /\ OwnerBar' = OwnerBar /\ LineageBar' = LineageBar /\ ScopesBar' = ScopesBar
        /\ ExpiresBar' = ExpiresBar
    BY <1>2, <2>3 DEF OwnerBar, LineageBar, ScopesBar, ExpiresBar, Shown
  <2> QED BY <2>1, <2>4, <2>5, <2>6, RegistryRevokes
<1> QED BY <1>1, <1>2 DEF Revoke

LEMMA HandlerShows ==
    ASSUME Inductive, Answers, Detail, Inductive', NEW r \in Requests,
           Handler(r) \/ StatementFails(r) \/ ReadCutShort(r)
    PROVE  Registry!Next \/ UNCHANGED Registry!vars
<1>0. /\ pc[r] \in Steps
      /\ \A q \in Requests : q # r => pc'[q] = pc[q] /\ pc[q] \notin Steps
  BY HandlerShape, OthersStill
<1>1. ASSUME NEW answer, Return(r, answer), UNCHANGED <<status, owner, lineage, expires, scopes>>,
             pc[r] \notin {"insert", "scopes"} \/ Faults \/ (pc[r] = "scopes" /\ todo[r] = <<>>)
      PROVE  Registry!Next \/ UNCHANGED Registry!vars
  BY <1>0, <1>1, ReturnShows
<1>2. ASSUME NEW step \in {"deprecate", "touch"}, Goto(r, step), UNCHANGED table,
             pc[r] \notin {"insert", "scopes"}
      PROVE  UNCHANGED Registry!vars
  <2>1. pc'[r] = step /\ now' = now
    BY <1>2 DEF Goto, Inductive, TypeOK
  <2> QED BY <1>0, <1>2, <2>1, PlainShows DEF table
<1>3. CASE CreateCount(r)
  <2>1. CASE \E answer : Return(r, answer)
    BY <1>1, <1>3, <2>1 DEF CreateCount, table
  <2>2. CASE Goto(r, "insert") /\ UNCHANGED table
    <3>1. pc'[r] = "insert" /\ job' = job /\ now' = now /\ job[r].op = "create" /\ pc[r] = "count"
      BY <1>3, <2>2 DEF CreateCount, Goto, Inductive, TypeOK, Bookkeeping, Holding
    <3>2. Quiet(pc)
      BY <1>0, <3>1 DEF Quiet, Steps
    <3>3. \A j \in Keys : ~Unfinished(j) /\ ~Rotating(j) /\ ~Unfinished(j)' /\ ~Rotating(j)'
      BY <3>1, <3>2, QuietShows, BusyShowsNext
    <3> QED BY <2>2, <3>1, <3>3, StutterShows DEF table
  <2> QED BY <1>3, <2>1, <2>2 DEF CreateCount
<1>4. CASE CreateFinish(r) \/ RotateFinish(r)
  BY <1>1, <1>4 DEF CreateFinish, RotateFinish, table
<1>5. CASE RotateLoad(r) \/ VerifyLookup(r)
  BY <1>1, <1>2, <1>5 DEF RotateLoad, VerifyLookup, LoadOld, table
<1>6. CASE RotateDeprecate(r)
  <2>1. Quiet(pc)
    BY <1>0, <1>6 DEF RotateDeprecate, Quiet, Steps
  <2> QED BY <1>1, <1>6, <2>1, DeprecateShows DEF RotateDeprecate, table
<1>7. ASSUME NEW k \in Keys, NEW l, InsertRow(r, k, l), pc[r] = "insert"
      PROVE  Registry!Next \/ UNCHANGED Registry!vars
  <2>1. CASE ~KnownUser(job[r].user)
    <3>1. ASSUME job[r].op = "rotate" PROVE FALSE
      BY <1>7, <2>1, <3>1 DEF KnownUser, Inductive, Bookkeeping, OldKey, RowsComplete
    <3>2. job[r].op = "create"
      BY <1>7, <3>1 DEF Inductive, Bookkeeping, Holding
    <3> QED BY <1>0, <1>7, <2>1, <3>2, ReturnShows DEF InsertRow, table
  <2>2. CASE KnownUser(job[r].user)
    BY <1>7, <2>2, InsertShows
  <2> QED BY <2>1, <2>2
<1>8. CASE InsertScope(r)
  <2>1. CASE Head(todo[r]) \in scopes[new[r]] /\ Return(r, Said("internal")) /\ UNCHANGED table
    <3>1. job[r].op = "rotate" => FALSE
      <4>1. Head(todo[r]) \in ToSet(todo[r])
        BY <1>8, HeadTailSet DEF InsertScope, Inductive, TypeOK
      <4> QED BY <1>8, <2>1, <4>1 DEF InsertScope, Detail, Renewing
    <3>2. job[r].op = "create" /\ pc[r] = "scopes"
      BY <1>8, <3>1 DEF InsertScope, Inductive, Bookkeeping, Holding
    <3> QED BY <1>0, <2>1, <3>2, ReturnShows DEF table
  <2>2. CASE Head(todo[r]) \notin scopes[new[r]]
    BY <1>8, <2>2, ScopeShows DEF InsertScope
  <2> QED BY <1>8, <2>1, <2>2 DEF InsertScope
<1>9. CASE VerifyTouch(r) \/ List(r)
  BY <1>1, <1>9 DEF VerifyTouch, List, table
<1>10. CASE StatementFails(r)
  BY <1>1, <1>10 DEF StatementFails, table
<1>11. CASE ReadCutShort(r)
  BY <1>1, <1>2, <1>11 DEF ReadCutShort, LoadOld, table
<1> QED BY <1>3, <1>4, <1>5, <1>6, <1>7, <1>8, <1>9, <1>10, <1>11, RevokeShows
       DEF Handler, CreateInsert, RotateInsert

LEMMA StepShows ==
    ASSUME Inductive, Answers, Detail, Inductive', [Next]_vars
    PROVE  Registry!Next \/ UNCHANGED Registry!vars
<1>1. CASE UNCHANGED vars
  BY <1>1, StutterShows DEF vars, table, locals, Unfinished, Rotating
<1>2. CASE Tick
  <2>1. /\ StatusBar' = StatusBar /\ OwnerBar' = OwnerBar /\ LineageBar' = LineageBar
        /\ ExpiresBar' = ExpiresBar /\ ScopesBar' = ScopesBar
    BY <1>2 DEF Tick, table, locals, StatusBar, OwnerBar, LineageBar, ExpiresBar, ScopesBar,
                Shown, Unfinished, Rotating
  <2>2. Registry!Tick
    BY <1>2, <2>1
       DEF Tick, Registry!Tick, StatusBar, OwnerBar, LineageBar, ExpiresBar, ScopesBar
  <2> QED BY <2>2 DEF Registry!Next
<1>3. CASE Acquire
  <2>1. /\ UNCHANGED <<table, now>> /\ \A q \in Requests : pc[q] \notin Steps
        /\ \A q \in Requests : pc'[q] \notin {"insert", "scopes"}
    BY <1>3, GrantShape DEF Steps
  <2> QED BY <2>1, QuietStutter DEF Quiet, table, Steps
<1>4. ASSUME NEW r \in Requests, Client(r) PROVE UNCHANGED Registry!vars
  <2>1. /\ UNCHANGED <<table, locals, now>> /\ pc[r] \notin Steps /\ pc'[r] \notin Steps
        /\ \A q \in Requests : q # r => pc'[q] = pc[q] /\ job'[q] = job[q]
    BY <1>4 DEF Client, Arrive, Cancel, Deliver, LoseReply, Inductive, TypeOK, Steps
  <2>2. \A k \in Keys : (Unfinished(k)' <=> Unfinished(k)) /\ (Rotating(k)' <=> Rotating(k))
    BY <2>1 DEF Unfinished, Rotating, locals, Steps
  <2> QED BY <2>1, <2>2, StutterShows DEF table
<1>5. CASE Restart
  <2>1. UNCHANGED <<table, now>> /\ Quiet(pc') /\ Faults
    BY <1>5 DEF Restart, Quiet
  <2>2. CASE Quiet(pc)
    BY <2>1, <2>2, QuietStutter DEF table
  <2>3. ASSUME NEW r \in Requests, pc[r] = "scopes" PROVE Registry!Next
    BY <2>1, <2>3, FinishShows DEF table
  <2>4. ASSUME NEW r \in Requests, pc[r] = "insert" PROVE Registry!Next \/ UNCHANGED Registry!vars
    BY <2>1, <2>4, AbandonShows DEF table
  <2> QED BY <2>2, <2>3, <2>4 DEF Quiet
<1> QED BY <1>1, <1>2, <1>3, <1>4, <1>5, HandlerShows DEF Next

(* Every behaviour of the handlers, statement by statement, with every
   interleaving, failure and crash, is one of a registry that creates, rotates
   and revokes in one step each: in particular, when nothing fails, no request
   ever sees a rotation or a creation half done.  Holds when the grace period
   fits rotate_key's cast to i64. *)
THEOREM ImplementsRegistry ==
    ASSUME GraceHours < HalfWord PROVE Spec => RegistrySpec
<1>1. Init => Registry!Init
  <2> SUFFICES ASSUME Init PROVE Registry!Init
    OBVIOUS
  <2>1. \A k \in Keys : ~Unfinished(k) /\ ~Rotating(k)
    BY KeysAssumption DEF Init, Unfinished, Rotating
  <2> QED BY <2>1 DEF Init, Registry!Init, Shown
<1>2. Inductive /\ Answers /\ Detail /\ Inductive' /\ [Next]_vars => [Registry!Next]_Registry!vars
  BY StepShows
<1> QED BY <1>1, <1>2, InductiveHolds, AnswersHold, DetailHolds, PTL DEF Spec, RegistrySpec, Registry!Spec

=============================================================================
