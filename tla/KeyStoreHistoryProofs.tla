----------------------- MODULE KeyStoreHistoryProofs -----------------------
(***************************************************************************)
(* Proofs about KeyStoreHistory: how long a rotated key works, and of what *)
(* moment the answer to a verification is true.                            *)
(***************************************************************************)
EXTENDS KeyStoreHistory, KeyStoreProofs

(* What holds of the handlers holds with the history variables as well. *)
LEMMA HistoryRestrictsNothing ==
    HSpec => [](Inductive /\ Touchable /\ Answers /\ Queued)
<1>1. HInit => Init
  BY DEF HInit
<1>2. [HNext]_hvars => [Next]_vars
  BY DEF HNext, hvars
<1>3. HSpec => Spec
  BY <1>1, <1>2, PTL DEF HSpec, Spec
<1> QED BY <1>3, InductiveHolds, TouchableHolds, AnswersHold, QueuedHolds, PTL

-----------------------------------------------------------------------------
(* The grace of a rotated key *)

(* The expiry of a deprecated row is the end of its grace, or none. *)
GraceRecorded ==
    \A k \in Keys : status[k] = "deprecated" =>
        /\ rotatedAt[k] \in Int
        /\ expires[k] = IF rotatedAt[k] + GraceHours \in Readable
                        THEN rotatedAt[k] + GraceHours ELSE Null

(* Only rotate_key deprecates a row, and only an active one. *)
LEMMA DeprecatedByRotation ==
    ASSUME Inductive, [Next]_vars, NEW k \in Keys,
           status'[k] = "deprecated", status[k] # "deprecated"
    PROVE  status[k] = "active" /\ expires'[k] = StoredExpiry
<1>1. ASSUME NEW r \in Requests, RotateDeprecate(r)
      PROVE  status[k] = "active" /\ expires'[k] = StoredExpiry
  <2>1. status[job[r].key] = "active"
    BY <1>1 DEF RotateDeprecate, Inductive, Bookkeeping, Holding, OldKey
  <2> QED BY <1>1, <2>1 DEF RotateDeprecate, table, Inductive, TypeOK
<1>2. ASSUME NEW r \in Requests, CreateInsert(r) \/ RotateInsert(r) \/ Revoke(r) PROVE FALSE
  BY <1>2 DEF CreateInsert, RotateInsert, InsertRow, Revoke, table, Inductive, TypeOK
<1>3. ASSUME NEW r \in Requests,
             \/ CreateCount(r) \/ CreateFinish(r) \/ RotateLoad(r) \/ RotateFinish(r)
             \/ InsertScope(r) \/ VerifyLookup(r) \/ VerifyTouch(r) \/ List(r)
             \/ StatementFails(r) \/ ReadCutShort(r) \/ Client(r)
      PROVE  FALSE
  BY <1>3 DEF CreateCount, CreateFinish, RotateLoad, RotateFinish, InsertScope, VerifyLookup,
              VerifyTouch, List, StatementFails, ReadCutShort, LoadOld, Client, Arrive, Cancel,
              Deliver, LoseReply, table
<1>4. CASE Tick \/ Restart \/ Acquire \/ UNCHANGED vars
  BY <1>4 DEF Tick, Restart, Acquire, vars, table
<1> QED BY <1>1, <1>2, <1>3, <1>4 DEF Next, Handler

LEMMA GraceRecordedStep ==
    ASSUME GraceHours < HalfWord, Inductive, Touchable, GraceRecorded, [HNext]_hvars
    PROVE  GraceRecorded'
<1>0. [Next]_vars
  BY DEF HNext, hvars
<1> SUFFICES ASSUME NEW k \in Keys, status'[k] = "deprecated"
             PROVE  /\ rotatedAt'[k] \in Int
                    /\ expires'[k] = IF rotatedAt'[k] + GraceHours \in Readable
                                     THEN rotatedAt'[k] + GraceHours ELSE Null
  BY DEF GraceRecorded
<1>1. CASE status[k] = "deprecated"
  <2>1. rotatedAt'[k] = rotatedAt[k]
    BY <1>1 DEF HNext, hvars
  <2>2. expires'[k] = expires[k]
    BY <1>0, <1>1, AgesStep DEF Ages, Issued
  <2> QED BY <1>1, <2>1, <2>2 DEF GraceRecorded
<1>2. CASE status[k] # "deprecated"
  <2>1. status[k] = "active" /\ expires'[k] = StoredExpiry
    BY <1>0, <1>2, DeprecatedByRotation
  <2>2. rotatedAt'[k] = now
    BY <2>1 DEF HNext, hvars, vars, table
  <2>3. GraceEnd = now + GraceHours /\ now \in Int
    BY DEF GraceEnd, AsI64, Inductive, TypeOK
  <2> QED BY <2>1, <2>2, <2>3 DEF StoredExpiry
<1> QED BY <1>1, <1>2

LEMMA GraceRecordedHolds ==
    ASSUME GraceHours < HalfWord PROVE HSpec => []GraceRecorded
<1>1. HInit => GraceRecorded
  BY DEF HInit, Init, GraceRecorded
<1>2. Inductive /\ Touchable /\ GraceRecorded /\ [HNext]_hvars => GraceRecorded'
  BY GraceRecordedStep
<1> QED BY <1>1, <1>2, HistoryRestrictsNothing, PTL DEF HSpec

(* When the grace period is short enough for rotate_key's cast to i64, a rotated
   key works until the end of it, unless it is revoked. *)
THEOREM GraceIsHonoured ==
    ASSUME GraceHours < HalfWord PROVE HSpec => []GraceHonoured
<1>1. Inductive /\ GraceRecorded => GraceHonoured
  <2> SUFFICES ASSUME Inductive, GraceRecorded, NEW k \in Issued, status[k] = "deprecated",
                      now <= rotatedAt[k] + GraceHours
               PROVE  Usable(k)
    BY DEF GraceHonoured
  <2>1. now \in Int /\ GraceHours \in Int
    BY NumbersAssumption DEF Inductive, TypeOK
  <2> QED BY <2>1 DEF GraceRecorded, Usable, Expired, Issued
<1> QED BY <1>1, GraceRecordedHolds, HistoryRestrictsNothing, PTL

(* ... and not longer, unless its end has no text that parses back. *)
THEOREM GraceIsOver ==
    ASSUME GraceHours < HalfWord PROVE HSpec => []GraceEnds
<1>1. Inductive /\ GraceRecorded => GraceEnds
  <2> SUFFICES ASSUME Inductive, GraceRecorded, NEW k \in Issued, status[k] = "deprecated",
                      now > rotatedAt[k] + GraceHours
               PROVE  ~Usable(k) \/ expires[k] = Null
    BY DEF GraceEnds
  <2>1. now \in Int /\ GraceHours \in Int
    BY NumbersAssumption DEF Inductive, TypeOK
  <2> QED BY <2>1 DEF GraceRecorded, Usable, Expired, Issued
<1> QED BY <1>1, GraceRecordedHolds, HistoryRestrictsNothing, PTL

-----------------------------------------------------------------------------
(* Linearizability of verify_api_key *)

(* A key that was issued only gets worse; no key stays no key. *)
LEMMA StandsAges ==
    ASSUME Inductive, Touchable, [Next]_vars, NEW k \in Issued \cup {NoKey}
    PROVE  /\ Stands(k) \in Statuses /\ Stands(k)' \in Statuses
           /\ Rank[Stands(k)] <= Rank[Stands(k)']
           /\ ~Usable(k) => ~Usable(k)'
<1>1. CASE k = NoKey
  BY <1>1, KeysAssumption, RankOrder DEF Stands, Usable, Issued, Statuses
<1>2. CASE k \in Issued
  <2>1. k \in Keys /\ status[k] \in Statuses /\ status'[k] \in Statuses /\ Ages(k)
    BY <1>2, AgesStep, TypeStep DEF Issued, Inductive, TypeOK
  <2>2. now \in Nat /\ now' \in Nat /\ now <= now'
    <3>1. ASSUME NEW r \in Requests, Handler(r) \/ StatementFails(r) \/ ReadCutShort(r)
          PROVE  now' = now
      BY <3>1, HandlerShape DEF Goto, Return
    <3>2. now' = now \/ now' = now + 1
      BY <3>1 DEF Next, vars, Tick, Restart, Acquire, Client, Arrive, Cancel, Deliver, LoseReply
    <3> QED BY <3>2 DEF Inductive, TypeOK
  <2>3. Rank[status[k]] <= Rank[status'[k]]
    BY <2>1, RankOrder DEF Ages
  <2>4. expires[k] # Null => expires[k] \in Int
    BY <2>1, NumbersAssumption DEF Inductive, TypeOK
  <2>5. ASSUME ~Usable(k) PROVE ~Usable(k)'
    <3>1. CASE status[k] = "revoked"
      <4>1. status'[k] = "revoked"
        BY <2>1, <2>3, <3>1 DEF Rank, Statuses
      <4> QED BY <4>1 DEF Usable
    <3>2. CASE Expired(k)
      <4>1. status'[k] \in {"deprecated", "revoked"} /\ expires'[k] = expires[k]
        BY <2>1, <2>3, <3>2 DEF Rank, Statuses, Expired, Ages
      <4> QED BY <2>2, <2>4, <3>2, <4>1 DEF Usable, Expired
    <3> QED BY <1>2, <2>5, <3>1, <3>2 DEF Usable
  <2>6. Rank[Stands(k)] <= Rank[Stands(k)']
    BY <2>1, <2>3, <2>5, RankOrder DEF Stands, Statuses
  <2> QED BY <2>1, <2>5, <2>6 DEF Stands, Statuses
<1> QED BY <1>1, <1>2

LEMMA IssuedGrows ==
    ASSUME Inductive, Touchable, [Next]_vars PROVE Issued \subseteq Issued'
<1> SUFFICES ASSUME NEW k \in Issued PROVE k \in Issued'
  OBVIOUS
<1>1. k \in Keys /\ status[k] # "none" /\ status[k] \in Statuses /\ status'[k] \in Statuses
  BY TypeStep DEF Issued, Inductive, TypeOK
<1>2. Rank[status'[k]] >= Rank[status[k]]
  BY AgesStep DEF Ages
<1> QED BY <1>1, <1>2 DEF Rank, Statuses, Issued

(* What is true of a verification from its arrival to its answer: the key it
   presents has been issued, and has got no better since it arrived. *)
Asked(r) ==
    LET k == job[r].key IN
    /\ job[r].op = "verify" => k \in Issued \cup {NoKey}
    /\ pc[r] \in {"lookup", "touch"} => job[r].op = "verify"
    /\ pc[r] \in {"waiting", "lookup"} /\ job[r].op = "verify" =>
           Rank[arrivedAs[r]] <= Rank[Stands(k)]
    /\ pc[r] = "touch" => /\ Rank[arrivedAs[r]] <= Rank[seen[r]]
                          /\ Rank[seen[r]] <= Rank[status[k]]

Judged(r) ==
    /\ reply[r].kind = "valid" => /\ Rank[arrivedAs[r]] <= Rank[reply[r].seen]
                                  /\ \A k \in reply[r].keys : Rank[reply[r].seen] <= Rank[status[k]]
    /\ reply[r].kind = "invalid" => /\ job[r].op = "verify"
                                    /\ ~Usable(job[r].key)

Recorded == arrivedAs \in [Requests -> Statuses]
Linear == Recorded /\ known \subseteq Issued /\ \A r \in Requests : Asked(r) /\ Judged(r)

LEMMA RecordedStep ==
    ASSUME Inductive, Touchable, Linear, [HNext]_hvars PROVE Recorded'
<1>1. \A r \in Requests : Stands(job'[r].key) \in Statuses
  BY TypeStep DEF Stands, Usable, Issued, Inductive, TypeOK, Statuses
<1>2. CASE HNext
  BY <1>1, <1>2 DEF HNext, Recorded, Linear, Statuses
<1>3. CASE UNCHANGED hvars
  BY <1>3 DEF hvars, Recorded, Linear
<1> QED BY <1>2, <1>3

LEMMA KnownStep ==
    ASSUME Inductive, Touchable, Answers, known \subseteq Issued, [Next]_vars
    PROVE  known' \subseteq Issued'
<1>1. CASE known' = known
  BY <1>1, IssuedGrows
<1>2. ASSUME NEW r \in Requests, Deliver(r) PROVE known' \subseteq Issued'
  <2>1. reply[r].kind \in {"created", "rotated"} => reply[r].keys \subseteq Issued
    BY DEF Answers, Tells, Telling
  <2>2. known' \subseteq Issued
    BY <1>2, <2>1 DEF Deliver
  <2> QED BY <2>2, IssuedGrows
<1>3. ASSUME NEW r \in Requests, Handler(r) \/ StatementFails(r) \/ ReadCutShort(r)
      PROVE  known' = known
  BY <1>3, HandlerShape DEF Goto, Return
<1>4. \/ known' = known
      \/ \E r \in Requests : Deliver(r)
  BY <1>3 DEF Next, Client, Tick, Restart, Acquire, Arrive, Cancel, LoseReply, vars
<1> QED BY <1>1, <1>2, <1>4

(* A request that a step leaves alone, or only moves to its first statement. *)
LEMMA AskedKept ==
    ASSUME Inductive, Touchable, Answers, Linear, [Next]_vars, NEW r \in Requests,
           job'[r] = job[r], reply'[r] = reply[r], arrivedAs'[r] = arrivedAs[r],
           pc'[r] = "touch" => pc[r] = "touch" /\ UNCHANGED <<status, seen>>,
           pc'[r] = "lookup" => (pc[r] = "waiting" /\ job[r].op = "verify") \/ pc[r] = "lookup",
           pc'[r] = "waiting" => pc[r] = "waiting"
    PROVE  Asked(r)' /\ Judged(r)'
<1> DEFINE k == job[r].key
<1>1. Asked(r) /\ Judged(r) /\ arrivedAs[r] \in Statuses
  BY DEF Linear, Recorded
<1>2. job[r].op = "verify" => k \in Issued \cup {NoKey} /\ k \in Issued' \cup {NoKey}
  BY <1>1, IssuedGrows DEF Asked
<1>3. job[r].op = "verify" => /\ Rank[Stands(k)] <= Rank[Stands(k)']
                              /\ Stands(k) \in Statuses /\ Stands(k)' \in Statuses
                              /\ ~Usable(k) => ~Usable(k)'
  BY <1>2, StandsAges
<1>4. ASSUME NEW a, NEW b, NEW c, a \in Statuses, b \in Statuses, c \in Statuses,
             Rank[a] <= Rank[b], Rank[b] <= Rank[c]
      PROVE  Rank[a] <= Rank[c]
  BY <1>4, RankOrder
<1>5. Asked(r)'
  BY <1>1, <1>2, <1>3, <1>4 DEF Asked
<1>6. ASSUME reply[r].kind = "valid", NEW j \in reply[r].keys
      PROVE  Rank[reply[r].seen] <= Rank[status'[j]]
  <2>1. j \in Issued /\ reply[r].seen \in Statuses
    BY <1>6 DEF Answers, Tells, Telling, Inductive, TypeOK, Reply
  <2>2. status[j] \in Statuses /\ status'[j] \in Statuses /\ Rank[status[j]] <= Rank[status'[j]]
    BY <2>1, AgesStep, TypeStep, RankOrder DEF Ages, Issued, Inductive, TypeOK
  <2> QED BY <1>1, <1>4, <1>6, <2>1, <2>2 DEF Judged
<1>7. Judged(r)'
  BY <1>1, <1>3, <1>6 DEF Judged
<1> QED BY <1>5, <1>7

(* Outside the handlers only the key a verification presents matters. *)
LEMMA AskedIdle ==
    ASSUME Inductive, Touchable, Linear, [Next]_vars, NEW r \in Requests,
           pc'[r] = "idle", job'[r] \in {job[r], NoJob}, reply'[r].kind \notin {"valid", "invalid"}
    PROVE  Asked(r)' /\ Judged(r)'
<1>1. job'[r].op = "verify" => job'[r].key \in Issued' \cup {NoKey}
  BY IssuedGrows DEF Linear, Asked, NoJob
<1> QED BY <1>1 DEF Asked, Judged

LEMMA ArrivedKept ==
    ASSUME [HNext]_hvars, NEW r \in Requests, pc[r] # "idle", pc'[r] # "idle"
    PROVE  arrivedAs'[r] = arrivedAs[r]
BY DEF HNext, hvars

LEMMA LeftAlone ==
    ASSUME Inductive, Touchable, Answers, Linear, [HNext]_hvars, NEW r \in Requests,
           pc'[r] = pc[r], job'[r] = job[r], reply'[r] = reply[r],
           pc[r] = "touch" => UNCHANGED <<status, seen>>
    PROVE  Asked(r)' /\ Judged(r)'
<1>1. [Next]_vars
  BY DEF HNext, hvars
<1>2. CASE pc[r] = "idle"
  BY <1>1, <1>2, AskedIdle DEF Answers, Silent
<1>3. CASE pc[r] # "idle"
  BY <1>1, <1>3, ArrivedKept, AskedKept
<1> QED BY <1>2, <1>3

LEMMA ReturnedElse ==
    ASSUME Inductive, Touchable, Linear, [Next]_vars, NEW r \in Requests, NEW answer,
           Return(r, answer), answer.kind \notin {"valid", "invalid"}
    PROVE  Asked(r)' /\ Judged(r)'
<1>1. /\ pc'[r] \in {"idle", "replied"} /\ job'[r] \in {job[r], NoJob} /\ reply'[r] = answer
  BY DEF Return, Inductive, TypeOK
<1>2. job'[r].op = "verify" => job'[r].key \in Issued' \cup {NoKey}
  BY <1>1, IssuedGrows DEF Linear, Asked, NoJob
<1> QED BY <1>1, <1>2 DEF Asked, Judged

LEMMA VerifyStep ==
    ASSUME Inductive, Touchable, Answers, Linear, [HNext]_hvars, NEW r \in Requests,
           VerifyLookup(r) \/ VerifyTouch(r)
    PROVE  Asked(r)' /\ Judged(r)'
<1> DEFINE k == job[r].key
<1>0. [Next]_vars
  BY DEF HNext, hvars
<1>1. k \in Issued \cup {NoKey} /\ k \in Issued' \cup {NoKey} /\ job[r].op = "verify"
  BY <1>0, IssuedGrows DEF VerifyLookup, VerifyTouch, Linear, Asked
<1>2. CASE VerifyLookup(r) /\ Usable(k)
  <2>1. /\ seen'[r] = status[k] /\ pc'[r] = "touch" /\ job' = job /\ reply' = reply
        /\ status' = status /\ pc[r] = "lookup"
    BY <1>2 DEF VerifyLookup, Goto, Return, table, Inductive, TypeOK
  <2>2. Stands(k) = status[k] /\ Rank[status[k]] \in Nat
    BY <1>2, RankOrder DEF Stands, Usable, Issued, Inductive, TypeOK
  <2>3. arrivedAs'[r] = arrivedAs[r] /\ Rank[arrivedAs[r]] <= Rank[status[k]]
    BY <1>1, <2>1, <2>2, ArrivedKept DEF Linear, Asked
  <2>4. Asked(r)'
    BY <1>1, <2>1, <2>2, <2>3 DEF Asked
  <2>5. Judged(r)'
    <3>1. Judged(r) /\ reply[r].kind # "invalid"
      BY <1>2 DEF Linear, Judged
    <3> QED BY <2>1, <2>3, <3>1 DEF Judged
  <2> QED BY <2>4, <2>5
<1>3. CASE VerifyLookup(r) /\ ~Usable(k)
  <2>1. /\ pc'[r] = "replied" /\ job'[r] = job[r] /\ reply'[r].kind = "invalid"
    BY <1>3 DEF VerifyLookup, Return, Said, Inductive, TypeOK
  <2>2. ASSUME NEW x, x = k PROVE ~Usable(x)'
    BY <1>0, <1>1, <1>3, <2>2, StandsAges
  <2>3. ~Usable(k)'
    BY <2>1, <2>2 DEF Usable, Expired, Issued
  <2> QED BY <1>1, <2>1, <2>3 DEF Asked, Judged
<1>4. CASE VerifyTouch(r)
  <2>1. /\ pc'[r] = "replied" /\ job'[r] = job[r] /\ status' = status
        /\ reply'[r].kind = "valid" /\ reply'[r].keys = {k} /\ reply'[r].seen = seen[r]
        /\ pc[r] = "touch"
    BY <1>4 DEF VerifyTouch, Return, Told, Inductive, TypeOK
  <2>2. /\ arrivedAs'[r] = arrivedAs[r]
        /\ Rank[arrivedAs[r]] <= Rank[seen[r]] /\ Rank[seen[r]] <= Rank[status[k]]
    BY <2>1, ArrivedKept DEF Linear, Asked
  <2> QED BY <1>1, <2>1, <2>2 DEF Asked, Judged
<1> QED BY <1>2, <1>3, <1>4

LEMMA HandlerLinear ==
    ASSUME ~Faults, Inductive, Touchable, Answers, Linear, [HNext]_hvars, NEW r \in Requests,
           Handler(r) \/ StatementFails(r) \/ ReadCutShort(r)
    PROVE  Asked(r)' /\ Judged(r)'
<1>0. [Next]_vars /\ pc[r] # "idle"
  BY HandlerShape DEF HNext, hvars, Steps
<1>1. ASSUME NEW answer, Return(r, answer), answer.kind \notin {"valid", "invalid"}
      PROVE  Asked(r)' /\ Judged(r)'
  BY <1>0, <1>1, ReturnedElse
<1>2. ASSUME NEW kind, Return(r, Said(kind)), kind \notin {"valid", "invalid"}
      PROVE  Asked(r)' /\ Judged(r)'
  BY <1>1, <1>2 DEF Said
<1>3. ASSUME NEW kind, NEW k, NEW S, NEW st, Return(r, Told(kind, k, S, st)),
             kind \notin {"valid", "invalid"}
      PROVE  Asked(r)' /\ Judged(r)'
  BY <1>1, <1>3 DEF Told
<1>4. ASSUME NEW step \in {"insert", "deprecate", "scopes"}, Goto(r, step)
      PROVE  Asked(r)' /\ Judged(r)'
  <2>1. pc'[r] = step /\ job' = job /\ reply' = reply
    BY <1>4 DEF Goto, Inductive, TypeOK
  <2> QED BY <1>0, <1>4, <2>1, ArrivedKept, AskedKept
<1>5. CASE CreateCount(r) \/ CreateInsert(r) \/ CreateFinish(r)
  BY <1>2, <1>3, <1>4, <1>5 DEF CreateCount, CreateInsert, CreateFinish, InsertRow
<1>6. CASE RotateLoad(r) \/ RotateDeprecate(r) \/ RotateInsert(r) \/ RotateFinish(r)
  BY <1>2, <1>3, <1>4, <1>6
     DEF RotateLoad, LoadOld, RotateDeprecate, RotateInsert, RotateFinish, InsertRow
<1>7. CASE InsertScope(r) \/ Revoke(r)
  BY <1>2, <1>3, <1>4, <1>7 DEF InsertScope, Revoke
<1>8. CASE List(r)
  BY <1>1, <1>8 DEF List, Listed, Said
<1> QED BY <1>5, <1>6, <1>7, <1>8, VerifyStep DEF Handler, StatementFails, ReadCutShort

LEMMA ClientLinear ==
    ASSUME Inductive, Touchable, Answers, Linear, [HNext]_hvars, NEW r \in Requests, Client(r)
    PROVE  Asked(r)' /\ Judged(r)'
<1>0. [Next]_vars
  BY DEF HNext, hvars
<1>1. ASSUME NEW j \in Asks, Arrive(r, j) PROVE Asked(r)' /\ Judged(r)'
  <2>1. j.op = "verify" => j.key \in Issued \cup {NoKey} /\ j.key \in Issued' \cup {NoKey}
    <3>1. j.op = "verify" => j.key \in known \cup {NoKey}
      BY DEF Asks
    <3> QED BY <1>0, <3>1, IssuedGrows DEF Linear
  <2>2. /\ pc[r] = "idle" /\ pc'[r] \in {"waiting", "replied"} /\ job'[r] = j
        /\ reply'[r].kind \notin {"valid", "invalid"}
    BY <1>1 DEF Arrive, Said, Answers, Silent, Inductive, TypeOK
  <2>3. j.op = "verify" => arrivedAs'[r] = Stands(j.key)
    BY <2>2 DEF HNext, hvars, vars
  <2>4. j.op = "verify" => Rank[Stands(j.key)] <= Rank[Stands(j.key)']
    BY <1>0, <2>1, StandsAges
  <2> QED BY <2>1, <2>2, <2>3, <2>4 DEF Asked, Judged
<1>2. CASE Cancel(r) \/ Deliver(r) \/ LoseReply(r)
  <2>1. pc'[r] = "idle" /\ job'[r] = NoJob /\ reply'[r].kind \notin {"valid", "invalid"}
    BY <1>2 DEF Cancel, Deliver, LoseReply, Said, Answers, Silent, Inductive, TypeOK
  <2> QED BY <1>0, <2>1, AskedIdle
<1> QED BY <1>1, <1>2 DEF Client

LEMMA LinearStep ==
    ASSUME ~Faults, Inductive, Touchable, Answers, Queued, Linear, [HNext]_hvars
    PROVE  Linear'
<1>0. [Next]_vars
  BY DEF HNext, hvars
<1>1. Recorded' /\ known' \subseteq Issued'
  BY <1>0, RecordedStep, KnownStep DEF Linear
<1>2. CASE Tick \/ UNCHANGED vars
  BY <1>1, <1>2, LeftAlone DEF Tick, vars, table, locals, Linear
<1>3. CASE Acquire
  <2>1. PICK r \in Requests : r = queue[NextInLine] /\ pc[r] = "waiting"
    BY <1>3 DEF Acquire, Grantable, NextInLine, Queued, Inductive, TypeOK
  <2>2. /\ UNCHANGED <<status, seen, job, reply>>
        /\ \A q \in Requests : q # r => pc'[q] = pc[q]
        /\ pc'[r] = FirstStep[job[r].op]
    BY <1>3, <2>1 DEF Acquire, table, locals, Inductive, TypeOK
  <2>3. job[r].op \in {"create", "rotate", "revoke", "verify", "list"}
    BY DEF Inductive, TypeOK, Job
  <2>4. Asked(r)' /\ Judged(r)'
    <3>1. /\ pc'[r] \notin {"idle", "touch", "waiting"}
          /\ pc'[r] = "lookup" => job[r].op = "verify"
      BY <2>2, <2>3 DEF FirstStep
    <3>2. arrivedAs'[r] = arrivedAs[r]
      BY <2>1, <3>1, ArrivedKept
    <3> QED BY <1>0, <2>1, <2>2, <3>1, <3>2, AskedKept
  <2>5. \A q \in Requests : q # r => Asked(q)' /\ Judged(q)'
    BY <2>2, LeftAlone
  <2> QED BY <1>1, <2>4, <2>5 DEF Linear
<1>4. ASSUME NEW r \in Requests, Client(r) PROVE Linear'
  <2>1. ASSUME NEW q \in Requests, q # r PROVE Asked(q)' /\ Judged(q)'
    <3>1. /\ pc'[q] = pc[q] /\ job'[q] = job[q] /\ reply'[q] = reply[q]
          /\ UNCHANGED <<status, seen>>
      BY <1>4, <2>1
         DEF Client, Arrive, Cancel, Deliver, LoseReply, table, locals, Inductive, TypeOK
    <3> QED BY <3>1, LeftAlone
  <2> QED BY <1>1, <1>4, <2>1, ClientLinear DEF Linear
<1>5. ASSUME NEW r \in Requests, Handler(r) \/ StatementFails(r) \/ ReadCutShort(r) PROVE Linear'
  <2>1. ASSUME NEW q \in Requests, q # r PROVE Asked(q)' /\ Judged(q)'
    BY <1>5, <2>1, OthersStill, LeftAlone DEF Steps
  <2> QED BY <1>1, <1>5, <2>1, HandlerLinear DEF Linear
<1> QED BY <1>0, <1>2, <1>3, <1>4, <1>5 DEF Next, Restart

(* With no failing statement, the answer to a verification is true of a moment
   between the arrival of the request and the answer: whatever was created,
   rotated, revoked or expired meanwhile. *)
THEOREM VerifyIsLinearizable ==
    ASSUME ~Faults PROVE HSpec => []VerifyLinearizable
<1>1. HInit => Linear
  BY DEF HInit, Init, Linear, Recorded, Asked, Judged, NoJob, Said, Statuses
<1>2. Inductive /\ Touchable /\ Answers /\ Queued /\ Linear /\ [HNext]_hvars => Linear'
  BY LinearStep
<1>3. Linear => VerifyLinearizable
  BY DEF Linear, Judged, VerifyLinearizable
<1> QED BY <1>1, <1>2, <1>3, HistoryRestrictsNothing, PTL DEF HSpec

=============================================================================
