-------------------------- MODULE KeyStoreHistory --------------------------
(***************************************************************************)
(* KeyStore with two history variables, for the properties that relate an  *)
(* answer to the moment its request arrived, and a deprecated key to the   *)
(* moment of its rotation.  They record; they restrict nothing.            *)
(***************************************************************************)
EXTENDS KeyStore

VARIABLES
    arrivedAs,  \* how the presented key stood when each verify arrived
    rotatedAt   \* when each key was deprecated

hvars == <<vars, arrivedAs, rotatedAt>>

Stands(k) == IF Usable(k) THEN status[k] ELSE "revoked"

HInit ==
    /\ Init
    /\ arrivedAs = [r \in Requests |-> "none"]
    /\ rotatedAt = [k \in Keys |-> Null]

HNext ==
    /\ Next
    /\ arrivedAs' = [r \in Requests |->
          CASE pc'[r] = "idle" -> "none"
            [] pc[r] = "idle" /\ job'[r].op = "verify" -> Stands(job'[r].key)
            [] OTHER -> arrivedAs[r]]
    /\ rotatedAt' = [k \in Keys |->
          IF status[k] = "active" /\ status'[k] = "deprecated" THEN now ELSE rotatedAt[k]]

HSpec == HInit /\ [][HNext]_hvars
HFairSpec == HSpec /\ Fairness

(* verify_api_key is linearizable: its answer is true of some moment between
   the arrival of the request and the answer.  Keys only age, so: a key called
   valid was usable on arrival, one called not deprecated was active then, one
   called deprecated is no longer active, and one called invalid cannot be used
   any more when the answer is given. *)
VerifyLinearizable ==
    \A r \in Requests :
        /\ reply[r].kind = "valid" =>
            /\ Rank[arrivedAs[r]] <= Rank[reply[r].seen]
            /\ \A k \in reply[r].keys : Rank[reply[r].seen] <= Rank[status[k]]
        /\ reply[r].kind = "invalid" => ~Usable(job[r].key)

(* The answer to a rotation says that the previous key remains valid during
   the grace period: until GraceHours have passed since the rotation only a
   revocation stops it, also if the clock advances while the handler runs. *)
GraceHonoured ==
    \A k \in Issued :
        status[k] = "deprecated" /\ now <= rotatedAt[k] + GraceHours => Usable(k)

(* ... and not a tick longer, unless the end of the grace was written as a text
   that does not parse: such a key never expires. *)
GraceEnds ==
    \A k \in Issued :
        status[k] = "deprecated" /\ now > rotatedAt[k] + GraceHours =>
            ~Usable(k) \/ expires[k] = Null

=============================================================================
