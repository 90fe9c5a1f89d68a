------------------------- MODULE KeyStoreRefinement -------------------------
(***************************************************************************)
(* KeyStore implements KeyRegistry: while a handler holds the mutex, what  *)
(* it has written so far is not seen by any other request.  A row under    *)
(* construction is shown as absent and a key whose rotation is under way   *)
(* as still active; both take effect when the handler gives up the mutex.  *)
(***************************************************************************)
EXTENDS KeyStore

Unfinished(k) == \E r \in Requests : new[r] = k
Rotating(k) == \E r \in Requests :
    job[r].op = "rotate" /\ job[r].key = k /\ pc[r] \in {"insert", "scopes"}

Shown(column, blank) == [k \in Keys |-> IF Unfinished(k) THEN blank ELSE column[k]]

Registry == INSTANCE KeyRegistry WITH
    Torn <- Faults,
    status <- [k \in Keys |-> IF Rotating(k) THEN "active"
                              ELSE Shown(status, "none")[k]],
    owner <- Shown(owner, NoUser),
    lineage <- Shown(lineage, NoKey),
    expires <- [k \in Keys |-> IF Rotating(k) THEN Null ELSE expires[k]],
    scopes <- Shown(scopes, {})

(* Every behaviour of the handlers, statement by statement, is a behaviour of
   a registry that creates, rotates and revokes in one step each. *)
RegistrySpec == Registry!Spec

=============================================================================
