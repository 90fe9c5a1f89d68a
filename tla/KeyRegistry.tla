---------------------------- MODULE KeyRegistry ----------------------------
(***************************************************************************)
(* What the key service promises, with every operation a single step: a    *)
(* registry of keys that are created within a quota, rotated, revoked and  *)
(* looked up.  KeyStore does each of these in several statements that can  *)
(* fail or be cut short; KeyStoreRefinement shows that this cannot be seen *)
(* unless something fails, and what is left behind when it does (Torn).    *)
(***************************************************************************)
EXTENDS Integers, FiniteSets

CONSTANTS
    Keys, Users, Scopes, Wildcards,
    MaxKeys,     \* how many keys of a user creation counts up to
    GraceHours,  \* how long a rotated key goes on working
    Readable,    \* the instants that can be written down as the end of it
    Torn,        \* whether operations may stop half-way
    NoKey, NoUser, Null

VARIABLES
    status, owner, lineage, expires,
    scopes,
    now

vars == <<status, owner, lineage, expires, scopes, now>>

Init ==
    /\ status = [k \in Keys |-> "none"]
    /\ owner = [k \in Keys |-> NoUser]
    /\ lineage = [k \in Keys |-> NoKey]
    /\ expires = [k \in Keys |-> Null]
    /\ scopes = [k \in Keys |-> {}]
    /\ now = 0

Live(u) == {k \in Keys : owner[k] = u /\ status[k] \in {"active", "deprecated"}}

(* The row of key k appears, complete. *)
Issue(k, u, l, S) ==
    /\ owner' = [owner EXCEPT ![k] = u]
    /\ lineage' = [lineage EXCEPT ![k] = l]
    /\ scopes' = [scopes EXCEPT ![k] = S]
    /\ UNCHANGED now

Create(k, u, S) ==
    /\ status[k] = "none"
    /\ Cardinality(Live(u)) < MaxKeys
    /\ S \cap Wildcards = {}
    /\ S # {} \/ Torn
    /\ status' = [status EXCEPT ![k] = "active"]
    /\ UNCHANGED expires
    /\ Issue(k, u, k, S)

(* The old key is given its grace, counted from a moment of the rotation; an
   end that cannot be written down is none. *)
End(t) == IF t + GraceHours \in Readable THEN t + GraceHours ELSE Null
Retire(old) ==
    /\ status[old] = "active"
    /\ \E t \in 0..now : expires' = [expires EXCEPT ![old] = End(t)]

Rotate(old, k, S) ==
    /\ status[k] = "none"
    /\ Retire(old)
    /\ S = scopes[old] \/ (Torn /\ S \subseteq scopes[old])
    /\ status' = [status EXCEPT ![old] = "deprecated", ![k] = "active"]
    /\ Issue(k, owner[old], lineage[old], S)

(* A rotation that stops after it retired the old key. *)
Strand(old) ==
    /\ Torn
    /\ Retire(old)
    /\ status' = [status EXCEPT ![old] = "deprecated"]
    /\ UNCHANGED <<owner, lineage, scopes, now>>

Revoke(k) ==
    /\ status[k] \in {"active", "deprecated"}
    /\ status' = [status EXCEPT ![k] = "revoked"]
    /\ UNCHANGED <<owner, lineage, expires, scopes, now>>

Tick ==
    /\ now' = now + 1
    /\ UNCHANGED <<status, owner, lineage, expires, scopes>>

Next ==
    \/ Tick
    \/ \E k \in Keys :
        \/ Revoke(k)
        \/ Strand(k)
        \/ \E S \in SUBSET Scopes :
            \/ \E u \in Users : Create(k, u, S)
            \/ \E old \in Keys : Rotate(old, k, S)

Spec == Init /\ [][Next]_vars

=============================================================================
