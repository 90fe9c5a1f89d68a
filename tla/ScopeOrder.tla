----------------------------- MODULE ScopeOrder -----------------------------
(***************************************************************************)
(* Scopes and what they grant (types.rs): pairs of a service, or the       *)
(* wildcard for all services, and a permission.  No state.                 *)
(***************************************************************************)
EXTENDS Naturals

CONSTANTS
    Services,   \* the variants of ServiceName that name one service
    All         \* ServiceName::All

ASSUME ServicesAssumption == All \notin Services

Permissions == {"read", "write", "admin"}
Scope == [service: Services \cup {All}, permission: Permissions]
Wildcards == {s \in Scope : s.service = All}

(* Permission::implies: admin implies write implies read. *)
Implies(p, q) ==
    \/ p = "admin"
    \/ p = "write" /\ q \in {"write", "read"}
    \/ p = "read" /\ q = "read"

(* Seeded fault: the service of the request is not looked at. *)
GrantsElsewhere(s, q) == Implies(s.permission, q.permission)
(* Scope::grants *)
Grants(s, q) ==
    /\ s.service = All \/ s.service = q.service
    /\ Implies(s.permission, q.permission)

(* ApiKeyPrincipal::has_scope, for the scopes S of a principal *)
HasScope(S, q) == \E s \in S : Grants(s, q)

-----------------------------------------------------------------------------
(* What a key was issued for, said without the code's case distinctions: the
   service by its name, and at least the level asked for. *)
Level == [read |-> 1, write |-> 2, admin |-> 3]
NamedIn(S, q) ==
    \E s \in S : s.service = q.service /\ Level[s.permission] >= Level[q.permission]

=============================================================================
