------------------------------ MODULE MCAccess ------------------------------
(* Values and symmetries for model-checking Access. *)
EXTENDS Access, TLC

CONSTANTS k1, k2, k3, alice, bob, s1, s2, r1, r2, eva, corso, all

TwoKeys == {k1, k2}
OneUser == {alice}
TwoUsers == {alice, bob}
TwoSecrets == {s1, s2}
TwoRequests == {r1, r2}
TwoServices == {eva, corso}

S(service, permission) == [service |-> service, permission |-> permission]
\* A scope, the wildcard, none at all
SomeScopes == {{S(eva, "write")}, {S(all, "admin")}, {}}

\* Good only when made, and the last that fits a word with HalfWord = 8
EdgeLifetimes == {0, 7}
\* Ends of grace later than this cannot be read back, and never come.
FirstHour == {0}

\* One request from the administrators, one from the users of keys
OneEach == [r \in TwoRequests |->
              IF r = r1 THEN {"create", "rotate", "revoke"} ELSE {"consume"}]

Symmetry == Permutations(Keys) \cup Permutations(Secrets)

=============================================================================
