----------------------------- MODULE MCKeyStore -----------------------------
(* Values and symmetries for model-checking KeyStore and what it refines. *)
EXTENDS KeyStoreRefinement

CONSTANTS k1, k2, k3, k4, alice, bob, eve, read, write, star, r1, r2, r3

TwoKeys == {k1, k2}
ThreeKeys == {k1, k2, k3}
FourKeys == {k1, k2, k3, k4}
TwoPrincipals == {alice, eve}
OnePrincipal == {alice}
OneUser == {alice}
TwoUsers == {alice, bob}
ReadOrStar == {read, star}
ThreeScopes == {read, write, star}
Star == {star}
TwoRequests == {r1, r2}
ThreeRequests == {r1, r2, r3}

\* A scope list of each kind: usable, with a wildcard, empty
EachList == {<<read, write>>, <<read, star>>, <<>>}
OneList == {<<read>>}
PairList == {<<read, write>>}
EitherList == {<<read>>, <<write>>}
PairOrStar == {<<read, write>>, <<read, star>>}
\* The same scope twice
RepeatingLists == {<<read>>, <<read, read>>}

AllOps == {"create", "rotate", "revoke", "verify", "list"}
NoList == AllOps \ {"list"}
CreateRotate == {"create", "rotate"}
CreateRotateList == {"create", "rotate", "list"}
Writers == {"create", "rotate", "revoke"}
NoRevoke == {"create", "rotate", "verify"}

Hours == 0..10
AroundEpoch == -10..10
\* Ends of grace that can be read back, and that can be computed.
FirstHours == 0..1
FirstTwoHours == 0..2
FirstThreeHours == 0..3

Symmetry == Permutations(Keys) \cup Permutations(Requests) \cup Permutations(Users)

=============================================================================
