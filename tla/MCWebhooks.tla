----------------------------- MODULE MCWebhooks -----------------------------
(* Values and symmetries for model-checking Webhooks. *)
EXTENDS Webhooks, TLC

CONSTANTS plain, torn, tornToo, s1, s2

ThreeBodies == {plain, torn, tornToo}
TwoTexts == {"plain", "replaced"}
\* Two bodies that are no UTF-8 read alike.
Lossy == [b \in ThreeBodies |-> IF b = plain THEN "plain" ELSE "replaced"]
TwoSecrets == {s1, s2}
\* The end of i64, and the first timestamp whose distance wraps at time 1
EdgeTimes == {-8, -7}

Symmetry == Permutations(TwoSecrets) \cup Permutations({torn, tornToo})

=============================================================================
