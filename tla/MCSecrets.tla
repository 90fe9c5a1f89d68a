----------------------------- MODULE MCSecrets -----------------------------
(* Environments for model-checking Secrets. *)
EXTENDS Secrets

AnyEnvironment == [pepper : {None, Given}, jwt : {None, Given, TooShort}]
=============================================================================
