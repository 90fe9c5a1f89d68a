------------------------- MODULE MCKeyStoreHistory -------------------------
(* The instances of MCKeyStore for KeyStore with its history variables. *)
EXTENDS MCKeyStore, KeyStoreHistory

=============================================================================
