---------------------------- MODULE MCProviderFetch ----------------------------
(* Threads that fetch from one provider. *)
EXTENDS ProviderFetch
=============================================================================
