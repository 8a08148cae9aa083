------------------------------ MODULE MCByocTLS ------------------------------
(* Instances of ByocTLS for TLC.                                             *)
EXTENDS ByocTLS
=============================================================================
