------------------------- MODULE MCCredentialRenewal -------------------------
(***************************************************************************)
(* A small instance of CredentialRenewal: an account in a file, and two of *)
(* other kinds that may be imported into it or into a new one.             *)
(***************************************************************************)
EXTENDS CredentialRenewal, TLC

CONSTANTS a1, a2, a3, f1, f2

EachKind == (a1 :> "oauth") @@ (a2 :> "legacy") @@ (a3 :> "permanent")
OneStored == (f1 :> a1) @@ (f2 :> Nobody)

=============================================================================
