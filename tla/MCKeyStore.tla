----------------------------- MODULE MCKeyStore -----------------------------
(***************************************************************************)
(* Instances of KeyStore for TLC: three keys, so that one can be rotated   *)
(* while another is created, of which two share a prefix.                  *)
(***************************************************************************)
EXTENDS KeyStore, TLC

CONSTANTS k1, k2, k3, s1

\* k1 and k2 begin alike, as does the stray token.
MCShared == (k1 :> "p") @@ (k2 :> "p") @@ (k3 :> "q") @@ (s1 :> "p")

MCAdmins == Permutations(Admin)

=============================================================================
