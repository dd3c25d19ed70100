---------------------------- MODULE MCProviders ----------------------------
(***************************************************************************)
(* An instance of Providers for TLC.  Limits and sizes are scaled down:    *)
(* two types, of which one takes a size the other does not.                *)
(***************************************************************************)
EXTENDS Providers, TLC

CONSTANTS voyage, cohere

MCLimit == (voyage :> 4) @@ (cohere :> 3)
MCSizes == {1, 2, 4}

=============================================================================
