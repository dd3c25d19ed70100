---------------------------- MODULE MCContainer ----------------------------
(***************************************************************************)
(* An instance of Container for TLC: the defaults, a file that sets one    *)
(* field to nothing, and one with an address nobody can listen on.         *)
(***************************************************************************)
EXTENDS Container, TLC

MCConfigs ==
  {Loaded(<<>>), Loaded("channel_capacity" :> 0), Loaded("bind" :> "colon")}

=============================================================================
