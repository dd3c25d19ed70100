------------------------------- MODULE MCMux -------------------------------
(***************************************************************************)
(* Instances of Mux for TLC: two providers, one with room for three texts  *)
(* and one for two, so that a request may fit one and not the other.       *)
(***************************************************************************)
EXTENDS MuxProperties, TLC

CONSTANTS a, b, r1, r2

MCProvider == {a, b}
MCHardMax == (a :> 3) @@ (b :> 2)
MCSymmetry == Permutations(Req)

Ask(n, ps, policy) == [n |-> n, providers |-> ps, policy |-> policy]

\* Both providers, under either policy, within limits.
MCTwoShapes == {Ask(1, <<a, b>>, "all"), Ask(2, <<b, a>>, "any"), Ask(1, <<b>>, "all")}

\* For liveness: enough to batch, to pre-flush and to fan out.
MCLive == {Ask(2, <<b>>, "any"), Ask(1, <<a, b>>, "all")}

\* One that fits neither, or only a; no texts; a provider named twice.
MCHard == {Ask(1, <<b>>, "any"), Ask(3, <<b>>, "any"), Ask(3, <<a, b>>, "all"),
           Ask(0, <<b>>, "any"), Ask(1, <<b, b>>, "any")}

MCOversized == {Ask(1, <<b>>, "any"), Ask(3, <<a, b>>, "all"), Ask(3, <<b>>, "any")}

=============================================================================
