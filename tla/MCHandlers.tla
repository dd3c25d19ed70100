----------------------------- MODULE MCHandlers -----------------------------
(***************************************************************************)
(* An instance of Handlers for TLC: two registered providers and a name    *)
(* that is not one; every form of embed, and batches that are empty, good, *)
(* and bad at their last sub-request.                                      *)
(***************************************************************************)
EXTENDS Handlers

Embed(n, provider, providers, policy) ==
  [kind |-> "embed", n |-> n, provider |-> provider, providers |-> providers,
   policy |-> policy]

Batch(subs) == [kind |-> "batch", subs |-> subs]

Sub(n, providers) == [n |-> n, providers |-> providers]

MCBodies == {
  Embed(1, <<"a">>, <<<<"x">>>>, <<>>),
  Embed(1, <<"x">>, <<>>, <<>>),
  Embed(0, <<"a">>, <<>>, <<>>),
  Embed(1, <<>>, <<>>, <<>>),
  Embed(1, <<>>, <<<<>>>>, <<>>),
  Embed(2, <<>>, <<<<"a", "b">>>>, <<"all">>),
  Embed(1, <<>>, <<<<"b", "a">>>>, <<>>),
  Embed(1, <<>>, <<<<"a", "x">>>>, <<"all">>),
  Batch(<<>>),
  Batch(<<Sub(1, <<"a">>), Sub(2, <<"b", "x">>), Sub(1, <<"a">>)>>),
  Batch(<<Sub(0, <<"b">>), Sub(1, <<"a">>), Sub(1, <<"x", "a">>)>>),
  Batch(<<Sub(1, <<"b">>), Sub(1, <<>>)>>)}

RateLimit(retry) == [kind |-> "rate_limited", retry |-> retry]

MCFailures ==
  {RateLimit(<<>>), RateLimit(<<1>>), RateLimit(<<4>>), [kind |-> "other", retry |-> <<>>]}

=============================================================================
