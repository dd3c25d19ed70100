---------------------------- MODULE Configuration ----------------------------
(***************************************************************************)
(* config.toml: what load_config makes of a file that leaves fields out,   *)
(* what emr config validate demands, which emr serve does not do, and what *)
(* of it the server cannot start without.  A field is known by its name    *)
(* without its section; a file with other fields is only warned about.     *)
(***************************************************************************)
EXTENDS Integers

Text == {"address", "colon", "plain", "blank"}

\* Texts by what is looked at: "colon" is one with a colon that is no address.
\* TOML has signed numbers, the fields have not: a file with a negative one is
\* refused; the multiplier alone is any number.
Config ==
  [bind : Text, path : Text,
   batch_window_ms : Nat, channel_capacity : Nat, initial_batch_size : Nat,
   success_streak_threshold : Nat,
   max_retries : Nat, per_attempt_cap_ms : Nat, cumulative_cap_ms : Nat,
   rolling_window_minutes : Nat, failure_threshold : Nat,
   sinbin_initial_seconds : Nat, sinbin_max_seconds : Nat, sinbin_multiplier : Int,
   recovery_probe_interval_seconds : Nat]

Default ==
  [bind |-> "address", path |-> "plain",
   batch_window_ms |-> 50, channel_capacity |-> 1024, initial_batch_size |-> 32,
   success_streak_threshold |-> 10,
   max_retries |-> 2, per_attempt_cap_ms |-> 15000, cumulative_cap_ms |-> 45000,
   rolling_window_minutes |-> 60, failure_threshold |-> 5,
   sinbin_initial_seconds |-> 30, sinbin_max_seconds |-> 600, sinbin_multiplier |-> 2,
   recovery_probe_interval_seconds |-> 30]

\* A file is a function on the fields it has.
Loaded(file) ==
  [f \in DOMAIN Default |-> IF f \in DOMAIN file THEN file[f] ELSE Default[f]]

Zeroes(c) ==
  \/ c.batch_window_ms = 0 \/ c.channel_capacity = 0
  \/ c.initial_batch_size = 0 \/ c.success_streak_threshold = 0
  \/ c.per_attempt_cap_ms = 0 \/ c.cumulative_cap_ms = 0
  \/ c.rolling_window_minutes = 0 \/ c.failure_threshold = 0
  \/ c.sinbin_initial_seconds = 0 \/ c.sinbin_max_seconds = 0
  \/ c.recovery_probe_interval_seconds = 0

\* validate_config
Valid(c) ==
  /\ c.bind \in {"address", "colon"} /\ c.path # "blank"
  /\ ~Zeroes(c)
  /\ c.per_attempt_cap_ms <= c.cumulative_cap_ms
  /\ c.sinbin_initial_seconds <= c.sinbin_max_seconds

\* A channel of no capacity panics, and a listener needs an address.
Serviceable(c) == c.channel_capacity > 0 /\ c.bind = "address"

-----------------------------------------------------------------------------
(* What the modules of the server assume of its configuration *)

SuitsMux(c) ==
  /\ c.channel_capacity \in Nat \ {0}
  /\ c.initial_batch_size \in Nat /\ c.success_streak_threshold \in Nat

SuitsRetry(c) ==
  /\ c.max_retries \in Nat
  /\ c.per_attempt_cap_ms \in Nat \ {0} /\ c.cumulative_cap_ms \in Nat \ {0}
  /\ c.per_attempt_cap_ms <= c.cumulative_cap_ms

\* All but the multiplier, of which nothing is demanded.
SuitsHealth(c) ==
  /\ c.failure_threshold \in Nat \ {0}
  /\ c.sinbin_initial_seconds \in Nat \ {0} /\ c.sinbin_max_seconds \in Nat \ {0}
  /\ c.recovery_probe_interval_seconds \in Nat \ {0}

=============================================================================
