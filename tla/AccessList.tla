----------------------------- MODULE AccessList -----------------------------
(***************************************************************************)
(* What the key store promises: a set of keys that are let in, of which a  *)
(* key is granted, withdrawn or replaced by another in one step and never  *)
(* comes back, so that an application keeps its access through every       *)
(* rotation; and callers who are told yes or no in one step, by the set as *)
(* it is at that moment.                                                   *)
(***************************************************************************)

CONSTANTS Key,       \* the keys that may ever be issued
          Token,     \* what callers present: keys, and strings that are none
          PrefixOf,  \* the first eight characters of a token
          Caller

VARIABLES active,    \* the keys that are let in
          past,      \* the keys that were, once
          line,      \* the first key of the application a key belongs to
          closed,    \* the applications whose access was withdrawn
          answer     \* what a caller was told: <<>> or <<token, verdict>>

listVars == <<active, past, line, closed, answer>>

ListInit ==
  /\ active = {} /\ past = {}
  /\ line = [k \in Key |-> k] /\ closed = {}
  /\ answer = [c \in Caller |-> <<>>]

Grant(k) ==
  /\ k \notin active \cup past
  /\ active' = active \cup {k}
  /\ UNCHANGED <<past, line, closed, answer>>

Withdraw(k) ==
  /\ k \in active
  /\ active' = active \ {k}
  /\ past' = past \cup {k}
  /\ closed' = closed \cup {line[k]}
  /\ UNCHANGED <<line, answer>>

\* Never none of the two, never both.
Replace(k, n) ==
  /\ k \in active
  /\ n \notin active \cup past
  /\ active' = (active \ {k}) \cup {n}
  /\ past' = past \cup {k}
  /\ line' = [line EXCEPT ![n] = line[k]]
  /\ UNCHANGED <<closed, answer>>

LetIn(c, t) ==
  /\ t \in active
  /\ answer' = [answer EXCEPT ![c] = <<t, TRUE>>]
  /\ UNCHANGED <<active, past, line, closed>>

\* Only a token that is not let in, or that another key stands in front of.
TurnAway(c, t) ==
  /\ t \in active => \E k \in active \ {t} : PrefixOf[k] = PrefixOf[t]
  /\ answer' = [answer EXCEPT ![c] = <<t, FALSE>>]
  /\ UNCHANGED <<active, past, line, closed>>

\* Callers come back with another request, or go away.
Forget(callers) ==
  /\ answer' = [c \in Caller |-> IF c \in callers THEN <<>> ELSE answer[c]]
  /\ UNCHANGED <<active, past, line, closed>>

ListNext ==
  \/ \E k \in Key : Grant(k) \/ Withdraw(k) \/ \E n \in Key : Replace(k, n)
  \/ \E c \in Caller, t \in Token : LetIn(c, t) \/ TurnAway(c, t)
  \/ \E callers \in SUBSET Caller : Forget(callers)

ListSpec == ListInit /\ [][ListNext]_listVars

=============================================================================
