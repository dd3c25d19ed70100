------------------------------ MODULE Directory ------------------------------
(***************************************************************************)
(* What the router promises of its providers: a directory in which they    *)
(* are entered and struck out one at a time, and a server that is off or   *)
(* serves the whole directory as it was when the server was started.       *)
(***************************************************************************)

CONSTANTS Name, Row, NoRow

VARIABLES listed,   \* the row under each name, or none
          serving,  \* the same, as the running server knows it
          on        \* whether a server runs

directoryVars == <<listed, serving, on>>

Nothing == [n \in Name |-> NoRow]

DirectoryInit == listed = Nothing /\ serving = Nothing /\ on = FALSE

\* A name is entered once: what is there is never replaced.
Enter(n, row) ==
  /\ listed[n] = NoRow
  /\ listed' = [listed EXCEPT ![n] = row]
  /\ UNCHANGED <<serving, on>>

Strike(n) ==
  /\ listed[n] # NoRow
  /\ listed' = [listed EXCEPT ![n] = NoRow]
  /\ UNCHANGED <<serving, on>>

TurnOn ==
  /\ ~on /\ on' = TRUE
  /\ serving' = listed
  /\ UNCHANGED listed

TurnOff ==
  /\ on /\ on' = FALSE
  /\ serving' = Nothing
  /\ UNCHANGED listed

DirectoryNext ==
  \/ \E n \in Name : Strike(n) \/ \E row \in Row : Enter(n, row)
  \/ TurnOn \/ TurnOff

DirectorySpec == DirectoryInit /\ [][DirectoryNext]_directoryVars

=============================================================================
