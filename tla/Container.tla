------------------------------ MODULE Container ------------------------------
(***************************************************************************)
(* The life of a server in its Docker container: emr up, emr down and the  *)
(* commands that need the admin secret, run by several operators; the .env *)
(* file they share; the container named emr and the server in it, which on *)
(* SIGTERM finishes the requests it has accepted.                          *)
(*                                                                         *)
(* Docker and the kernel are external: names are unique, docker rm refuses *)
(* a running container, docker stop kills after its timeout, and process 1 *)
(* ignores a signal it has no handler for.  The image is taken to listen   *)
(* where docker forwards to.  Time is not counted.                         *)
(***************************************************************************)
EXTENDS Configuration, FiniteSets

CONSTANTS Configs,      \* what config.toml may come to
          Oper,         \* operators, one command at a time each
          Task,         \* HTTP requests at a time
          Secret,       \* what generate_secret may return
          Polls,        \* how often emr up asks for /health
          MaxTroubles,  \* bound: commands down, crashes and failures in a run
          Empty, NoFile

ASSUME ContainerAssumption ==
  /\ Configs \subseteq Config /\ Default \in Configs
  /\ Polls \in Nat \ {0} /\ MaxTroubles \in Nat
  /\ {Empty, NoFile} \cap Secret = {} /\ Empty # NoFile

VARIABLES file,      \* the .env file: missing, without a secret, or with one
          issued,    \* history: the secrets generated so far
          raced,     \* history: an emr up found no file while another, which had
                     \* found none, had not yet made it
          box,       \* the container emr: the secret and the configuration of
                     \* its server
          op,        \* the command of each operator
          inside,    \* the callers' requests at the server
          troubles

containerVars == <<file, issued, raced, box, op, inside, troubles>>

NoBox == [st |-> "none", secret |-> Empty, config |-> Default]

\* Where emr up and emr down may be: between two calls of docker or of the file
\* system; and where a command that needs the admin secret may be.
UpStage == {"clearing", "env", "making", "writing", "running", "polling"}

DownStage == {"killing", "stopping", "waiting", "removing"}

AdminStage == {"sending", "asking", "refused"}

OpState == [st : {"idle"} \cup UpStage \cup DownStage \cup AdminStage,
            polls : 0 .. Polls - 1, secret : Secret \cup {Empty}]

NoOp == [st |-> "idle", polls |-> 0, secret |-> Empty]

Init ==
  /\ file = NoFile /\ issued = {} /\ raced = FALSE
  /\ box = NoBox
  /\ op = [o \in Oper |-> NoOp]
  /\ inside = {}
  /\ troubles = 0

Running == box.st \in {"starting", "serving", "draining"}

Stopped == box.st \in {"created", "exited"}

Trouble == troubles < MaxTroubles /\ troubles' = troubles + 1

Goes(o, st) == op' = [op EXCEPT ![o].st = st]

Ends(o) == op' = [op EXCEPT ![o] = NoOp]

\* The server is no more: its connections break, and docker stop returns to
\* whoever waits, as docker kill does to those in also.
Exits(also) ==
  /\ box' = [box EXCEPT !.st = "exited"]
  /\ inside' = {}
  /\ op' = [o \in Oper |->
              CASE op[o].st = "waiting" \/ o \in also -> [op[o] EXCEPT !.st = "removing"]
                [] op[o].st = "asking" -> NoOp
                [] OTHER -> op[o]]

-----------------------------------------------------------------------------
(* emr up: nothing keeps two of them from running at once *)

\* Mutant: whatever container there is, it is taken for a running one.
AnyContainerWillDo(o) ==
  /\ op[o].st = "idle"
  /\ IF box.st = "none" THEN Goes(o, "env") ELSE UNCHANGED op
  /\ UNCHANGED <<file, issued, raced, box, inside, troubles>>

\* docker inspect: nothing to be done about a running container.
UpLooks(o) ==
  /\ op[o].st = "idle"
  /\ ~Running
  /\ Goes(o, IF Stopped THEN "clearing" ELSE "env")
  /\ UNCHANGED <<file, issued, raced, box, inside, troubles>>

\* docker rm: somebody else may have removed it.
UpClears(o) ==
  /\ op[o].st = "clearing"
  /\ IF Stopped THEN box' = NoBox /\ Goes(o, "env")
                ELSE Ends(o) /\ UNCHANGED box
  /\ UNCHANGED <<file, issued, raced, inside, troubles>>

\* Mutant: a secret for every container.
AlwaysNeeded == TRUE

\* A file is enough, whatever is in it.
SecretNeeded == file = NoFile

UpLooksForFile(o) ==
  /\ op[o].st = "env"
  /\ Goes(o, IF SecretNeeded THEN "making" ELSE "running")
  /\ raced' = (raced \/ (SecretNeeded /\ \E p \in Oper : op[p].st = "making"))
  /\ UNCHANGED <<file, issued, box, inside, troubles>>

\* std::fs::write opens the file, and empties it if there is one by now.
UpOpensFile(o) ==
  /\ op[o].st = "making"
  /\ \/ file' = Empty /\ Goes(o, "writing") /\ UNCHANGED troubles
     \/ Ends(o) /\ Trouble /\ UNCHANGED file
  /\ UNCHANGED <<issued, raced, box, inside>>

\* It fills the file; then its permissions are set.  Each may fail.
UpWrites(o) ==
  /\ op[o].st = "writing"
  /\ \/ /\ \E s \in Secret \ issued : file' = s /\ issued' = issued \cup {s}
        /\ \/ Goes(o, "running") /\ UNCHANGED troubles
           \/ Ends(o) /\ Trouble
     \/ Ends(o) /\ Trouble /\ UNCHANGED <<file, issued>>
  /\ UNCHANGED <<raced, box, inside>>

\* docker run, in a container that may be created and not start (the port).  The
\* file is one the server can start with, or the operator is in for trouble.
UpRuns(o) ==
  /\ op[o].st = "running"
  /\ \/ /\ box.st = "none"
        /\ \E c \in Configs :
             /\ box' = [st |-> "starting", secret |-> file, config |-> c]
             /\ IF Serviceable(c) THEN UNCHANGED troubles ELSE Trouble
        /\ op' = [op EXCEPT ![o].st = "polling", ![o].polls = 0]
     \/ /\ box.st = "none"
        /\ box' = [NoBox EXCEPT !.st = "created"]
        /\ Ends(o) /\ Trouble
     \/ box.st # "none" /\ Ends(o) /\ UNCHANGED <<box, troubles>>
  /\ UNCHANGED <<file, issued, raced, inside>>

\* A server that serves may say that a provider is down, which is no success.
UpPolls(o) ==
  /\ op[o].st = "polling"
  /\ \/ box.st = "serving" /\ Ends(o)
     \/ IF op[o].polls + 1 < Polls THEN op' = [op EXCEPT ![o].polls = @ + 1] ELSE Ends(o)
  /\ UNCHANGED <<file, issued, raced, box, inside, troubles>>

Up(o) ==
  UpClears(o) \/ UpLooksForFile(o) \/ UpOpensFile(o) \/ UpWrites(o) \/ UpRuns(o) \/ UpPolls(o)

-----------------------------------------------------------------------------
(* emr down *)

DownLooks(o, force) ==
  /\ op[o].st = "idle"
  /\ box.st # "none"
  /\ Trouble
  /\ Goes(o, IF force THEN "killing" ELSE "stopping")
  /\ UNCHANGED <<file, issued, raced, box, inside>>

\* docker kill, an error for a container that does not run.
DownKills(o) ==
  /\ op[o].st = "killing"
  /\ IF Running THEN Exits({o}) ELSE Ends(o) /\ UNCHANGED <<box, inside>>
  /\ UNCHANGED <<file, issued, raced, troubles>>

\* docker stop: SIGTERM, noticed by a server that serves.
DownStops(o) ==
  /\ op[o].st = "stopping"
  /\ CASE box.st = "none" -> Ends(o) /\ UNCHANGED box
       [] Stopped -> Goes(o, "removing") /\ UNCHANGED box
       [] Running -> /\ Goes(o, "waiting")
                     /\ box' = IF box.st = "serving" THEN [box EXCEPT !.st = "draining"] ELSE box
  /\ UNCHANGED <<file, issued, raced, inside, troubles>>

\* Mutant: docker stop is given no timeout.
WaitsOn(o) ==
  /\ op[o].st = "waiting"
  /\ UNCHANGED containerVars

\* The timeout of docker stop: SIGKILL.
TimesOut(o) ==
  /\ op[o].st = "waiting"
  /\ Exits({})
  /\ UNCHANGED <<file, issued, raced, troubles>>

DownRemoves(o) ==
  /\ op[o].st = "removing"
  /\ box' = IF Stopped THEN NoBox ELSE box
  /\ Ends(o)
  /\ UNCHANGED <<file, issued, raced, inside, troubles>>

Down(o) == DownKills(o) \/ DownStops(o) \/ TimesOut(o) \/ DownRemoves(o)

-----------------------------------------------------------------------------
(* The commands that need the admin secret: resolve_admin_secret falls back *)
(* on the file, and AdminAuth compares.  A flag or a variable is the        *)
(* operator's own affair.                                                   *)

AdminReads(o) ==
  /\ op[o].st = "idle" /\ file \in Secret
  /\ op' = [op EXCEPT ![o].st = "sending", ![o].secret = file]
  /\ UNCHANGED <<file, issued, raced, box, inside, troubles>>

\* The request is let in or refused with 401, by a server that listens.
AdminSends(o) ==
  /\ op[o].st = "sending"
  /\ IF box.st = "serving"
     THEN Goes(o, IF box.secret = op[o].secret THEN "asking" ELSE "refused")
     ELSE Ends(o)
  /\ UNCHANGED <<file, issued, raced, box, inside, troubles>>

AdminIsRefused(o) ==
  /\ op[o].st = "refused" /\ Ends(o)
  /\ UNCHANGED <<file, issued, raced, box, inside, troubles>>

\* The server replies, as it may never: the test of a provider waits for the
\* provider, and none of these commands has a timeout.
AdminIsAnswered(o) ==
  /\ op[o].st = "asking" /\ Ends(o)
  /\ UNCHANGED <<file, issued, raced, box, inside, troubles>>

Admin(o) == AdminSends(o) \/ AdminIsRefused(o)

-----------------------------------------------------------------------------
(* emr serve, process 1 of the container *)

\* Mutant: the variable may be missing.
NeedsNothing == TRUE

HasSecret == box.secret \in Secret

\* Configuration, secret, database, registry, multiplexer, listener.
ServerStarts ==
  /\ box.st = "starting"
  /\ IF HasSecret /\ Serviceable(box.config)
     THEN box' = [box EXCEPT !.st = "serving"] /\ UNCHANGED <<op, inside>>
     ELSE Exits({})
  /\ UNCHANGED <<file, issued, raced, troubles>>

\* Any of the others fails; or the server is killed later on.
ServerFails ==
  /\ Running /\ Trouble
  /\ Exits({})
  /\ UNCHANGED <<file, issued, raced>>

Accept(t) ==
  /\ box.st = "serving"
  /\ inside' = inside \cup {t}
  /\ UNCHANGED <<file, issued, raced, box, op, troubles>>

Answer(t) ==
  /\ inside' = inside \ {t}
  /\ UNCHANGED <<file, issued, raced, box, op, troubles>>

\* with_graceful_shutdown: connections end when their requests are answered.
Drained == inside = {} /\ \A o \in Oper : op[o].st # "asking"

ServerEnds ==
  /\ box.st = "draining" /\ Drained
  /\ Exits({})
  /\ UNCHANGED <<file, issued, raced, troubles>>

Next ==
  \/ \E o \in Oper :
       \/ UpLooks(o) \/ Up(o) \/ Down(o)
       \/ AdminReads(o) \/ Admin(o) \/ AdminIsAnswered(o)
       \/ \E force \in BOOLEAN : DownLooks(o, force)
  \/ ServerStarts \/ ServerFails \/ ServerEnds
  \/ \E t \in Task : Accept(t) \/ Answer(t)

Spec == Init /\ [][Next]_containerVars

\* emr up and emr down go on once begun, a request reaches a server or fails to,
\* the server's start goes on, and an operator tries again.  Nothing makes the
\* server answer, neither a caller nor an operator.
Fairness ==
  /\ \A o \in Oper : WF_containerVars(Up(o) \/ Down(o) \/ Admin(o))
  /\ WF_containerVars(ServerStarts)
  /\ SF_containerVars(\E o \in Oper : UpLooks(o))

FairSpec == Spec /\ Fairness

-----------------------------------------------------------------------------
(* Properties *)

\* Types; a server that serves has a secret to compare with.
ContainerTypeOK ==
  /\ file \in Secret \cup {Empty, NoFile} /\ issued \subseteq Secret /\ raced \in BOOLEAN
  /\ box \in [st : {"none", "created", "starting", "serving", "draining", "exited"},
              secret : Secret \cup {Empty}, config : Configs]
  /\ box.st \in {"serving", "draining"} => box.secret \in Secret
  /\ op \in [Oper -> OpState]
  /\ inside \subseteq Task
  /\ troubles \in 0 .. MaxTroubles

\* However many emr up overlap, fail half-way or meet each other's containers: an
\* operator who found the secret in the file is let in, unless two emr up once
\* found the file missing together: the one secret is then in the file and the
\* other perhaps in the server.
AdminLetIn == ~raced => \A o \in Oper : op[o].st # "refused"

\* emr up polls so many times and docker stop waits so long: the two commands end,
\* be it that the server never comes up or that a request, an operator's or a
\* caller's, is never answered.
CommandsEnd == \A o \in Oper : op[o].st \in UpStage \cup DownStage ~> op[o].st = "idle"

\* Whatever a failure, a crash, a half-finished down or other emr up left behind,
\* emr up run again brings the server back, if the server can start with its
\* configuration and the file has a secret and is not emptied by a late writer.
ServesAgain == file \in Secret ~> box.st = "serving" \/ file = Empty

\* The steps a command still has, at most.
StepsToGo(c) ==
  CASE c.st = "clearing" -> Polls + 5
    [] c.st = "env" -> Polls + 4
    [] c.st = "making" -> Polls + 3
    [] c.st = "writing" -> Polls + 2
    [] c.st = "running" -> Polls + 1
    [] c.st = "polling" -> Polls - c.polls
    [] c.st = "stopping" -> 3
    [] c.st \in {"killing", "waiting", "sending"} -> 2
    [] c.st \in {"removing", "asking", "refused"} -> 1
    [] OTHER -> 0

\* The safety part of CommandsEnd: whatever the server and the others do, they
\* leave a command where it is or bring it nearer to its end.
CommandsRunDown ==
  [][\A o \in Oper : op[o].st # "idle" =>
       op'[o] = op[o] \/ StepsToGo(op'[o]) < StepsToGo(op[o])]_containerVars

\* Unless two emr up found the file missing together, only one secret is ever
\* generated, however often emr up is run, and it is in the file for good.
OneSecret == ~raced => issued \subseteq {file}

SecretStays == [][~raced /\ file \in Secret => UNCHANGED <<file, issued>>]_containerVars

=============================================================================
