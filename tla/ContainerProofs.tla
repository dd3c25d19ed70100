--------------------------- MODULE ContainerProofs ---------------------------
(***************************************************************************)
(* Theorems about modules Configuration and Container: what validation     *)
(* guarantees the modules of the server; that the admin secret in the file *)
(* is the one the server compares with, if no two emr up found the file    *)
(* missing together; and that every command of an operator runs down.      *)
(***************************************************************************)
EXTENDS Container, TLAPS

\* docs/configuration.md: "a zero-config start is valid".
THEOREM ZeroConfig == Valid(Loaded(<<>>)) /\ Serviceable(Loaded(<<>>))
<1> DEFINE c == Loaded(<<>>)
<1>1. DOMAIN <<>> = {}
  OBVIOUS
<1>2. \A f \in DOMAIN Default : c[f] = Default[f]
  BY <1>1 DEF Loaded
<1>3. /\ c.bind = "address" /\ c.path = "plain"
      /\ c.batch_window_ms = 50 /\ c.channel_capacity = 1024
      /\ c.initial_batch_size = 32 /\ c.success_streak_threshold = 10
      /\ c.per_attempt_cap_ms = 15000 /\ c.cumulative_cap_ms = 45000
      /\ c.rolling_window_minutes = 60 /\ c.failure_threshold = 5
      /\ c.sinbin_initial_seconds = 30 /\ c.sinbin_max_seconds = 600
      /\ c.recovery_probe_interval_seconds = 30
  BY <1>2 DEF Default
<1>4. QED
  BY <1>3 DEF Valid, Zeroes, Serviceable

\* A configuration that emr config validate accepts is one that the modules of
\* the server were checked with: all they assume of it but the multiplier, and
\* the server can start with it if it can listen where it is told to.
THEOREM ValidSuits ==
  ASSUME NEW c \in Config, Valid(c)
  PROVE  /\ SuitsMux(c) /\ SuitsRetry(c) /\ SuitsHealth(c)
         /\ Serviceable(c) <=> c.bind = "address"
BY DEF Config, Valid, Zeroes, Serviceable, SuitsMux, SuitsRetry, SuitsHealth

-----------------------------------------------------------------------------

USE DEF UpStage, DownStage, AdminStage

\* Nobody removes the file, and docker stop waits for a server that runs.
FileMade ==
  /\ \A o \in Oper : op[o].st \in {"writing", "running"} => file # NoFile
  /\ \A o \in Oper : op[o].st = "waiting" => Running

\* One emr up makes the file and fills it.
Alone ==
  /\ \A o, p \in Oper :
       op[o].st \in {"making", "writing"} /\ op[p].st \in {"making", "writing"} => o = p
  /\ \A o \in Oper : op[o].st = "making" => file = NoFile
  /\ \A o \in Oper : op[o].st = "writing" => file = Empty

OneMaker == ~raced => Alone

\* Whatever secret is anywhere was generated.
Known ==
  /\ file \in Secret => file \in issued
  /\ box.secret \in Secret => box.secret \in issued
  /\ \A o \in Oper : op[o].st = "sending" => op[o].secret \in issued

ContainerInv ==
  ContainerTypeOK /\ FileMade /\ OneMaker /\ OneSecret /\ Known /\ AdminLetIn

LEMMA Tellable == Empty \notin Secret /\ NoFile \notin Secret /\ Empty # NoFile
BY ContainerAssumption

\* While the file has a secret nobody makes it, and whoever makes or fills it is alone.
LEMMA AloneGives ==
  ASSUME Alone
  PROVE  /\ file \in Secret => \A o \in Oper : op[o].st \notin {"making", "writing"}
         /\ \A o \in Oper : op[o].st = "making" => file = NoFile
         /\ \A o \in Oper : op[o].st \in {"making", "writing"} =>
              \A p \in Oper \ {o} : op[p].st \notin {"making", "writing"}
<1>1. \A o \in Oper : op[o].st = "making" => file = NoFile
  BY DEF Alone
<1>2. \A o \in Oper : op[o].st = "writing" => file = Empty
  BY DEF Alone
<1>3. file \in Secret => \A o \in Oper : op[o].st \notin {"making", "writing"}
  BY <1>1, <1>2, Tellable
<1>4. \A o, p \in Oper :
        op[o].st \in {"making", "writing"} /\ op[p].st \in {"making", "writing"} => o = p
  BY DEF Alone
<1>5. QED
  BY <1>1, <1>3, <1>4

LEMMA ContainerInit == Init => ContainerInv
<1> SUFFICES ASSUME Init PROVE ContainerInv
  OBVIOUS
<1>1. ContainerTypeOK
  <2>1. NoOp \in OpState
    BY ContainerAssumption DEF NoOp, OpState
  <2>2. op \in [Oper -> OpState]
    BY <2>1 DEF Init
  <2>3. box \in [st : {"none"}, secret : {Empty}, config : Configs]
    BY ContainerAssumption DEF Init, NoBox
  <2>4. file = NoFile /\ issued = {} /\ inside = {} /\ troubles \in 0 .. MaxTroubles
    BY ContainerAssumption DEF Init
  <2>5. raced \in BOOLEAN
    BY DEF Init
  <2>6. QED
    BY <2>2, <2>3, <2>4, <2>5 DEF ContainerTypeOK
<1>2. FileMade /\ Alone /\ Known
  BY ContainerAssumption DEF Init, FileMade, Alone, Known, NoOp, NoBox
<1>3. issued = {} /\ \A o \in Oper : op[o].st # "refused"
  BY DEF Init, NoOp
<1>4. OneMaker /\ OneSecret /\ AdminLetIn
  BY <1>2, <1>3 DEF OneMaker, OneSecret, AdminLetIn
<1>5. QED
  BY <1>1, <1>2, <1>4 DEF ContainerInv

\* A command of one operator goes on, outside the making of the file, and may touch
\* the container, which stays up if it was up and has a secret that was generated.
LEMMA CommandKeeps ==
  ASSUME ContainerInv, NEW o \in Oper, UNCHANGED <<file, issued, raced, inside>>,
         troubles' \in 0 .. MaxTroubles,
         NEW c \in OpState, op' = [op EXCEPT ![o] = c],
         c.st \notin {"making", "writing"},
         c.st = "running" => file # NoFile,
         c.st = "waiting" => Running',
         c.st = "sending" => c.secret \in issued,
         c.st = "refused" => raced,
         box' \in [st : {"none", "created", "starting", "serving", "draining", "exited"},
                   secret : Secret \cup {Empty}, config : Configs],
         box'.st \in {"serving", "draining"} => box'.secret \in Secret,
         box'.secret \in Secret => box'.secret \in issued,
         Running => Running'
  PROVE  ContainerInv'
<1> USE DEF ContainerInv
<1>1. \A p \in Oper : op'[p] = op[p] \/ (p = o /\ op'[p] = c)
  BY DEF ContainerTypeOK
<1>2. ContainerTypeOK'
  BY DEF ContainerTypeOK
<1>3. FileMade'
  BY <1>1 DEF FileMade
<1>4. OneMaker'
  BY <1>1 DEF OneMaker, Alone
<1>5. OneSecret' /\ Known'
  BY <1>1 DEF OneSecret, Known
<1>6. AdminLetIn'
  BY <1>1 DEF AdminLetIn
<1>7. QED
  BY <1>2, <1>3, <1>4, <1>5, <1>6

\* The end of the server disturbs nobody but those who wait for it.
LEMMA ExitsKeeps ==
  ASSUME ContainerInv, UNCHANGED <<file, issued, raced>>, troubles' \in 0 .. MaxTroubles,
         NEW also \in SUBSET Oper, \A o \in also : op[o].st = "killing",
         Exits(also)
  PROVE  ContainerInv'
<1> USE DEF ContainerInv
<1>1. \A o \in Oper :
        \/ op'[o] = op[o] /\ op[o] \in OpState /\ op[o].st # "waiting"
        \/ op'[o] \in OpState /\ op'[o].st \in {"removing", "idle"}
  <2> SUFFICES ASSUME NEW o \in Oper
               PROVE  \/ op'[o] = op[o] /\ op[o] \in OpState /\ op[o].st # "waiting"
                      \/ op'[o] \in OpState /\ op'[o].st \in {"removing", "idle"}
    OBVIOUS
  <2>1. op[o] \in OpState
    BY DEF ContainerTypeOK
  <2>2. \/ op'[o] = op[o] /\ op[o].st # "waiting"
        \/ op'[o] = [op[o] EXCEPT !.st = "removing"]
        \/ op'[o] = NoOp
    BY DEF Exits
  <2>3. NoOp \in OpState /\ NoOp.st = "idle"
    BY ContainerAssumption DEF OpState, NoOp
  <2>4. /\ [op[o] EXCEPT !.st = "removing"] \in OpState
        /\ [op[o] EXCEPT !.st = "removing"].st = "removing"
    BY <2>1 DEF OpState
  <2>5. QED
    BY <2>1, <2>2, <2>3, <2>4
<1>2. \A o \in Oper : op'[o].st = op[o].st \/ op'[o].st \in {"removing", "idle"}
  BY <1>1
<1>3. /\ box' \in [st : {"exited"}, secret : Secret \cup {Empty}, config : Configs]
      /\ box'.secret = box.secret
  BY DEF Exits, ContainerTypeOK
<1>4. ContainerTypeOK'
  <2>1. op' \in [Oper -> OpState]
    <3>1. \A o \in Oper : op'[o] \in OpState
      BY <1>1
    <3>2. QED
      BY <3>1 DEF Exits
  <2>2. QED
    BY <1>3, <2>1 DEF ContainerTypeOK, Exits
<1>5. FileMade'
  <2>1. \A o \in Oper : op'[o].st # "waiting"
    BY <1>1
  <2>2. QED
    BY <1>2, <2>1 DEF FileMade
<1>6. OneMaker'
  BY <1>2 DEF OneMaker, Alone
<1>7. OneSecret' /\ Known'
  <2>1. \A o \in Oper : op'[o].st = "sending" => op'[o] = op[o]
    BY <1>1
  <2>2. QED
    BY <1>3, <2>1 DEF OneSecret, Known
<1>8. AdminLetIn'
  BY <1>2 DEF AdminLetIn
<1>9. QED
  BY <1>4, <1>5, <1>6, <1>7, <1>8

\* The three steps of emr up that make the file: whoever finds it missing when
\* nobody else has is alone until it is filled.
LEMMA MakingKeeps ==
  ASSUME ContainerInv, NEW o \in Oper,
         (UpLooksForFile(o) /\ SecretNeeded) \/ UpOpensFile(o) \/ UpWrites(o)
  PROVE  ContainerInv'
<1> USE ContainerAssumption DEF ContainerInv
<1>1. op \in [Oper -> OpState] /\ issued \subseteq Secret /\ raced \in BOOLEAN
  BY DEF ContainerTypeOK
<1>2. CASE UpLooksForFile(o) /\ SecretNeeded
  <2> USE <1>1, <1>2 DEF UpLooksForFile, SecretNeeded, Goes
  <2>1. ContainerTypeOK'
    BY DEF ContainerTypeOK, OpState
  <2>2. \A p \in Oper : op'[p] = op[p] \/ (p = o /\ op'[p].st = "making")
    BY DEF OpState
  <2>3. FileMade'
    BY <2>2 DEF FileMade, Running
  <2>4. \A p \in Oper : op[p].st # "writing"
    BY DEF FileMade
  <2>5. OneMaker'
    <3>1. CASE raced'
      BY <3>1 DEF OneMaker
    <3>2. CASE ~raced'
      <4>1. ~raced /\ \A p \in Oper : op[p].st # "making"
        BY <3>2
      <4>2. Alone'
        BY <2>2, <2>4, <4>1 DEF Alone
      <4>3. QED
        BY <4>2 DEF OneMaker
    <3>3. QED
      BY <3>1, <3>2
  <2>6. OneSecret' /\ Known' /\ AdminLetIn'
    BY <2>2 DEF OneSecret, Known, AdminLetIn
  <2>7. QED
    BY <2>1, <2>3, <2>5, <2>6
<1>3. CASE UpOpensFile(o)
  <2> USE <1>1, <1>3 DEF UpOpensFile
  <2>1. ContainerTypeOK'
    BY DEF ContainerTypeOK, OpState, Goes, Ends, NoOp, Trouble
  <2>2. \A p \in Oper : IF p = o THEN op'[p].st \in {"writing", "idle"} ELSE op'[p] = op[p]
    BY DEF OpState, Goes, Ends, NoOp
  <2>3. file' = Empty \/ (file' = file /\ op'[o].st = "idle")
    BY DEF OpState, Goes, Ends, NoOp
  <2>4. FileMade'
    BY <2>2, <2>3 DEF FileMade, Running
  <2>5. OneMaker'
    <3>1. ASSUME Alone PROVE Alone'
      <4>1. op[o].st \in {"making", "writing"}
        OBVIOUS
      <4>2. \A p \in Oper \ {o} : op'[p].st \notin {"making", "writing"}
        BY <2>2, <3>1, <4>1, AloneGives
      <4>3. op'[o].st = "writing" => file' = Empty
        BY <2>3, <2>2
      <4>4. op'[o].st # "making"
        BY <2>2
      <4>5. QED
        BY <4>2, <4>3, <4>4 DEF Alone
    <3>2. QED
      BY <3>1 DEF OneMaker
  <2>6. OneSecret'
    <3>1. ~raced => file = NoFile
      <4>1. Alone => file = NoFile
        BY AloneGives
      <4>2. QED
        BY <4>1 DEF OneMaker
    <3>2. ~raced => issued = {}
      BY <3>1 DEF OneSecret
    <3>3. QED
      BY <3>2 DEF OneSecret
  <2>7. Known' /\ AdminLetIn'
    BY <2>2, <2>3 DEF Known, AdminLetIn
  <2>8. QED
    BY <2>1, <2>4, <2>5, <2>6, <2>7
<1>4. CASE UpWrites(o)
  <2> USE <1>1, <1>4 DEF UpWrites
  <2>1. ContainerTypeOK'
    BY DEF ContainerTypeOK, OpState, Goes, Ends, NoOp, Trouble
  <2>2. \A p \in Oper : IF p = o THEN op'[p].st \in {"running", "idle"} ELSE op'[p] = op[p]
    BY DEF OpState, Goes, Ends, NoOp
  <2>3. \/ file' \in Secret /\ issued' = issued \cup {file'}
        \/ UNCHANGED <<file, issued>>
    OBVIOUS
  <2>4. file # NoFile /\ (~raced => file = Empty /\ issued = {})
    <3>1. file # NoFile /\ (Alone => file = Empty)
      BY DEF FileMade, Alone
    <3>2. file = Empty /\ issued \subseteq {file} => issued = {}
      OBVIOUS
    <3>3. QED
      BY <3>1, <3>2 DEF OneMaker, OneSecret
  <2>5. FileMade'
    BY <2>2, <2>3, <2>4 DEF FileMade, Running
  <2>6. OneMaker'
    <3>1. ASSUME Alone PROVE Alone'
      <4>1. op[o].st \in {"making", "writing"} /\ op'[o].st \in {"running", "idle"}
        BY <2>2
      <4>2. \A p \in Oper \ {o} : op'[p].st \notin {"making", "writing"}
        BY <2>2, <3>1, <4>1, AloneGives
      <4>3. \A p \in Oper : op'[p].st \notin {"making", "writing"}
        BY <4>1, <4>2
      <4>4. QED
        BY <4>3 DEF Alone
    <3>2. QED
      BY <3>1 DEF OneMaker
  <2>7. OneSecret'
    BY <2>3, <2>4 DEF OneSecret
  <2>8. Known' /\ AdminLetIn'
    BY <2>2, <2>3 DEF Known, AdminLetIn
  <2>9. QED
    BY <2>1, <2>5, <2>6, <2>7, <2>8
<1>5. QED
  BY <1>2, <1>3, <1>4

\* The rest of emr up.
LEMMA UpKeeps ==
  ASSUME ContainerInv, NEW o \in Oper, UpLooks(o) \/ Up(o)
  PROVE  ContainerInv'
<1> DEFINE At(st) == [op[o] EXCEPT !.st = st]
<1>1. /\ op \in [Oper -> OpState] /\ op[o] \in OpState /\ NoOp \in OpState
      /\ NoOp.st = "idle" /\ troubles \in 0 .. MaxTroubles /\ raced \in BOOLEAN
  BY ContainerAssumption DEF ContainerInv, ContainerTypeOK, OpState, NoOp
<1>2. /\ box \in [st : {"none", "created", "starting", "serving", "draining", "exited"},
                   secret : Secret \cup {Empty}, config : Configs]
      /\ box.st \in {"serving", "draining"} => box.secret \in Secret
      /\ box.secret \in Secret => box.secret \in issued
  BY DEF ContainerInv, ContainerTypeOK, Known
<1>3. \A st \in {"clearing", "env", "running"} :
        At(st) \in OpState /\ At(st).st = st
  BY <1>1 DEF OpState
<1>4. /\ NoBox \in [st : {"none", "created", "starting", "serving", "draining", "exited"},
                   secret : Secret \cup {Empty}, config : Configs]
      /\ NoBox.st = "none" /\ NoBox.secret = Empty
      /\ Empty \notin Secret
  BY ContainerAssumption DEF NoBox
<1>5. CASE UpLooks(o)
  BY <1>1, <1>2, <1>3, <1>5, CommandKeeps DEF UpLooks, Goes, Running
<1>6. CASE UpClears(o)
  <2>1. CASE Stopped
    <3>1. /\ box' = NoBox /\ op' = [op EXCEPT ![o] = At("env")]
          /\ UNCHANGED <<file, issued, raced, inside, troubles>> /\ ~Running
      BY <1>1, <1>6, <2>1 DEF UpClears, Goes, Stopped, Running
    <3>2. QED
      BY <1>1, <1>3, <1>4, <3>1, CommandKeeps
  <2>2. CASE ~Stopped
    BY <1>1, <1>2, <1>6, <2>2, CommandKeeps DEF UpClears, Ends, Running
  <2>3. QED
    BY <2>1, <2>2
<1>7. CASE UpLooksForFile(o)
  <2>1. CASE SecretNeeded
    BY <1>7, <2>1, MakingKeeps
  <2>2. CASE ~SecretNeeded
    <3>1. UNCHANGED raced /\ op' = [op EXCEPT ![o] = At("running")]
      BY <1>1, <1>7, <2>2 DEF UpLooksForFile, Goes
    <3>2. QED
      BY <1>1, <1>2, <1>3, <1>7, <2>2, <3>1, CommandKeeps DEF UpLooksForFile, SecretNeeded, Running
  <2>3. QED
    BY <2>1, <2>2
<1>8. CASE UpOpensFile(o) \/ UpWrites(o)
  BY <1>8, MakingKeeps
<1>9. CASE UpRuns(o)
  <2>1. /\ file \in Secret \cup {Empty}
        /\ file \in Secret => file \in issued
    BY <1>9 DEF UpRuns, ContainerInv, ContainerTypeOK, FileMade, Known
  <2>2. ASSUME NEW c \in Configs, box.st = "none",
               box' = [st |-> "starting", secret |-> file, config |-> c],
               troubles' \in 0 .. MaxTroubles,
               op' = [op EXCEPT ![o].st = "polling", ![o].polls = 0]
        PROVE  ContainerInv'
    <3> DEFINE d == [op[o] EXCEPT !.st = "polling", !.polls = 0]
    <3>1. op' = [op EXCEPT ![o] = d]
      BY <1>1, <2>2
    <3>2. d \in OpState /\ d.st = "polling"
      <4>1. 0 \in 0 .. Polls - 1
        BY ContainerAssumption
      <4>2. QED
        BY <1>1, <4>1 DEF OpState
    <3> HIDE DEF d
    <3>3. QED
      BY <1>9, <2>1, <2>2, <3>1, <3>2, CommandKeeps DEF UpRuns, Running
  <2>3. CASE /\ box.st = "none" /\ box' = [NoBox EXCEPT !.st = "created"]
             /\ Ends(o) /\ Trouble
    <3>1. /\ box' \in [st : {"created"}, secret : {Empty}, config : Configs]
          /\ troubles' \in 0 .. MaxTroubles
      BY <1>1, <2>3, ContainerAssumption DEF Trouble, NoBox
    <3>2. QED
      BY <1>1, <1>4, <1>9, <2>3, <3>1, CommandKeeps DEF UpRuns, Ends, Running
  <2>4. CASE Ends(o) /\ UNCHANGED <<box, troubles>>
    BY <1>1, <1>2, <1>9, <2>4, CommandKeeps DEF UpRuns, Ends, Running
  <2>5. QED
    BY <1>1, <1>9, <2>2, <2>3, <2>4, ContainerAssumption DEF UpRuns, Trouble
<1>10. CASE UpPolls(o)
  <2>1. CASE Ends(o)
    BY <1>1, <1>2, <1>10, <2>1, CommandKeeps DEF UpPolls, Ends, Running
  <2>2. CASE op[o].polls + 1 < Polls /\ op' = [op EXCEPT ![o].polls = @ + 1]
    <3> DEFINE d == [op[o] EXCEPT !.polls = @ + 1]
    <3>1. op' = [op EXCEPT ![o] = d]
      BY <1>1, <2>2
    <3>2. d \in OpState /\ d.st = "polling"
      BY <1>1, <1>10, <2>2, ContainerAssumption DEF OpState, UpPolls
    <3> HIDE DEF d
    <3>3. QED
      BY <1>1, <1>2, <1>10, <3>1, <3>2, CommandKeeps DEF UpPolls, Running
  <2>3. QED
    BY <1>10, <2>1, <2>2 DEF UpPolls
<1>11. QED
  BY <1>5, <1>6, <1>7, <1>8, <1>9, <1>10 DEF Up

LEMMA DownKeeps ==
  ASSUME ContainerInv, NEW o \in Oper,
         Down(o) \/ \E force \in BOOLEAN : DownLooks(o, force)
  PROVE  ContainerInv'
<1> DEFINE At(st) == [op[o] EXCEPT !.st = st]
<1>1. /\ op \in [Oper -> OpState] /\ op[o] \in OpState /\ NoOp \in OpState
      /\ NoOp.st = "idle" /\ troubles \in 0 .. MaxTroubles
  BY ContainerAssumption DEF ContainerInv, ContainerTypeOK, OpState, NoOp
<1>2. /\ box \in [st : {"none", "created", "starting", "serving", "draining", "exited"},
                   secret : Secret \cup {Empty}, config : Configs]
      /\ box.st \in {"serving", "draining"} => box.secret \in Secret
      /\ box.secret \in Secret => box.secret \in issued
  BY DEF ContainerInv, ContainerTypeOK, Known
<1>3. \A st \in {"killing", "stopping", "waiting", "removing"} :
        At(st) \in OpState /\ At(st).st = st
  BY <1>1 DEF OpState
<1>4. /\ NoBox \in [st : {"none", "created", "starting", "serving", "draining", "exited"},
                   secret : Secret \cup {Empty}, config : Configs]
      /\ NoBox.st = "none" /\ NoBox.secret = Empty
      /\ Empty \notin Secret
  BY ContainerAssumption DEF NoBox
<1>5. ASSUME NEW force \in BOOLEAN, DownLooks(o, force)
      PROVE  ContainerInv'
  <2>1. troubles' \in 0 .. MaxTroubles
    BY <1>1, <1>5, ContainerAssumption DEF DownLooks, Trouble
  <2>2. QED
    BY <1>1, <1>2, <1>3, <1>5, <2>1, CommandKeeps DEF DownLooks, Goes, Running
<1>6. CASE DownKills(o)
  <2>1. CASE Running
    BY <1>1, <1>6, <2>1, ExitsKeeps DEF DownKills
  <2>2. CASE ~Running
    BY <1>1, <1>2, <1>6, <2>2, CommandKeeps DEF DownKills, Ends
  <2>3. QED
    BY <2>1, <2>2
<1>7. CASE DownStops(o)
  <2>1. CASE box.st = "none"
    BY <1>1, <1>2, <1>7, <2>1, CommandKeeps DEF DownStops, Ends, Running, Stopped
  <2>2. CASE Stopped
    <3>1. Goes(o, "removing") /\ UNCHANGED box
      BY <1>7, <2>2 DEF DownStops, Stopped, Running
    <3>2. QED
      BY <1>1, <1>2, <1>3, <1>7, <2>2, <3>1, CommandKeeps DEF DownStops, Goes, Running
  <2>3. CASE Running
    <3>1. /\ Goes(o, "waiting")
          /\ box' = IF box.st = "serving" THEN [box EXCEPT !.st = "draining"] ELSE box
      BY <1>7, <2>3 DEF DownStops, Stopped, Running
    <3>2. /\ box' \in [st : {"starting", "draining"}, secret : Secret \cup {Empty}, config : Configs]
          /\ box'.secret = box.secret
          /\ box'.st = "draining" => box.secret \in Secret
      BY <1>2, <2>3, <3>1 DEF Running
    <3>3. Running'
      BY <3>2 DEF Running
    <3>4. QED
      BY <1>1, <1>2, <1>3, <1>7, <3>1, <3>2, <3>3, CommandKeeps DEF DownStops, Goes
  <2>4. QED
    BY <1>2, <2>1, <2>2, <2>3 DEF Stopped, Running
<1>8. CASE TimesOut(o)
  BY <1>1, <1>8, ExitsKeeps DEF TimesOut
<1>9. CASE DownRemoves(o)
  <2>1. CASE Stopped
    BY <1>1, <1>4, <1>9, <2>1, CommandKeeps DEF DownRemoves, Ends, Stopped, Running
  <2>2. CASE ~Stopped
    BY <1>1, <1>2, <1>9, <2>2, CommandKeeps DEF DownRemoves, Ends, Running
  <2>3. QED
    BY <2>1, <2>2
<1>10. QED
  BY <1>5, <1>6, <1>7, <1>8, <1>9 DEF Down

\* The server refuses the secret in the file only if there have been two.
LEMMA AdminKeeps ==
  ASSUME ContainerInv, NEW o \in Oper, AdminReads(o) \/ Admin(o) \/ AdminIsAnswered(o)
  PROVE  ContainerInv'
<1>1. /\ op \in [Oper -> OpState] /\ op[o] \in OpState /\ NoOp \in OpState
      /\ NoOp.st = "idle" /\ troubles \in 0 .. MaxTroubles
  BY ContainerAssumption DEF ContainerInv, ContainerTypeOK, OpState, NoOp
<1>2. /\ box \in [st : {"none", "created", "starting", "serving", "draining", "exited"},
                   secret : Secret \cup {Empty}, config : Configs]
      /\ box.st \in {"serving", "draining"} => box.secret \in Secret
      /\ box.secret \in Secret => box.secret \in issued
  BY DEF ContainerInv, ContainerTypeOK, Known
<1>3. CASE AdminReads(o)
  <2> DEFINE c == [op[o] EXCEPT !.st = "sending", !.secret = file]
  <2>1. op' = [op EXCEPT ![o] = c] /\ c \in OpState /\ c.st = "sending" /\ c.secret = file
    BY <1>1, <1>3 DEF AdminReads, OpState
  <2>2. file \in issued
    BY <1>3 DEF AdminReads, ContainerInv, Known
  <2> HIDE DEF c
  <2>3. QED
    <3>1. UNCHANGED <<file, issued, raced, box, inside, troubles>>
      BY <1>3 DEF AdminReads
    <3>2. /\ c.st \notin {"making", "writing", "running", "waiting", "refused"}
          /\ c.secret \in issued
      BY <2>1, <2>2
    <3>3. QED
      BY <1>1, <1>2, <2>1, <3>1, <3>2, CommandKeeps DEF Running
<1>4. CASE AdminSends(o)
  <2>1. CASE box.st = "serving"
    <3> DEFINE c == [op[o] EXCEPT !.st = IF box.secret = op[o].secret THEN "asking" ELSE "refused"]
    <3>1. op' = [op EXCEPT ![o] = c]
      BY <1>4, <2>1 DEF AdminSends, Goes
    <3>2. c \in OpState /\ c.st \in {"asking", "refused"}
      BY <1>1 DEF OpState
    <3>3. c.st = "refused" => raced
      <4>1. op[o].secret \in issued /\ box.secret \in issued
        BY <1>2, <1>4, <2>1 DEF AdminSends, ContainerInv, Known
      <4>2. box.secret # op[o].secret => raced
        BY <4>1 DEF ContainerInv, OneSecret
      <4>3. QED
        BY <1>1, <4>2 DEF OpState
    <3> HIDE DEF c
    <3>4. QED
      BY <1>1, <1>2, <1>4, <3>1, <3>2, <3>3, CommandKeeps DEF AdminSends, Running
  <2>2. CASE box.st # "serving"
    BY <1>1, <1>2, <1>4, <2>2, CommandKeeps DEF AdminSends, Ends, Running
  <2>3. QED
    BY <2>1, <2>2
<1>5. CASE AdminIsRefused(o) \/ AdminIsAnswered(o)
  BY <1>1, <1>2, <1>5, CommandKeeps DEF AdminIsRefused, AdminIsAnswered, Ends, Running
<1>6. QED
  BY <1>3, <1>4, <1>5 DEF Admin

LEMMA ServerKeeps ==
  ASSUME ContainerInv,
         \/ ServerStarts \/ ServerFails \/ ServerEnds
         \/ \E t \in Task : Accept(t) \/ Answer(t)
  PROVE  ContainerInv'
<1>1. troubles \in 0 .. MaxTroubles
  BY DEF ContainerInv, ContainerTypeOK
<1>2. CASE ServerStarts
  <2>1. CASE HasSecret /\ Serviceable(box.config)
    BY <1>2, <2>1 DEF ServerStarts, HasSecret, ContainerInv, ContainerTypeOK, FileMade, OneMaker,
                      Alone, OneSecret, Known, AdminLetIn, Running
  <2>2. CASE ~(HasSecret /\ Serviceable(box.config))
    BY <1>1, <1>2, <2>2, ExitsKeeps DEF ServerStarts
  <2>3. QED
    BY <2>1, <2>2
<1>3. CASE ServerFails
  BY <1>1, <1>3, ContainerAssumption, ExitsKeeps DEF ServerFails, Trouble
<1>4. CASE ServerEnds
  BY <1>1, <1>4, ExitsKeeps DEF ServerEnds
<1>5. ASSUME NEW t \in Task, Accept(t) \/ Answer(t)
      PROVE  ContainerInv'
  BY <1>5 DEF Accept, Answer, ContainerInv, ContainerTypeOK, FileMade, OneMaker, Alone,
              OneSecret, Known, AdminLetIn, Running
<1>6. QED
  BY <1>2, <1>3, <1>4, <1>5

LEMMA ContainerNext == ContainerInv /\ [Next]_containerVars => ContainerInv'
<1> SUFFICES ASSUME ContainerInv, [Next]_containerVars PROVE ContainerInv'
  OBVIOUS
<1>1. CASE Next
  BY <1>1, UpKeeps, DownKeeps, AdminKeeps, ServerKeeps DEF Next
<1>2. CASE UNCHANGED containerVars
  BY <1>2 DEF containerVars, ContainerInv, ContainerTypeOK, FileMade, OneMaker, Alone,
              OneSecret, Known, AdminLetIn, Running
<1>3. QED
  BY <1>1, <1>2

\* A server never serves without an admin secret.
THEOREM ContainerTypes == Spec => []ContainerTypeOK
<1>1. ContainerInv => ContainerTypeOK
  BY DEF ContainerInv
<1>2. QED
  BY <1>1, ContainerInit, ContainerNext, PTL DEF Spec

\* However many operators, containers and secrets: the secret in the file opens
\* the server, unless two emr up once found the file missing together.
THEOREM SecretFits == Spec => []AdminLetIn
<1>1. ContainerInv => AdminLetIn
  BY DEF ContainerInv
<1>2. QED
  BY <1>1, ContainerInit, ContainerNext, PTL DEF Spec

FileKept == (~raced /\ file \in Secret) => UNCHANGED <<file, issued>>

\* Emr up may be run again half-way through another, fail anywhere and be run
\* again: unless two of them found the file missing together, one secret at most
\* is generated, and nothing replaces it.
THEOREM OneSecretForGood == Spec => []OneSecret /\ SecretStays
<1>1. ContainerInv => OneSecret
  BY DEF ContainerInv
<1>2. ContainerInv /\ [Next]_containerVars => [FileKept]_containerVars
  <2> SUFFICES ASSUME ContainerInv, Next, ~raced, file \in Secret
               PROVE  UNCHANGED <<file, issued>>
    BY DEF FileKept
  <2>1. \A o \in Oper : op[o].st \notin {"making", "writing"}
    <3>1. Alone
      BY DEF ContainerInv, OneMaker
    <3>2. QED
      BY <3>1, AloneGives
  <2>2. QED
    BY <2>1
       DEF Next, Up, Down, Admin, UpLooks, UpClears, UpLooksForFile, UpOpensFile, UpWrites, UpRuns,
           UpPolls, DownLooks, DownKills, DownStops, TimesOut, DownRemoves, AdminReads, AdminSends,
           AdminIsRefused, AdminIsAnswered, ServerStarts, ServerFails, ServerEnds, Accept, Answer
<1>3. Spec => []OneSecret /\ [][FileKept]_containerVars
  BY <1>1, <1>2, ContainerInit, ContainerNext, PTL DEF Spec
<1>4. QED
  BY <1>3, PTL DEF SecretStays, FileKept

-----------------------------------------------------------------------------

\* A command where it was, or nearer to its end.
Nearer(c, d) == d = c \/ StepsToGo(d) < StepsToGo(c)

\* Ending is a step nearer for whoever has begun, and so is each way from one
\* stage to a later one.
LEMMA StagesInOrder ==
  ASSUME NEW c \in OpState
  PROVE  /\ StepsToGo(c) \in Nat
         /\ c.st # "idle" => StepsToGo(NoOp) < StepsToGo(c)
         /\ \A st \in {"asking", "refused", "removing", "waiting", "running", "writing", "making",
                      "env"} :
              LET d == [c EXCEPT !.st = st] IN
              <<c.st, st>> \in {<<"clearing", "env">>, <<"env", "making">>, <<"env", "running">>,
                                  <<"making", "writing">>, <<"writing", "running">>, <<"stopping", "waiting">>,
                                  <<"stopping", "removing">>, <<"waiting", "removing">>,
                                  <<"killing", "removing">>, <<"sending", "refused">>,
                                  <<"sending", "asking">>}
                 => StepsToGo(d) < StepsToGo(c)
         /\ c.st = "running" =>
              StepsToGo([c EXCEPT !.st = "polling", !.polls = 0]) < StepsToGo(c)
         /\ c.st = "polling" /\ c.polls + 1 < Polls =>
              StepsToGo([c EXCEPT !.polls = @ + 1]) < StepsToGo(c)
BY ContainerAssumption DEF OpState, NoOp, StepsToGo

\* The end of the server brings those who wait for it one step further.
LEMMA ExitsRunsDown ==
  ASSUME ContainerTypeOK, NEW also \in SUBSET Oper, \A o \in also : op[o].st = "killing",
         Exits(also), NEW o \in Oper
  PROVE  Nearer(op[o], op'[o])
<1>1. op[o] \in OpState
  BY DEF ContainerTypeOK
<1>2. \/ op'[o] = op[o]
      \/ op'[o] = [op[o] EXCEPT !.st = "removing"] /\ op[o].st \in {"waiting", "killing"}
      \/ op'[o] = NoOp /\ op[o].st = "asking"
  BY DEF Exits, ContainerTypeOK
<1>3. QED
  BY <1>1, <1>2, StagesInOrder DEF Nearer

\* One step per action of the operator who makes it.
LEMMA OwnStepNearer ==
  ASSUME ContainerTypeOK, NEW o \in Oper, op[o].st # "idle",
         Up(o) \/ Down(o) \/ Admin(o) \/ AdminIsAnswered(o)
  PROVE  \A p \in Oper : op[p].st # "idle" => Nearer(op[p], op'[p])
<1>1. op \in [Oper -> OpState] /\ op[o] \in OpState
  BY DEF ContainerTypeOK
<1>2. ASSUME NEW c, op' = [op EXCEPT ![o] = c], Nearer(op[o], c)
      PROVE  \A p \in Oper : Nearer(op[p], op'[p])
  BY <1>1, <1>2 DEF Nearer
<1>3. Nearer(op[o], NoOp)
  BY <1>1, StagesInOrder DEF Nearer
<1>4. CASE UpClears(o)
  BY <1>1, <1>2, <1>3, <1>4, StagesInOrder DEF UpClears, Goes, Ends, Nearer
<1>5. CASE UpOpensFile(o)
  BY <1>1, <1>2, <1>3, <1>5, StagesInOrder DEF UpOpensFile, Goes, Ends, Nearer
<1>6. CASE UpWrites(o)
  BY <1>1, <1>2, <1>3, <1>6, StagesInOrder DEF UpWrites, Goes, Ends, Nearer
<1>7. CASE UpRuns(o)
  BY <1>1, <1>2, <1>3, <1>7, StagesInOrder DEF UpRuns, Ends, Nearer
<1>8. CASE UpPolls(o)
  BY <1>1, <1>2, <1>3, <1>8, StagesInOrder DEF UpPolls, Ends, Nearer
<1>9. CASE DownKills(o)
  BY <1>2, <1>3, <1>9, ExitsRunsDown DEF DownKills, Ends
<1>10. CASE DownStops(o)
  BY <1>1, <1>2, <1>3, <1>10, StagesInOrder
     DEF DownStops, Goes, Ends, Nearer, Stopped, Running, ContainerTypeOK
<1>11. CASE TimesOut(o)
  BY <1>11, ExitsRunsDown DEF TimesOut
<1>12. CASE DownRemoves(o)
  BY <1>1, <1>2, <1>3, <1>12 DEF DownRemoves, Ends
<1>13. CASE AdminSends(o)
  BY <1>1, <1>2, <1>3, <1>13, StagesInOrder DEF AdminSends, Goes, Ends, Nearer
<1>14. CASE AdminIsRefused(o) \/ AdminIsAnswered(o)
  BY <1>2, <1>3, <1>14 DEF AdminIsRefused, AdminIsAnswered, Ends
<1>15. CASE UpLooksForFile(o)
  BY <1>1, <1>2, <1>15, StagesInOrder DEF UpLooksForFile, Goes, Nearer
<1>16. QED
  BY <1>4, <1>5, <1>6, <1>7, <1>8, <1>9, <1>10, <1>11, <1>12, <1>13, <1>14, <1>15
     DEF Up, Down, Admin

AllNearer == \A o \in Oper : op[o].st # "idle" =>
                op'[o] = op[o] \/ StepsToGo(op'[o]) < StepsToGo(op[o])

\* Nobody can hold a command up or send it back, neither a server that does not
\* start or drain, nor another operator: after Polls + 5 steps of its own at the
\* most it has ended, unless it waits for an answer to an admin request.
THEOREM CommandsGetNearer == Spec => CommandsRunDown
<1>1. ContainerInv /\ [Next]_containerVars => [AllNearer]_containerVars
  <2> SUFFICES ASSUME ContainerInv, Next, NEW o \in Oper, op[o].st # "idle"
               PROVE  Nearer(op[o], op'[o])
    BY DEF AllNearer, Nearer
  <2>1. ContainerTypeOK /\ op \in [Oper -> OpState]
    BY DEF ContainerInv, ContainerTypeOK
  <2>2. ASSUME NEW p \in Oper, Up(p) \/ Down(p) \/ Admin(p) \/ AdminIsAnswered(p)
        PROVE  Nearer(op[o], op'[o])
    <3>1. op[p].st # "idle"
      BY <2>2 DEF Up, Down, Admin, AdminSends, AdminIsRefused, AdminIsAnswered, UpClears,
                  UpLooksForFile, UpOpensFile, UpWrites, UpRuns, UpPolls, DownKills, DownStops,
                  TimesOut, DownRemoves
    <3>2. QED
      BY <2>1, <2>2, <3>1, OwnStepNearer
  <2>3. ASSUME NEW p \in Oper,
               UpLooks(p) \/ AdminReads(p) \/ \E force \in BOOLEAN : DownLooks(p, force)
        PROVE  Nearer(op[o], op'[o])
    BY <2>1, <2>3 DEF UpLooks, AdminReads, DownLooks, Goes, Nearer
  <2>4. CASE ServerStarts \/ ServerFails \/ ServerEnds
    BY <2>1, <2>4, ExitsRunsDown DEF ServerStarts, ServerFails, ServerEnds, Nearer
  <2>5. ASSUME NEW t \in Task, Accept(t) \/ Answer(t)
        PROVE  Nearer(op[o], op'[o])
    BY <2>5 DEF Accept, Answer, Nearer
  <2>6. QED
    BY <2>2, <2>3, <2>4, <2>5 DEF Next
<1>2. Spec => [][AllNearer]_containerVars
  BY <1>1, ContainerInit, ContainerNext, PTL DEF Spec
<1>3. QED
  BY <1>2, PTL DEF CommandsRunDown, AllNearer

=============================================================================
