--------------------------- MODULE KeyStoreProofs ---------------------------
(***************************************************************************)
(* Theorems about module KeyStore, for any number of keys, operators and   *)
(* callers and any way in which prefixes coincide.  The table changes in   *)
(* three ways only, whatever the statements it takes (StepsOfTable); what  *)
(* is proved of it follows from those three.                               *)
(***************************************************************************)
EXTENDS KeyStore, TLAPS

\* What the connection sees of a rotation that is not committed, and what a
\* request that waits for the mutex knows.
HolderFits ==
  /\ MutexMeansCommitted
  /\ \A a \in Admin :
       /\ admin[a].st = "waiting" /\ admin[a].op \in {"revoke", "rotate"} =>
            admin[a].key \in Key /\ disk[admin[a].key] # "absent"
       /\ admin[a].st \in Holding =>
            /\ admin[a].key \in Key /\ disk[admin[a].key] # "absent"
            /\ admin[a].new \in Key /\ disk[admin[a].new] = "absent"
       /\ admin[a].st = "begun" => view = disk
       /\ admin[a].st = "moved" =>
            /\ disk[admin[a].key] = "active"
            /\ view = [disk EXCEPT ![admin[a].key] = "revoked"]
       /\ admin[a].st = "inserted" =>
            /\ disk[admin[a].key] = "active"
            /\ view = [disk EXCEPT ![admin[a].key] = "revoked", ![admin[a].new] = "active"]

\* A key that was revoked stays it, and is not what a lookup finds.
CallersFit ==
  \A c \in Caller :
    /\ caller[c].st # "idle" => caller[c].token \in Token
    /\ caller[c].barred => caller[c].token \in Key /\ disk[caller[c].token] = "revoked"
    /\ caller[c].st # "done" => caller[c].verdict = "none"
    /\ caller[c].st = "verify" =>
         /\ caller[c].found \in Key /\ SamePrefix(caller[c].found, caller[c].token)
         /\ caller[c].barred => caller[c].found # caller[c].token
    /\ caller[c].verdict = "in" => ~caller[c].barred

\* Lines begin with keys that are not stored yet, and fork never.
LinesFit ==
  /\ \A k \in Key : disk[k] = "absent" => line[k] = k /\ k \notin closed
  /\ \A k \in Key : disk[k] # "absent" => disk[line[k]] # "absent"
  /\ \A k, n \in Active(disk) : line[k] = line[n] => k = n
  /\ \A k \in Active(disk) : line[k] \notin closed
  /\ \A k \in Key : disk[k] # "absent" /\ line[k] \notin closed =>
       \E n \in Active(disk) : line[n] = line[k]

KeyInv == KeyTypeOK /\ HolderFits /\ CallersFit /\ LinesFit /\ HandedOutIsStored

LEMMA KeyInit == Init => KeyInv
BY KeyAssumption
   DEF Init, KeyInv, KeyTypeOK, HolderFits, CallersFit, LinesFit, HandedOutIsStored,
       MutexMeansCommitted, NoRequest, NoCall, Status, Op, Holding, Active, Token

-----------------------------------------------------------------------------
(* What a step does to the table *)

Granted(k) ==
  /\ disk[k] = "absent"
  /\ disk' = [disk EXCEPT ![k] = "active"]
  /\ UNCHANGED <<line, closed>>

Withdrawn(k) ==
  /\ disk[k] = "active"
  /\ disk' = [disk EXCEPT ![k] = "revoked"]
  /\ closed' = closed \cup {line[k]}
  /\ UNCHANGED line

Replaced(k, n) ==
  /\ disk[k] = "active" /\ disk[n] = "absent"
  /\ disk' = [disk EXCEPT ![k] = "revoked", ![n] = "active"]
  /\ line' = [line EXCEPT ![n] = line[k]]
  /\ UNCHANGED closed

TableStep ==
  \/ UNCHANGED <<disk, line, closed>>
  \/ /\ \E k \in Key : Granted(k) \/ Withdrawn(k) \/ \E n \in Key : Replaced(k, n)
     /\ UNCHANGED caller

\* Every step of every handler is one of these, and shows an operator no key
\* but one that is stored.
LEMMA StepsOfTable ==
  ASSUME KeyInv, [Next]_keyVars
  PROVE  TableStep /\ \A k \in shown' \ shown : k \in Key /\ disk'[k] = "active"
<1> USE DEF KeyInv, KeyTypeOK
<1>a. \A a \in Admin : admin[a].st = "waiting" /\ lock = Free => view = disk
  BY DEF HolderFits, MutexMeansCommitted
<1>1. ASSUME NEW a \in Admin, Create(a)
      PROVE  TableStep /\ \A k \in shown' \ shown : k \in Key /\ disk'[k] = "active"
  <2>1. PICK k \in Key : Unused(k) /\ Commits(k, "active") /\ ReadBack(a, k)
    BY <1>1 DEF Create
  <2>2. UNCHANGED <<line, closed, caller>> /\ view = disk
    BY <1>1, <1>a DEF Create, Has
  <2>3. Granted(k) /\ disk'[k] = "active"
    BY <2>1, <2>2 DEF Unused, Commits, Granted
  <2>4. shown' \subseteq shown \cup {k}
    BY <2>1 DEF ReadBack, Answer
  <2>5. QED
    BY <2>2, <2>3, <2>4 DEF TableStep
<1>2. ASSUME NEW a \in Admin, Revoke(a)
      PROVE  TableStep /\ shown' = shown
  BY <1>2, <1>a DEF Revoke, Has, Commits, Refuse, TableStep, Withdrawn, HolderFits
<1>3. ASSUME NEW a \in Admin, RotateCommits(a)
      PROVE  TableStep /\ \A k \in shown' \ shown : k \in Key /\ disk'[k] = "active"
  <2>1. /\ admin[a].key \in Key /\ admin[a].new \in Key
        /\ Replaced(admin[a].key, admin[a].new)
        /\ disk' = [disk EXCEPT ![admin[a].key] = "revoked", ![admin[a].new] = "active"]
    BY <1>3 DEF RotateCommits, Replaced, HolderFits, Holding
  <2>2. shown' \subseteq shown \cup {admin[a].new}
    BY <1>3 DEF RotateCommits, ReadBack, Answer
  <2>3. disk'[admin[a].new] = "active"
    BY <2>1
  <2>4. UNCHANGED caller
    BY <1>3 DEF RotateCommits
  <2>5. QED
    BY <2>1, <2>2, <2>3, <2>4 DEF TableStep
<1>4. ASSUME NEW a \in Admin,
             \/ \E op \in Op, k \in Key \cup {NoKey} : Ask(a, op, k)
             \/ List(a) \/ StatementFails(a) \/ HangUp(a)
      PROVE  UNCHANGED <<disk, line, closed, shown>>
  BY <1>4 DEF Ask, List, StatementFails, HangUp
<1>5. ASSUME NEW a \in Admin,
             \/ RotateBegins(a) \/ RotateRevokes(a) \/ RotateFindsNothing(a)
             \/ RotateInserts(a) \/ RotateFails(a)
      PROVE  UNCHANGED <<disk, line, closed, shown>>
  BY <1>5 DEF RotateBegins, RotateRevokes, RotateFindsNothing, RotateInserts, RotateFails, RollsBack
<1>6. ASSUME NEW c \in Caller,
             (\E t \in Token : Call(c, t)) \/ Lookup(c) \/ Verify(c) \/ Leave(c)
      PROVE  UNCHANGED <<disk, line, closed, shown>>
  BY <1>6 DEF Call, Lookup, Verify, Leave
<1>7. CASE Crash \/ UNCHANGED keyVars
  BY <1>7 DEF Crash, keyVars, TableStep
<1>8. QED
  BY <1>1, <1>2, <1>3, <1>4, <1>5, <1>6, <1>7 DEF Next, Serve, Rotate, TableStep

LEMMA LinesKept ==
  ASSUME KeyTypeOK, LinesFit, TableStep
  PROVE  LinesFit'
<1> USE DEF KeyTypeOK, Status, Active
<1>1. CASE UNCHANGED <<disk, line, closed>>
  BY <1>1 DEF LinesFit
<1>2. ASSUME NEW k \in Key, Granted(k)
      PROVE  LinesFit'
  BY <1>2 DEF LinesFit, Granted
<1>3. ASSUME NEW k \in Key, Withdrawn(k)
      PROVE  LinesFit'
  BY <1>3 DEF LinesFit, Withdrawn
<1>4. ASSUME NEW k \in Key, NEW n \in Key, Replaced(k, n)
      PROVE  LinesFit'
  <2>1. k # n /\ line[n] = n /\ n \notin closed /\ line[k] \notin closed /\ line[k] # n
    BY <1>4 DEF LinesFit, Replaced
  <2>2. \A i \in Key \ {n} : line'[i] = line[i]
    BY <1>4 DEF Replaced
  <2>3. line'[n] = line[k] /\ closed' = closed
    BY <1>4 DEF Replaced
  <2>4. /\ disk'[k] = "revoked" /\ disk'[n] = "active"
        /\ \A i \in Key \ {k, n} : disk'[i] = disk[i]
    BY <1>4, <2>1 DEF Replaced
  <2>5. /\ \A i \in Key : disk'[i] = "absent" => line'[i] = i /\ i \notin closed'
        /\ \A i \in Key : disk'[i] # "absent" => disk'[line'[i]] # "absent"
    BY <1>4, <2>1, <2>2, <2>3, <2>4 DEF LinesFit, Replaced
  <2>6. \A i, j \in Active(disk') : line'[i] = line'[j] => i = j
    BY <1>4, <2>1, <2>2, <2>3, <2>4 DEF LinesFit, Replaced
  <2>7. \A i \in Active(disk') : line'[i] \notin closed'
    BY <1>4, <2>1, <2>2, <2>3, <2>4 DEF LinesFit, Replaced
  <2>8. \A i \in Key : disk'[i] # "absent" /\ line'[i] \notin closed' =>
          \E j \in Active(disk') : line'[j] = line'[i]
    BY <1>4, <2>1, <2>2, <2>3, <2>4 DEF LinesFit, Replaced
  <2>9. QED
    BY <2>5, <2>6, <2>7, <2>8 DEF LinesFit
<1>5. QED
  BY <1>1, <1>2, <1>3, <1>4 DEF TableStep

LEMMA HandedOutKept ==
  ASSUME KeyTypeOK, HandedOutIsStored, TableStep,
         \A k \in shown' \ shown : k \in Key /\ disk'[k] = "active"
  PROVE  HandedOutIsStored'
BY DEF KeyTypeOK, Status, HandedOutIsStored, TableStep, Granted, Withdrawn, Replaced

-----------------------------------------------------------------------------
(* One lemma for the requests of operators, one for those of callers *)

\* A request ends or goes on, and neither the table nor the mutex changes.
LEMMA WaitingKept ==
  ASSUME KeyInv, NEW a \in Admin, UNCHANGED <<disk, view, lock, caller, closed, line, shown>>,
         admin[a].st \in {"idle", "waiting"},
         NEW r, admin' = [admin EXCEPT ![a] = r],
         r \in [st : {"idle", "waiting"}, op : Op, key : Key \cup {NoKey}, new : Key \cup {NoKey}],
         r.st = "waiting" /\ r.op \in {"revoke", "rotate"} => r.key \in Key /\ disk[r.key] # "absent"
  PROVE  KeyTypeOK' /\ HolderFits'
<1> USE DEF KeyInv
<1>1. \A b \in Admin : admin'[b] = IF b = a THEN r ELSE admin[b]
  BY DEF KeyTypeOK
<1>2. KeyTypeOK'
  BY <1>1 DEF KeyTypeOK, Holding
<1>3. HolderFits'
  BY <1>1 DEF HolderFits, MutexMeansCommitted, Holding, KeyTypeOK
<1>4. QED
  BY <1>2, <1>3

LEMMA NoRequestFits ==
  NoRequest \in [st : {"idle"}, op : Op, key : Key \cup {NoKey}, new : Key \cup {NoKey}]
BY DEF NoRequest, Op

\* One row changes, committed at once, while nobody holds the mutex.
LEMMA RowKept ==
  ASSUME KeyInv, NEW a \in Admin, lock = Free, NEW k \in Key, NEW s \in {"active", "revoked"},
         Commits(k, s), Refuse(a), UNCHANGED <<lock, caller, line>>,
         shown' \subseteq Key, closed' \subseteq Key
  PROVE  KeyTypeOK' /\ HolderFits'
<1> USE DEF KeyInv
<1>1. \A b \in Admin : admin'[b] = IF b = a THEN NoRequest ELSE admin[b]
  BY DEF KeyTypeOK, Refuse
<1>2. \A b \in Admin : admin[b].st \notin Holding
  BY KeyAssumption DEF KeyTypeOK
<1>3. view = disk /\ view' = disk'
  BY DEF HolderFits, MutexMeansCommitted, Commits
<1>4. disk' \in [Key -> Status] /\ \A n \in Key : disk[n] # "absent" => disk'[n] # "absent"
  BY DEF Commits, KeyTypeOK, Status
<1>5. KeyTypeOK'
  BY <1>1, <1>2, <1>3, <1>4, NoRequestFits DEF KeyTypeOK, Holding, Refuse
<1>6. HolderFits'
  BY <1>1, <1>2, <1>3, <1>4, NoRequestFits DEF HolderFits, MutexMeansCommitted, Holding, KeyTypeOK
<1>7. QED
  BY <1>5, <1>6

\* The transaction of whoever holds the mutex ends, committed or undone.
LEMMA EndKept ==
  ASSUME KeyInv, NEW a \in Admin, admin[a].st \in Holding,
         lock' = Free, Refuse(a), UNCHANGED <<caller, closed>>,
         view' = disk', disk' \in [Key -> Status], line' \in [Key -> Key], shown' \subseteq Key,
         \A n \in Key : disk[n] # "absent" => disk'[n] # "absent"
  PROVE  KeyTypeOK' /\ HolderFits'
<1> USE DEF KeyInv
<1>1. \A b \in Admin : admin'[b] = IF b = a THEN NoRequest ELSE admin[b]
  BY DEF KeyTypeOK, Refuse
<1>2. \A b \in Admin \ {a} : admin[b].st \notin Holding
  BY DEF KeyTypeOK
<1>3. KeyTypeOK'
  BY <1>1, <1>2, NoRequestFits, KeyAssumption DEF KeyTypeOK, Holding, Refuse
<1>4. HolderFits'
  BY <1>1, <1>2, NoRequestFits DEF HolderFits, MutexMeansCommitted, Holding, KeyTypeOK
<1>5. QED
  BY <1>3, <1>4

\* Another statement of whoever holds the mutex, or is to hold it.
LEMMA StatementKept ==
  ASSUME KeyInv, NEW a \in Admin, lock \in {a, Free}, lock' = a,
         UNCHANGED <<disk, caller, shown, line, closed>>,
         view' \in [Key -> Status],
         NEW r, admin' = [admin EXCEPT ![a] = r],
         r \in [st : Holding, op : Op, key : Key, new : Key],
         disk[r.key] # "absent" /\ disk[r.new] = "absent",
         r.st = "begun" => view' = disk,
         r.st = "moved" => /\ disk[r.key] = "active"
                           /\ view' = [disk EXCEPT ![r.key] = "revoked"],
         r.st = "inserted" => /\ disk[r.key] = "active"
                              /\ view' = [disk EXCEPT ![r.key] = "revoked", ![r.new] = "active"]
  PROVE  KeyTypeOK' /\ HolderFits'
<1> USE DEF KeyInv
<1>1. \A b \in Admin : admin'[b] = IF b = a THEN r ELSE admin[b]
  BY DEF KeyTypeOK
<1>2. \A b \in Admin \ {a} : admin[b].st \notin Holding
  BY KeyAssumption DEF KeyTypeOK
<1>3. KeyTypeOK'
  BY <1>1, <1>2 DEF KeyTypeOK, Holding
<1>4. lock' # Free
  BY KeyAssumption
<1>5. HolderFits'
  BY <1>1, <1>2, <1>4 DEF HolderFits, MutexMeansCommitted, Holding, KeyTypeOK
<1>6. QED
  BY <1>3, <1>5

\* One step per action of the handlers.
LEMMA AdminKeeps ==
  ASSUME KeyInv, NEW a \in Admin,
         \/ \E op \in Op, k \in Key \cup {NoKey} : Ask(a, op, k)
         \/ Serve(a) \/ Rotate(a) \/ HangUp(a)
  PROVE  KeyTypeOK' /\ HolderFits'
<1>a. /\ admin \in [Admin -> [st : {"idle", "waiting"} \cup Holding, op : Op,
                             key : Key \cup {NoKey}, new : Key \cup {NoKey}]]
      /\ disk \in [Key -> Status] /\ view \in [Key -> Status]
      /\ shown \subseteq Key /\ closed \subseteq Key /\ line \in [Key -> Key]
      /\ admin[a].st \in Holding <=> lock = a
  BY DEF KeyInv, KeyTypeOK
<1>b. /\ admin[a].st = "waiting" /\ admin[a].op \in {"revoke", "rotate"} =>
           admin[a].key \in Key /\ disk[admin[a].key] # "absent"
      /\ admin[a].st \in Holding =>
           /\ admin[a].key \in Key /\ disk[admin[a].key] # "absent"
           /\ admin[a].new \in Key /\ disk[admin[a].new] = "absent"
      /\ admin[a].st = "begun" => view = disk
      /\ admin[a].st = "moved" =>
           /\ disk[admin[a].key] = "active"
           /\ view = [disk EXCEPT ![admin[a].key] = "revoked"]
      /\ admin[a].st = "inserted" =>
           /\ disk[admin[a].key] = "active"
           /\ view = [disk EXCEPT ![admin[a].key] = "revoked", ![admin[a].new] = "active"]
      /\ lock = Free => view = disk
  BY DEF KeyInv, HolderFits, MutexMeansCommitted
<1>c. NoRequest.st = "idle"
  BY DEF NoRequest
<1>1. ASSUME NEW op \in Op, NEW k \in Key \cup {NoKey}, Ask(a, op, k)
      PROVE  KeyTypeOK' /\ HolderFits'
  <2> DEFINE r == [NoRequest EXCEPT !.st = "waiting", !.op = op, !.key = k]
  <2>1. admin' = [admin EXCEPT ![a] = r] /\ admin[a].st = "idle"
        /\ UNCHANGED <<disk, view, lock, caller, closed, line, shown>>
    BY <1>1 DEF Ask
  <2>2. r \in [st : {"waiting"}, op : Op, key : Key \cup {NoKey}, new : Key \cup {NoKey}]
        /\ r.op = op /\ r.key = k
    BY DEF NoRequest
  <2>3. op \in {"revoke", "rotate"} => k \in Key /\ disk[k] # "absent"
    BY <1>1 DEF Ask
  <2> HIDE DEF r
  <2>4. QED
    BY <2>1, <2>2, <2>3, WaitingKept
<1>2. CASE Create(a)
  <2>1. PICK k \in Key : Commits(k, "active") /\ ReadBack(a, k)
    BY <1>2 DEF Create
  <2>2. QED
    BY <1>2, <1>a, <2>1, RowKept DEF Create, Has, ReadBack, Answer
<1>3. CASE List(a) \/ StatementFails(a) \/ HangUp(a)
  BY <1>3, <1>c, NoRequestFits, WaitingKept DEF List, StatementFails, HangUp, Has, Refuse
<1>4. CASE Revoke(a)
  <2>1. CASE view[admin[a].key] = "active"
    BY <1>4, <1>a, <1>b, <2>1, RowKept DEF Revoke, Has
  <2>2. CASE view[admin[a].key] # "active"
    BY <1>4, <1>c, <2>2, NoRequestFits, WaitingKept DEF Revoke, Has, Refuse
  <2>3. QED
    BY <2>1, <2>2
<1>5. CASE RotateBegins(a)
  <2>1. PICK n \in Key :
          Unused(n) /\ admin' = [admin EXCEPT ![a].st = "begun", ![a].new = n]
    BY <1>5 DEF RotateBegins
  <2> DEFINE r == [admin[a] EXCEPT !.st = "begun", !.new = n]
  <2>2. admin' = [admin EXCEPT ![a] = r]
    BY <1>a, <2>1
  <2>a. admin[a].key \in Key /\ disk[admin[a].key] # "absent" /\ admin[a].op \in Op
    BY <1>5, <1>a, <1>b DEF RotateBegins, Has
  <2>3. /\ r \in [st : {"begun"}, op : Op, key : Key, new : Key]
        /\ r.key = admin[a].key /\ r.new = n
    BY <1>a, <2>a
  <2>4. /\ disk[n] = "absent" /\ disk[admin[a].key] # "absent" /\ view' = disk
        /\ lock = Free /\ lock' = a /\ view' \in [Key -> Status]
        /\ UNCHANGED <<disk, caller, shown, line, closed>>
    BY <1>5, <1>a, <1>b, <2>1, <2>a DEF RotateBegins, Has, Unused
  <2> HIDE DEF r
  <2>5. QED
    BY <2>2, <2>3, <2>4, StatementKept DEF Holding
<1>6. CASE RotateRevokes(a)
  <2> DEFINE r == [admin[a] EXCEPT !.st = "moved"]
  <2>1. admin' = [admin EXCEPT ![a] = r]
    BY <1>6, <1>a DEF RotateRevokes
  <2>2. /\ r \in [st : {"moved"}, op : Op, key : Key, new : Key]
        /\ r.key = admin[a].key /\ r.new = admin[a].new
    BY <1>6, <1>a, <1>b DEF RotateRevokes, Holding
  <2>3. /\ view' = [disk EXCEPT ![r.key] = "revoked"] /\ disk[r.key] = "active"
        /\ view' \in [Key -> Status] /\ disk[r.new] = "absent"
        /\ lock = a /\ lock' = a /\ UNCHANGED <<disk, caller, shown, line, closed>>
    BY <1>6, <1>a, <1>b, <2>2 DEF RotateRevokes, Holding, Status
  <2> HIDE DEF r
  <2>4. QED
    BY <2>1, <2>2, <2>3, StatementKept DEF Holding
<1>7. CASE RotateInserts(a)
  <2> DEFINE r == [admin[a] EXCEPT !.st = "inserted"]
  <2>1. admin' = [admin EXCEPT ![a] = r]
    BY <1>7, <1>a DEF RotateInserts
  <2>2. /\ r \in [st : {"inserted"}, op : Op, key : Key, new : Key]
        /\ r.key = admin[a].key /\ r.new = admin[a].new
    BY <1>7, <1>a, <1>b DEF RotateInserts, Holding
  <2>3. /\ view' = [disk EXCEPT ![r.key] = "revoked", ![r.new] = "active"]
        /\ disk[r.key] = "active" /\ disk[r.new] = "absent"
        /\ view' \in [Key -> Status]
        /\ lock = a /\ lock' = a /\ UNCHANGED <<disk, caller, shown, line, closed>>
    BY <1>7, <1>a, <1>b, <2>2 DEF RotateInserts, Holding, Status
  <2> HIDE DEF r
  <2>4. QED
    BY <2>1, <2>2, <2>3, StatementKept DEF Holding
<1>8. CASE RotateFindsNothing(a) \/ RotateFails(a)
  BY <1>8, <1>a, EndKept DEF RotateFindsNothing, RotateFails, RollsBack, Holding
<1>9. CASE RotateCommits(a)
  <2>1. /\ disk' = view /\ view' = view /\ lock' = Free /\ UNCHANGED <<caller, closed>>
        /\ line' \in [Key -> Key] /\ admin[a].st \in Holding
    BY <1>9, <1>a, <1>b DEF RotateCommits, Holding
  <2>2. Refuse(a) /\ shown' \subseteq Key
    BY <1>9, <1>a, <1>b DEF RotateCommits, ReadBack, Answer, Holding
  <2>3. \A n \in Key : disk[n] # "absent" => disk'[n] # "absent"
    BY <1>9, <1>a, <1>b DEF RotateCommits, Holding
  <2>4. QED
    BY <1>a, <2>1, <2>2, <2>3, EndKept
<1>10. QED
  BY <1>1, <1>2, <1>3, <1>4, <1>5, <1>6, <1>7, <1>8, <1>9 DEF Serve, Rotate

\* Callers change nothing but their own record.
LEMMA CallerKeeps ==
  ASSUME KeyInv, NEW c \in Caller,
         (\E t \in Token : Call(c, t)) \/ Lookup(c) \/ Verify(c) \/ Leave(c)
  PROVE  KeyTypeOK' /\ HolderFits' /\ CallersFit'
<1> USE DEF KeyInv
<1>1. UNCHANGED <<disk, view, lock, admin, shown, line, closed>>
  BY DEF Call, Lookup, Verify, Leave
<1>2. HolderFits'
  BY <1>1 DEF HolderFits, MutexMeansCommitted
<1>3. ASSUME NEW t \in Token, Call(c, t)
      PROVE  KeyTypeOK' /\ CallersFit'
  BY <1>1, <1>3 DEF Call, NoCall, KeyTypeOK, CallersFit, SamePrefix, Token
<1>4. CASE Lookup(c)
  <2>1. \A k \in Matching(caller[c].token) : k \in Key /\ disk[k] = "active" /\ SamePrefix(k, caller[c].token)
    BY <1>4 DEF Lookup, Matching, HolderFits, MutexMeansCommitted
  <2>2. KeyTypeOK'
    <3> DEFINE Request == [st : {"idle", "lookup", "verify", "done"}, token : Token \cup {NoKey},
                        found : Key \cup {NoKey}, barred : BOOLEAN,
                        verdict : {"none", "in", "refused", "error"}]
    <3>1. caller[c] \in Request
      BY DEF KeyInv, KeyTypeOK
    <3>2. /\ \A k \in Key : [caller[c] EXCEPT !.st = "verify", !.found = k] \in Request
          /\ \A v \in {"refused", "error"} : [caller[c] EXCEPT !.st = "done", !.verdict = v] \in Request
      BY <3>1
    <3>3. PICK r \in Request : caller' = [caller EXCEPT ![c] = r]
      <4>1. CASE \E k \in Matching(caller[c].token) :
                   caller' = [caller EXCEPT ![c].st = "verify", ![c].found = k]
        <5>1. PICK k \in Key : caller' = [caller EXCEPT ![c].st = "verify", ![c].found = k]
          BY <2>1, <4>1
        <5>2. caller' = [caller EXCEPT ![c] = [caller[c] EXCEPT !.st = "verify", !.found = k]]
          BY <5>1 DEF KeyInv, KeyTypeOK
        <5>3. QED
          BY <3>2, <5>2
      <4>2. ASSUME NEW v \in {"refused", "error"},
                   caller' = [caller EXCEPT ![c].st = "done", ![c].verdict = v]
            PROVE  \E r \in Request : caller' = [caller EXCEPT ![c] = r]
        <5>1. caller' = [caller EXCEPT ![c] = [caller[c] EXCEPT !.st = "done", !.verdict = v]]
          BY <4>2 DEF KeyInv, KeyTypeOK
        <5>2. QED
          BY <3>2, <5>1
      <4>3. QED
        BY <1>4, <4>1, <4>2 DEF Lookup
    <3>4. caller' \in [Caller -> Request]
      BY <3>3 DEF KeyInv, KeyTypeOK
    <3>5. QED
      BY <1>1, <3>4 DEF KeyTypeOK
  <2>3. CallersFit'
    BY <1>1, <1>4, <2>1 DEF Lookup, KeyTypeOK, CallersFit, SamePrefix, Status
  <2>4. QED
    BY <1>2, <2>2, <2>3
<1>5. CASE Verify(c)
  BY <1>1, <1>2, <1>5 DEF Verify, KeyTypeOK, CallersFit, SamePrefix
<1>6. CASE Leave(c)
  BY <1>1, <1>2, <1>6 DEF Leave, NoCall, KeyTypeOK, CallersFit, SamePrefix, Token
<1>7. QED
  BY <1>2, <1>3, <1>4, <1>5, <1>6

LEMMA KeyNext == KeyInv /\ [Next]_keyVars => KeyInv'
<1> SUFFICES ASSUME KeyInv, [Next]_keyVars PROVE KeyInv'
  OBVIOUS
<1>1. LinesFit' /\ HandedOutIsStored'
  BY StepsOfTable, LinesKept, HandedOutKept DEF KeyInv
<1>2. ASSUME NEW a \in Admin,
             \/ \E op \in Op, k \in Key \cup {NoKey} : Ask(a, op, k)
             \/ Serve(a) \/ Rotate(a) \/ HangUp(a)
      PROVE  KeyTypeOK' /\ HolderFits' /\ CallersFit'
  <2>1. KeyTypeOK' /\ HolderFits'
    BY <1>2, AdminKeeps
  <2>2. UNCHANGED caller
    BY <1>2 DEF Ask, Serve, Create, List, Revoke, StatementFails, RotateBegins, Rotate, RollsBack,
                RotateRevokes, RotateFindsNothing, RotateInserts, RotateCommits, RotateFails, HangUp
  <2>3. \A k \in Key : disk[k] = "revoked" => disk'[k] = "revoked"
    BY StepsOfTable DEF TableStep, Granted, Withdrawn, Replaced, KeyInv, KeyTypeOK
  <2>4. CallersFit'
    BY <2>2, <2>3 DEF CallersFit, KeyInv, SamePrefix
  <2>5. QED
    BY <2>1, <2>4
<1>3. ASSUME NEW c \in Caller,
             (\E t \in Token : Call(c, t)) \/ Lookup(c) \/ Verify(c) \/ Leave(c)
      PROVE  KeyTypeOK' /\ HolderFits' /\ CallersFit'
  BY <1>3, CallerKeeps
<1>4. CASE Crash
  <2>1. UNCHANGED <<disk, shown, line, closed>> /\ view' = disk /\ lock' = Free
        /\ admin' = [a \in Admin |-> NoRequest] /\ caller' = [c \in Caller |-> NoCall]
    BY <1>4 DEF Crash
  <2>2. KeyTypeOK'
    BY <2>1, KeyAssumption DEF KeyInv, KeyTypeOK, NoRequest, NoCall, Op, Holding, Token
  <2>3. HolderFits'
    BY <2>1 DEF HolderFits, MutexMeansCommitted, NoRequest, Holding
  <2>4. CallersFit'
    BY <2>1 DEF CallersFit, NoCall
  <2>5. QED
    BY <1>1, <2>2, <2>3, <2>4 DEF KeyInv
<1>5. CASE UNCHANGED keyVars
  <2>1. KeyTypeOK'
    BY <1>5 DEF keyVars, KeyInv, KeyTypeOK
  <2>2. HolderFits' /\ CallersFit'
    BY <1>5 DEF keyVars, KeyInv, HolderFits, MutexMeansCommitted, CallersFit, SamePrefix
  <2>3. QED
    BY <1>1, <2>1, <2>2 DEF KeyInv
<1>6. QED
  BY <1>1, <1>2, <1>3, <1>4, <1>5 DEF Next, KeyInv

LEMMA KeyInvariant == Spec => []KeyInv
BY KeyInit, KeyNext, PTL DEF Spec

-----------------------------------------------------------------------------

\* The types, and who holds the mutex.
THEOREM KeyTypes == Spec => []KeyTypeOK
<1>1. KeyInv => KeyTypeOK
  BY DEF KeyInv
<1>2. QED
  BY <1>1, KeyInvariant, PTL

\* A request made after its key was revoked is not let in, whatever is rotated or
\* created between lookup and verification, and whichever prefixes coincide.
THEOREM RevokedOut == Spec => []RevokedStaysOut
<1>1. KeyInv => RevokedStaysOut
  BY DEF KeyInv, CallersFit, RevokedStaysOut
<1>2. QED
  BY <1>1, KeyInvariant, PTL

\* No crash and no failing statement loses a key an operator was given.
THEOREM HandedOut == Spec => []HandedOutIsStored
<1>1. KeyInv => HandedOutIsStored
  BY DEF KeyInv
<1>2. QED
  BY <1>1, KeyInvariant, PTL

\* Whoever gets the mutex sees no part of a rotation.
THEOREM Committed == Spec => []MutexMeansCommitted
<1>1. KeyInv => MutexMeansCommitted
  BY DEF KeyInv, HolderFits
<1>2. QED
  BY <1>1, KeyInvariant, PTL

\* However often it is rotated, by whomever: an application has one key, until
\* its key is revoked.
THEOREM OneKey == Spec => []OneKeyPerLine
<1>1. KeyInv => OneKeyPerLine
  <2> SUFFICES ASSUME KeyInv, NEW k \in Key, disk[k] # "absent"
               PROVE  LET alive == {n \in Active(disk) : line[n] = line[k]}
                      IN IF line[k] \in closed THEN alive = {}
                                               ELSE \E n \in Key : alive = {n}
    BY DEF OneKeyPerLine
  <2> DEFINE alive == {n \in Active(disk) : line[n] = line[k]}
  <2>1. CASE line[k] \in closed
    BY <2>1 DEF KeyInv, LinesFit
  <2>2. CASE line[k] \notin closed
    <3>1. PICK n \in Active(disk) : line[n] = line[k]
      BY <2>2 DEF KeyInv, LinesFit
    <3>2. alive = {n} /\ n \in Key
      BY <3>1 DEF KeyInv, LinesFit, Active
    <3>3. QED
      BY <2>2, <3>2
  <2>3. QED
    BY <2>1, <2>2
<1>2. QED
  BY <1>1, KeyInvariant, PTL

HeldBriefly ==
  \A a \in Admin : lock = a =>
    \/ lock' = Free
    \/ /\ lock' = a
       /\ \/ UNCHANGED <<disk, view, admin[a]>>
          \/ /\ StatementsLeft(admin'[a].st) < StatementsLeft(admin[a].st)
             /\ UNCHANGED disk

\* A rotation that fails, that finds its key revoked, whose client is gone or
\* whose process dies: the mutex is given back after three statements at most,
\* and nobody else touched the table in between.
THEOREM MutexIsGivenBack == Spec => MutexComesFree
<1>1. KeyInv /\ [Next]_keyVars => [HeldBriefly]_keyVars
  <2> SUFFICES ASSUME KeyInv, Next, NEW a \in Admin, lock = a
               PROVE  \/ lock' = Free
                      \/ /\ lock' = a
                         /\ \/ UNCHANGED <<disk, view, admin[a]>>
                            \/ /\ StatementsLeft(admin'[a].st) < StatementsLeft(admin[a].st)
                               /\ UNCHANGED disk
    BY DEF HeldBriefly
  <2>1. /\ admin[a].st \in Holding /\ lock # Free
        /\ \A b \in Admin : admin[b].st \in Holding => b = a
        /\ \A b \in Admin : DOMAIN admin[b] = {"st", "op", "key", "new"}
    BY KeyAssumption DEF KeyInv, KeyTypeOK
  <2>2. CASE \E b \in Admin : Rotate(b)
    <3>1. Rotate(a)
      BY <2>1, <2>2 DEF Rotate, RotateRevokes, RotateFindsNothing, RotateInserts, RotateCommits,
                        RotateFails, Holding
    <3>2. CASE RotateRevokes(a) \/ RotateInserts(a)
      <4>1. /\ UNCHANGED <<disk, lock>>
            /\ \/ admin[a].st = "begun" /\ admin'[a].st = "moved"
               \/ admin[a].st = "moved" /\ admin'[a].st = "inserted"
        BY <2>1, <3>2 DEF RotateRevokes, RotateInserts, KeyInv, KeyTypeOK
      <4>2. QED
        BY <4>1 DEF StatementsLeft
    <3>3. CASE RotateFindsNothing(a) \/ RotateCommits(a) \/ RotateFails(a)
      BY <3>3 DEF RotateFindsNothing, RotateCommits, RotateFails, RollsBack
    <3>4. QED
      BY <3>1, <3>2, <3>3 DEF Rotate
  <2>3. ASSUME NEW b \in Admin,
               \/ \E op \in Op, k \in Key \cup {NoKey} : Ask(b, op, k)
               \/ Serve(b) \/ HangUp(b)
        PROVE  UNCHANGED <<disk, view, lock, admin[a]>>
    BY <2>1, <2>3 DEF Ask, Serve, Create, List, Revoke, StatementFails, RotateBegins, Has, HangUp,
                      Refuse, Holding, KeyInv, KeyTypeOK
  <2>4. ASSUME NEW c \in Caller,
               (\E t \in Token : Call(c, t)) \/ Lookup(c) \/ Verify(c) \/ Leave(c)
        PROVE  UNCHANGED <<disk, view, lock, admin[a]>>
    BY <2>4 DEF Call, Lookup, Verify, Leave
  <2>5. CASE Crash
    BY <2>5 DEF Crash
  <2>6. QED
    BY <2>2, <2>3, <2>4, <2>5 DEF Next
<1>2. Spec => [][HeldBriefly]_keyVars
  BY <1>1, KeyInvariant, PTL DEF Spec
<1>3. QED
  BY <1>2, PTL DEF MutexComesFree, HeldBriefly

-----------------------------------------------------------------------------
(* The key store implements the access list *)

Past == {k \in Key : disk[k] = "revoked"}

Told == [c \in Caller |-> Decided(c)]

LEMMA ListInitially == Init => Promise!ListInit
BY DEF Init, Promise!ListInit, Active, Decided, NoCall

\* Grant, Withdraw and Replace are what the table does.
LEMMA TableImplements ==
  ASSUME KeyInv, NEW k \in Key, Told' = Told,
         Granted(k) \/ Withdrawn(k) \/ \E n \in Key : Replaced(k, n)
  PROVE  Promise!ListNext
<1>a. Told' = [c \in Caller |-> Decided(c)]' /\ Told = [c \in Caller |-> Decided(c)]
  BY DEF Told
<1>1. CASE Granted(k)
  <2>1. Active(disk)' = Active(disk) \cup {k} /\ Past' = Past /\ k \notin Active(disk) \cup Past
    BY <1>1 DEF Granted, Active, Past, KeyInv, KeyTypeOK
  <2>2. Promise!Grant(k)
    BY <1>1, <1>a, <2>1 DEF Granted, Promise!Grant, Past
  <2>3. QED
    BY <2>2 DEF Promise!ListNext
<1>2. CASE Withdrawn(k)
  <2>1. Active(disk)' = Active(disk) \ {k} /\ Past' = Past \cup {k} /\ k \in Active(disk)
    BY <1>2 DEF Withdrawn, Active, Past, KeyInv, KeyTypeOK
  <2>2. Promise!Withdraw(k)
    BY <1>2, <1>a, <2>1 DEF Withdrawn, Promise!Withdraw, Past
  <2>3. QED
    BY <2>2 DEF Promise!ListNext
<1>3. ASSUME NEW n \in Key, Replaced(k, n)
      PROVE  Promise!ListNext
  <2>1. /\ Active(disk)' = (Active(disk) \ {k}) \cup {n} /\ Past' = Past \cup {k}
        /\ k \in Active(disk) /\ n \notin Active(disk) \cup Past
    BY <1>3 DEF Replaced, Active, Past, KeyInv, KeyTypeOK
  <2>2. Promise!Replace(k, n)
    BY <1>3, <1>a, <2>1 DEF Replaced, Promise!Replace, Past
  <2>3. QED
    BY <2>2 DEF Promise!ListNext
<1>4. QED
  BY <1>1, <1>2, <1>3

\* A caller is told at its lookup.
LEMMA CallerImplements ==
  ASSUME KeyInv, NEW c \in Caller, UNCHANGED <<disk, line, closed>>,
         (\E t \in Token : Call(c, t)) \/ Lookup(c) \/ Verify(c) \/ Leave(c)
  PROVE  Promise!ListNext \/ UNCHANGED Promise!listVars
<1>a. /\ Told' = [d \in Caller |-> Decided(d)]' /\ Told = [d \in Caller |-> Decided(d)]
      /\ Active(disk)' = Active(disk) /\ Past' = Past
  BY DEF Told, Active, Past
<1>b. \A d \in Caller \ {c} : caller'[d] = caller[d]
  BY DEF Call, Lookup, Verify, Leave, KeyInv, KeyTypeOK
<1>c. \A d \in Caller \ {c} : Told'[d] = Told[d]
  BY <1>b DEF Told, Decided
<1>d. DOMAIN Told = Caller /\ DOMAIN Told' = Caller
      /\ Told = [d \in Caller |-> Told[d]] /\ Told' = [d \in Caller |-> Told'[d]]
  BY DEF Told
<1>1. ASSUME Told'[c] = Told[c]
      PROVE  UNCHANGED Promise!listVars
  <2>1. Told' = Told
    BY <1>1, <1>c, <1>d
  <2>2. QED
    BY <1>a, <2>1 DEF Promise!listVars, Past
<1>2. ASSUME Told'[c] = <<>>
      PROVE  Promise!ListNext
  <2>1. Told' = [d \in Caller |-> IF d \in {c} THEN <<>> ELSE Told[d]]
    BY <1>2, <1>c, <1>d
  <2>2. Promise!Forget({c})
    BY <1>a, <2>1 DEF Promise!Forget, Past
  <2>3. QED
    BY <2>2 DEF Promise!ListNext
<1>3. CASE (\E t \in Token : Call(c, t)) \/ Leave(c)
  <2>1. caller'[c].st \in {"idle", "lookup"} /\ caller'[c].verdict = "none"
    <3>1. ASSUME NEW t \in Token, Call(c, t)
          PROVE  caller'[c].st = "lookup" /\ caller'[c].verdict = "none"
      BY <3>1 DEF Call, NoCall, KeyInv, KeyTypeOK
    <3>2. CASE Leave(c)
      BY <3>2 DEF Leave, NoCall, KeyInv, KeyTypeOK
    <3>3. QED
      BY <1>3, <3>1, <3>2
  <2>2. Told'[c] = <<>>
    BY <2>1 DEF Told, Decided
  <2>3. QED
    BY <1>2, <2>2
<1>4. CASE Verify(c)
  <2>1. caller[c].st = "verify" /\ caller'[c].st = "done" /\ caller'[c].token = caller[c].token
        /\ caller'[c].verdict = IF caller[c].found = caller[c].token THEN "in" ELSE "refused"
    BY <1>4 DEF Verify, KeyInv, KeyTypeOK
  <2>2. (caller'[c].verdict = "in") = (caller[c].found = caller[c].token)
    BY <2>1
  <2>3. Told[c] = <<caller[c].token, caller[c].found = caller[c].token>>
    BY <2>1 DEF Told, Decided
  <2>4. Told'[c] = <<caller'[c].token, caller'[c].verdict = "in">>
    BY <2>1 DEF Told, Decided
  <2>5. Told'[c] = Told[c]
    BY <2>1, <2>2, <2>3, <2>4
  <2>6. QED
    BY <1>1, <2>5
<1>5. CASE Lookup(c)
  <2> DEFINE t == caller[c].token
  <2>a. t \in Token /\ view = disk /\ caller[c].verdict = "none" /\ caller[c].st = "lookup"
    BY <1>5 DEF Lookup, KeyInv, CallersFit, HolderFits, MutexMeansCommitted
  <2>b. Told[c] = <<>>
    BY <2>a DEF Told, Decided
  <2>c. Active(disk) \subseteq Key
    BY DEF Active
  <2>1. ASSUME NEW k \in Matching(t),
               caller' = [caller EXCEPT ![c].st = "verify", ![c].found = k]
        PROVE  Promise!ListNext
    <3>1. k \in Active(disk) /\ SamePrefix(k, t)
      BY <2>a, <2>1 DEF Matching, Active
    <3>2. caller'[c].st = "verify" /\ caller'[c].found = k /\ caller'[c].token = t
      BY <2>1 DEF KeyInv, KeyTypeOK
    <3>3. Told'[c] = <<t, k = t>>
      BY <3>2 DEF Told, Decided
    <3>4. CASE k = t
      <4>1. Told' = [Told EXCEPT ![c] = <<t, TRUE>>]
        BY <1>c, <1>d, <3>3, <3>4
      <4>2. Promise!LetIn(c, t)
        BY <1>a, <3>1, <3>4, <4>1 DEF Promise!LetIn, Past
      <4>3. QED
        BY <2>a, <4>2 DEF Promise!ListNext
    <3>5. CASE k # t
      <4>1. Told' = [Told EXCEPT ![c] = <<t, FALSE>>]
        BY <1>c, <1>d, <3>3, <3>5
      <4>2. Promise!TurnAway(c, t)
        BY <1>a, <3>1, <3>5, <4>1 DEF Promise!TurnAway, Past, SamePrefix
      <4>3. QED
        BY <2>a, <4>2 DEF Promise!ListNext
    <3>6. QED
      BY <3>4, <3>5
  <2>2. ASSUME Matching(t) = {},
               caller' = [caller EXCEPT ![c].st = "done", ![c].verdict = "refused"]
        PROVE  Promise!ListNext
    <3>1. t \notin Active(disk)
      BY <2>a, <2>2 DEF Matching, Active, SamePrefix
    <3>2. caller'[c].st = "done" /\ caller'[c].verdict = "refused" /\ caller'[c].token = t
      BY <2>2 DEF KeyInv, KeyTypeOK
    <3>3. Told'[c] = <<t, FALSE>>
      BY <3>2 DEF Told, Decided
    <3>4. Told' = [Told EXCEPT ![c] = <<t, FALSE>>]
      BY <1>c, <1>d, <3>3
    <3>5. Promise!TurnAway(c, t)
      BY <1>a, <3>1, <3>4 DEF Promise!TurnAway, Past
    <3>6. QED
      BY <2>a, <3>5 DEF Promise!ListNext
  <2>3. ASSUME caller' = [caller EXCEPT ![c].st = "done", ![c].verdict = "error"]
        PROVE  Promise!ListNext
    <3>1. caller'[c].st = "done" /\ caller'[c].verdict = "error"
      BY <2>3 DEF KeyInv, KeyTypeOK
    <3>2. QED
      BY <1>2, <3>1 DEF Told, Decided
  <2>4. QED
    BY <1>5, <2>1, <2>2, <2>3 DEF Lookup
<1>6. QED
  BY <1>3, <1>4, <1>5

LEMMA ListSteps ==
  ASSUME KeyInv, [Next]_keyVars
  PROVE  Promise!ListNext \/ UNCHANGED Promise!listVars
<1>1. CASE /\ \E k \in Key : Granted(k) \/ Withdrawn(k) \/ \E n \in Key : Replaced(k, n)
           /\ UNCHANGED caller
  BY <1>1, TableImplements DEF Told, Decided
<1>2. CASE UNCHANGED <<disk, line, closed>>
  <2>1. CASE UNCHANGED caller
    <3>1. [c \in Caller |-> Decided(c)]' = [c \in Caller |-> Decided(c)]
      BY <2>1 DEF Decided
    <3>2. QED
      BY <1>2, <3>1 DEF Promise!listVars, Active
  <2>2. ASSUME NEW c \in Caller,
               (\E t \in Token : Call(c, t)) \/ Lookup(c) \/ Verify(c) \/ Leave(c)
        PROVE  Promise!ListNext \/ UNCHANGED Promise!listVars
    BY <1>2, <2>2, CallerImplements
  <2>3. CASE Crash
    <3>1. [c \in Caller |-> Decided(c)]' = [c \in Caller |-> IF c \in Caller THEN <<>> ELSE Decided(c)]
      BY <2>3 DEF Crash, Decided, NoCall
    <3>2. Promise!Forget(Caller)
      BY <1>2, <3>1 DEF Promise!Forget, Active
    <3>3. QED
      BY <3>2 DEF Promise!ListNext
  <2>4. ASSUME NEW a \in Admin,
               \/ \E op \in Op, k \in Key \cup {NoKey} : Ask(a, op, k)
               \/ Serve(a) \/ Rotate(a) \/ HangUp(a)
        PROVE  UNCHANGED caller
    BY <2>4 DEF Ask, Serve, Create, List, Revoke, StatementFails, RotateBegins, Rotate, RollsBack,
                RotateRevokes, RotateFindsNothing, RotateInserts, RotateCommits, RotateFails, HangUp
  <2>5. CASE UNCHANGED keyVars
    BY <2>1, <2>5 DEF keyVars
  <2>6. QED
    BY <2>1, <2>2, <2>3, <2>4, <2>5 DEF Next
<1>3. QED
  BY <1>1, <1>2, StepsOfTable DEF TableStep

\* A transaction of several statements, a lookup and a verification apart from
\* it, crashes in between: all of it is an access list that changes and decides
\* in single steps.
THEOREM AccessIsListed == Spec => ImplementsAccessList
<1>1. KeyInv /\ [Next]_keyVars => [Promise!ListNext]_(Promise!listVars)
  BY ListSteps
<1>2. QED
  BY <1>1, ListInitially, KeyInvariant, PTL DEF Spec, ImplementsAccessList, Promise!ListSpec

=============================================================================
