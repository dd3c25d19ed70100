------------------------------ MODULE KeyStore ------------------------------
(***************************************************************************)
(* Caller API keys: the api_keys table of src/db.rs behind its mutex, the  *)
(* admin handlers that create, list, revoke and rotate keys, and the       *)
(* CallerAuth extractor, which looks a key up under the mutex and verifies *)
(* it after the mutex is released.                                         *)
(*                                                                         *)
(* A key stands for its raw text, its id and its hash, which nobody        *)
(* confuses; its prefix, eight characters of which four are random, may be *)
(* shared.  A rotation is a transaction of several statements, any of      *)
(* which may fail, and the process may be killed between any two.          *)
(***************************************************************************)
EXTENDS Naturals, FiniteSets

CONSTANTS Key,       \* the keys that can be generated
          Stray,     \* tokens nobody was ever given
          PrefixOf,  \* the first eight characters of each
          Admin,     \* admin requests at a time, by task
          Caller,    \* caller requests at a time, by task
          NoKey, Free,
          DbErrors   \* whether a statement may fail

Token == Key \cup Stray

ASSUME KeyAssumption ==
  /\ Key \cap Stray = {}
  /\ NoKey \notin Token
  /\ Free \notin Admin
  /\ DbErrors \in BOOLEAN

VARIABLES disk,    \* the table as committed: the status of each key's row
          view,    \* the table as the connection sees it
          lock,    \* the admin task that holds the mutex over several steps
          admin, caller,
          shown,   \* history: the keys an operator was told
          line,    \* history: the key each row descends from by rotations
          closed   \* history: the lines that were ended by a revocation

keyVars == <<disk, view, lock, admin, caller, shown, line, closed>>

Status == {"absent", "active", "revoked"}
Op == {"create", "list", "revoke", "rotate"}

NoRequest == [st |-> "idle", op |-> "list", key |-> NoKey, new |-> NoKey]

NoCall == [st |-> "idle", token |-> NoKey, found |-> NoKey, barred |-> FALSE,
           verdict |-> "none"]

Init ==
  /\ disk = [k \in Key |-> "absent"] /\ view = disk
  /\ lock = Free
  /\ admin = [a \in Admin |-> NoRequest]
  /\ caller = [c \in Caller |-> NoCall]
  /\ shown = {} /\ line = [k \in Key |-> k] /\ closed = {}

Active(table) == {k \in Key : table[k] = "active"}

-----------------------------------------------------------------------------
(* The admin handlers *)

\* A request with the admin secret; without it nothing below happens.  Nor does
\* it when revoke or rotate are asked for an id that no row has: 404.
Ask(a, op, k) ==
  /\ admin[a].st = "idle"
  /\ IF op \in {"revoke", "rotate"} THEN k \in Key /\ disk[k] # "absent" ELSE k = NoKey
  /\ admin' = [admin EXCEPT ![a] =
                 [NoRequest EXCEPT !.st = "waiting", !.op = op, !.key = k]]
  /\ UNCHANGED <<disk, view, lock, caller, shown, line, closed>>

\* state.db.lock().await returned.
Has(a, op) == admin[a].st = "waiting" /\ admin[a].op = op /\ lock = Free

\* The request is over.  404 or 500: nothing comes of whether it arrives.
Refuse(a) == admin' = [admin EXCEPT ![a] = NoRequest]

\* The reply is the only one to carry a raw key.  Lost on the way, it leaves an
\* active key that nobody calls with.
Answer(a, k) ==
  /\ Refuse(a)
  /\ shown' = shown \cup {k}

\* A statement outside a transaction is committed as it is made.
Commits(k, status) ==
  /\ disk' = [disk EXCEPT ![k] = status]
  /\ view' = [view EXCEPT ![k] = status]

\* generate_api_key: 32 random characters, never drawn before.
Unused(k) == view[k] = "absent"

\* The row is read back after the INSERT, which stays if that fails.
ReadBack(a, k) == Answer(a, k) \/ (DbErrors /\ Refuse(a) /\ UNCHANGED shown)

Create(a) ==
  /\ Has(a, "create")
  /\ \E k \in Key :
       /\ Unused(k)
       /\ Commits(k, "active")
       /\ ReadBack(a, k)
  /\ UNCHANGED <<lock, caller, line, closed>>

List(a) ==
  /\ Has(a, "list")
  /\ Refuse(a)
  /\ UNCHANGED <<disk, view, lock, caller, shown, line, closed>>

\* UPDATE .. WHERE id = ? AND revoked_at IS NULL: one row, or 404.
Revoke(a) ==
  /\ Has(a, "revoke")
  /\ IF view[admin[a].key] = "active"
     THEN /\ Commits(admin[a].key, "revoked")
          /\ closed' = closed \cup {line[admin[a].key]}
     ELSE UNCHANGED <<disk, view, closed>>
  /\ Refuse(a)
  /\ UNCHANGED <<lock, caller, shown, line>>

\* create, list and revoke, when their statement fails.
StatementFails(a) ==
  /\ DbErrors
  /\ \E op \in {"create", "list", "revoke", "rotate"} : Has(a, op)
  /\ Refuse(a)
  /\ UNCHANGED <<disk, view, lock, caller, shown, line, closed>>

-----------------------------------------------------------------------------
(* rotate_key, which keeps the mutex until it has answered *)

\* The old record is read, whatever its status, and a key generated.
RotateBegins(a) ==
  /\ Has(a, "rotate")
  /\ \E n \in Key :
       /\ Unused(n)
       /\ admin' = [admin EXCEPT ![a].st = "begun", ![a].new = n]
  /\ lock' = a
  /\ UNCHANGED <<disk, view, caller, shown, line, closed>>

\* Mutant: the mutex is not released on this path.
KeepsTheMutex(a) ==
  /\ view' = disk
  /\ Refuse(a)
  /\ UNCHANGED <<disk, lock, caller, shown, line, closed>>

\* The transaction is dropped without a commit.
RollsBack(a) ==
  /\ view' = disk
  /\ lock' = Free
  /\ Refuse(a)
  /\ UNCHANGED <<disk, caller, shown, line, closed>>

\* Mutant: nobody looks how many rows the UPDATE changed.
RevokesAnything(a) ==
  /\ admin[a].st = "begun"
  /\ view' = [view EXCEPT ![admin[a].key] = "revoked"]
  /\ admin' = [admin EXCEPT ![a].st = "moved"]
  /\ UNCHANGED <<disk, lock, caller, shown, line, closed>>

\* Mutant: the UPDATE is not part of the transaction.
RevokesAtOnce(a) ==
  /\ admin[a].st = "begun"
  /\ view[admin[a].key] = "active"
  /\ Commits(admin[a].key, "revoked")
  /\ admin' = [admin EXCEPT ![a].st = "moved"]
  /\ UNCHANGED <<lock, caller, shown, line, closed>>

RotateRevokes(a) ==
  /\ admin[a].st = "begun"
  /\ view[admin[a].key] = "active"
  /\ view' = [view EXCEPT ![admin[a].key] = "revoked"]
  /\ admin' = [admin EXCEPT ![a].st = "moved"]
  /\ UNCHANGED <<disk, lock, caller, shown, line, closed>>

\* No row was active: a rotation of a key that is already revoked ends here.
RotateFindsNothing(a) ==
  /\ admin[a].st = "begun"
  /\ view[admin[a].key] # "active"
  /\ RollsBack(a)

RotateInserts(a) ==
  /\ admin[a].st = "moved"
  /\ view' = [view EXCEPT ![admin[a].new] = "active"]
  /\ admin' = [admin EXCEPT ![a].st = "inserted"]
  /\ UNCHANGED <<disk, lock, caller, shown, line, closed>>

\* Mutant: the transaction is dropped instead of committed.
ForgetsToCommit(a) ==
  /\ admin[a].st = "inserted"
  /\ view' = disk
  /\ lock' = Free
  /\ Answer(a, admin[a].new)
  /\ UNCHANGED <<disk, caller, line, closed>>

RotateCommits(a) ==
  /\ admin[a].st = "inserted"
  /\ disk' = view
  /\ line' = [line EXCEPT ![admin[a].new] = line[admin[a].key]]
  /\ lock' = Free
  /\ ReadBack(a, admin[a].new)
  /\ UNCHANGED <<view, caller, closed>>

Holding == {"begun", "moved", "inserted"}

RotateFails(a) ==
  /\ DbErrors
  /\ admin[a].st \in Holding
  /\ RollsBack(a)

Rotate(a) ==
  \/ RotateRevokes(a) \/ RotateFindsNothing(a) \/ RotateInserts(a)
  \/ RotateCommits(a) \/ RotateFails(a)

\* The client disconnects, and the handler is dropped where it awaits the
\* mutex.  Past that point it runs to its end.
HangUp(a) ==
  /\ admin[a].st = "waiting"
  /\ Refuse(a)
  /\ UNCHANGED <<disk, view, lock, caller, shown, line, closed>>

-----------------------------------------------------------------------------
(* CallerAuth *)

\* barred: the key is revoked when the request is made.
Call(c, t) ==
  /\ caller[c].st = "idle"
  /\ t \in shown \cup Stray
  /\ caller' = [caller EXCEPT ![c] =
                  [NoCall EXCEPT !.st = "lookup", !.token = t,
                                 !.barred = t \in Key /\ disk[t] = "revoked"]]
  /\ UNCHANGED <<disk, view, lock, admin, shown, line, closed>>

SamePrefix(k, t) == PrefixOf[k] = PrefixOf[t]

\* Mutant: revoked rows are looked up as well.
AnyRow(t) == {k \in Key : view[k] # "absent" /\ SamePrefix(k, t)}

\* get_active_key_hash_by_prefix: query_row takes any one of these.
Matching(t) == {k \in Key : view[k] = "active" /\ SamePrefix(k, t)}

\* The mutex is held for the query and released before the hash is verified.
Lookup(c) ==
  /\ caller[c].st = "lookup" /\ lock = Free
  /\ \/ \E k \in Matching(caller[c].token) :
          caller' = [caller EXCEPT ![c].st = "verify", ![c].found = k]
     \/ /\ Matching(caller[c].token) = {}
        /\ caller' = [caller EXCEPT ![c].st = "done", ![c].verdict = "refused"]
     \/ /\ DbErrors
        /\ caller' = [caller EXCEPT ![c].st = "done", ![c].verdict = "error"]
  /\ UNCHANGED <<disk, view, lock, admin, shown, line, closed>>

\* The hash of the row found is the token's, or the answer is 401.
Verify(c) ==
  /\ caller[c].st = "verify"
  /\ caller' = [caller EXCEPT ![c].st = "done",
                  ![c].verdict = IF caller[c].found = caller[c].token THEN "in" ELSE "refused"]
  /\ UNCHANGED <<disk, view, lock, admin, shown, line, closed>>

\* The request is over, or its client disconnects before that.
Leave(c) ==
  /\ caller[c].st # "idle"
  /\ caller' = [caller EXCEPT ![c] = NoCall]
  /\ UNCHANGED <<disk, view, lock, admin, shown, line, closed>>

-----------------------------------------------------------------------------

\* The process is killed and started again: what is not committed is gone.
Crash ==
  /\ view' = disk
  /\ lock' = Free
  /\ admin' = [a \in Admin |-> NoRequest]
  /\ caller' = [c \in Caller |-> NoCall]
  /\ UNCHANGED <<disk, shown, line, closed>>

Serve(a) ==
  Create(a) \/ List(a) \/ Revoke(a) \/ StatementFails(a) \/ RotateBegins(a)

Next ==
  \/ \E a \in Admin :
       \/ \E op \in Op, k \in Key \cup {NoKey} : Ask(a, op, k)
       \/ Serve(a) \/ Rotate(a) \/ HangUp(a)
  \/ \E c \in Caller :
       \/ \E t \in Token : Call(c, t)
       \/ Lookup(c) \/ Verify(c) \/ Leave(c)
  \/ Crash

Spec == Init /\ [][Next]_keyVars

-----------------------------------------------------------------------------
(* Properties *)

\* Types, and who holds the mutex.
KeyTypeOK ==
  /\ disk \in [Key -> Status] /\ view \in [Key -> Status]
  /\ admin \in [Admin ->
       [st : {"idle", "waiting"} \cup Holding, op : Op,
        key : Key \cup {NoKey}, new : Key \cup {NoKey}]]
  /\ caller \in [Caller ->
       [st : {"idle", "lookup", "verify", "done"}, token : Token \cup {NoKey},
        found : Key \cup {NoKey}, barred : BOOLEAN,
        verdict : {"none", "in", "refused", "error"}]]
  /\ shown \subseteq Key /\ closed \subseteq Key
  /\ line \in [Key -> Key]
  /\ lock \in Admin \cup {Free}
  /\ \A a \in Admin : admin[a].st \in Holding <=> lock = a

\* api-reference.md: "Revoked keys return 401 on subsequent use": a request
\* made after the revocation is not let in, although the mutex is released
\* between lookup and verification and rotations run all the time.
RevokedStaysOut ==
  \A c \in Caller : caller[c].barred => caller[c].verdict # "in"

\* A key that was handed out is stored, whatever crashed since: an operator
\* never holds a key the table has not heard of.
HandedOutIsStored == \A k \in shown : disk[k] # "absent"

\* Rotations keep one key of a line alive: concurrent and repeated rotations,
\* failing statements and crashes never leave two of them valid, and only a
\* revocation leaves none.
OneKeyPerLine ==
  \A k \in Key :
    disk[k] # "absent" =>
      LET alive == {n \in Active(disk) : line[n] = line[k]}
      IN IF line[k] \in closed THEN alive = {}
                               ELSE \E n \in Key : alive = {n}

\* Whoever gets the mutex, to list keys or to look one up, sees the table as it
\* is committed: never a rotation half way through, nor what is left of one.
MutexMeansCommitted == lock = Free => view = disk

\* The statements a rotation still has to make.
StatementsLeft(st) ==
  CASE st = "begun" -> 3 [] st = "moved" -> 2 [] st = "inserted" -> 1 [] OTHER -> 0

\* The mutex is held for three statements at the most, and until it is free only
\* its holder makes any: whatever callers and operators do meanwhile, the table
\* is as the last statement left it.
MutexComesFree ==
  [][\A a \in Admin : lock = a =>
       \/ lock' = Free
       \/ /\ lock' = a
          /\ \/ UNCHANGED <<disk, view, admin[a]>>
             \/ /\ StatementsLeft(admin'[a].st) < StatementsLeft(admin[a].st)
                /\ UNCHANGED disk]_keyVars

\* What CallerAuth decides at its lookup.
Decided(c) ==
  IF caller[c].st = "verify" THEN <<caller[c].token, caller[c].found = caller[c].token>>
  ELSE IF caller[c].verdict \in {"in", "refused"}
       THEN <<caller[c].token, caller[c].verdict = "in">>
       ELSE <<>>

Promise == INSTANCE AccessList WITH
  active <- Active(disk),
  past <- {k \in Key : disk[k] = "revoked"},
  answer <- [c \in Caller |-> Decided(c)]

\* Every change of the table is one grant, withdrawal or replacement, so that an
\* application is never without a key until its key is revoked, and every caller
\* is answered as if in one step, by the table as it is at that step.
ImplementsAccessList == Promise!ListSpec

=============================================================================
