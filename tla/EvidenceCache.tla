---------------------------- MODULE EvidenceCache ----------------------------
(* The SQLite evidence cache (src/hodl/cache.py) and the threads that share it:
   the main thread of every hodl process, which asks for action evidence
   (Simulator.evidence), and the handler threads of its ReadBridge, which
   answer the archive reads of the Anvil node the action runs on.

   A get() is four steps, because other threads run between them: SELECT under
   the lock, the fetch with the lock released, INSERT under the lock, commit.
   The fetch of an action opens a fork and makes two kinds of requests.  Those
   to the archive or the price API are get()s of their own, made by handler
   threads while the main thread waits for Anvil, or by the main thread itself
   (gas and token prices) inside the outer get().  Those to the action's own
   Anvil are not stored by themselves. *)
EXTENDS FiniteSets

CONSTANTS
  Procs,        \* hodl processes
  Crews,        \* those that share one cache file with each other
  Handlers,     \* handler threads of a process's read bridge
  Actions,      \* keys of action evidence (enter, exit, compound, accounting)
  Reads,        \* keys of archive reads and of price requests
  Asks,         \* the actions the comparison of a process is made of
  ReadsOf,      \* the reads an action makes
  Result,       \* how an action ends when every request is answered
  NoRow, Free, None

Outer == "outer"        \* the main thread's get() of an action
Inner == "inner"        \* a get() of a read nested in it, on the main thread
Main == "main"
Classes == {"value", "Unaffordable", "Reverted", "DepositLimit", "Unavailable"}

ASSUME CacheAssumption ==
  /\ Crews \subseteq SUBSET Procs
  /\ Asks \in [Procs -> SUBSET Actions]
  /\ ReadsOf \in [Actions -> SUBSET Reads]
  /\ Result \in [Actions -> Classes]
  /\ Actions \cap Reads = {}
  /\ {Outer, Inner, Main} \cap Handlers = {}
  /\ None \notin Procs /\ Free \notin Handlers \cup {Main}
  /\ NoRow \notin [of : Actions \cup Reads, class : Classes]

Keys == Actions \cup Reads
Frames == Handlers \cup {Outer, Inner}
Thread(f) == IF f \in {Outer, Inner} THEN Main ELSE f

VARIABLES
  db,         \* committed rows of the evidence table
  txn,        \* the open write transaction: SQLite allows one in all
  run,        \* what each process runs as: "online", "offline" or "stopped";
              \* "absent" is one that has no part in this cache file
  lock,       \* owner of Cache.lock in each process
  call,       \* the get() each frame is in: [pc, key, payload, for]
  pending,    \* reads of the current action not yet asked for
  serving,    \* frames whose answer the current action waits for
  failed,     \* whether a request the current action waited for has failed
  reported,   \* history: action outcomes handed to the engine
  faulty      \* history: actions a request of which failed

vars == <<db, txn, run, lock, call, pending, serving, failed, reported, faulty>>

Truth(r) == [of |-> r, class |-> "value"]
Idle == [pc |-> "idle", key |-> None, payload |-> NoRow, for |-> None]
Lookup(k, a) == [pc |-> "lookup", key |-> k, payload |-> NoRow, for |-> a]
NoTxn == [proc |-> None, key |-> None, payload |-> NoRow]

Init == /\ db = [k \in Keys |-> NoRow]
        /\ txn = NoTxn
        /\ \E crew \in Crews :
              run = [p \in Procs |-> IF p \in crew THEN "stopped" ELSE "absent"]
        /\ lock = [p \in Procs |-> Free]
        /\ call = [p \in Procs |-> [f \in Frames |-> Idle]]
        /\ pending = [p \in Procs |-> {}]
        /\ serving = [p \in Procs |-> {}]
        /\ failed = [p \in Procs |-> FALSE]
        /\ reported = {}
        /\ faulty = {}

HasNoNeedOfLock(p, f) == TRUE
HasLock(p, f) == lock[p] \in {Free, Thread(f)}
At(p, f, pc) == call[p][f].pc = pc
Becomes(p, f, c) == call' = [call EXCEPT ![p][f] = c]
Goto(p, f, pc) == Becomes(p, f, [call[p][f] EXCEPT !.pc = pc])

-----------------------------------------------------------------------------
(* What a get() hands back.  The main thread turns an action's payload into a
   value or an exception; a failed limit comes out as plain Unavailable. *)

RaisedClass(payload) ==
  IF payload.class \in {"value", "Unaffordable", "Reverted"}
  THEN payload.class ELSE "Unavailable"

\* the first caller goes through the same mapping as every later hit
ClassAsCaught(payload) == payload.class
FirstClass(payload) == RaisedClass(payload)

\* the frame returns; an answer reaches the action that waits for it, if any
AnyoneAnswers(p, f) == TRUE
IsAwaited(p, f) == f \in serving[p]
Answered(p, f, ok) ==
  /\ IF IsAwaited(p, f)
     THEN /\ serving' = [serving EXCEPT ![p] = @ \ {f}]
          /\ failed' = [failed EXCEPT ![p] = @ \/ ~ok]
     ELSE UNCHANGED <<serving, failed>>
  /\ faulty' = IF ok THEN faulty ELSE faulty \cup {call[p][f].for}

Return(p, f, class) ==
  IF f = Outer
  THEN /\ reported' = reported \cup {<<call[p][f].key, class>>}
       /\ UNCHANGED <<serving, failed, faulty>>
  ELSE /\ Answered(p, f, TRUE)
       /\ UNCHANGED reported

-----------------------------------------------------------------------------
(* Cache.get *)

LockKeptAfterMiss(p, f) == [lock EXCEPT ![p] = Thread(f)]
LockAfterMiss(p, f) == lock

\* SELECT: a hit returns the stored payload; a miss raises when offline and
\* otherwise starts the fetch, which runs without the lock
Hit(p, f) ==
  LET row == db[call[p][f].key]
  IN  /\ At(p, f, "lookup") /\ HasLock(p, f) /\ row # NoRow
      /\ Return(p, f, RaisedClass(row))
      /\ Becomes(p, f, Idle)
      /\ UNCHANGED <<db, txn, run, lock, pending>>

MissOffline(p, f) ==
  /\ At(p, f, "lookup") /\ HasLock(p, f) /\ db[call[p][f].key] = NoRow
  /\ run[p] = "offline"
  /\ Becomes(p, f, Idle)
  /\ UNCHANGED <<db, txn, run, lock, pending, serving, failed, reported, faulty>>

Miss(p, f) ==
  /\ At(p, f, "lookup") /\ HasLock(p, f) /\ db[call[p][f].key] = NoRow
  /\ run[p] = "online"
  /\ Goto(p, f, "fetch")
  /\ lock' = LockAfterMiss(p, f)
  /\ pending' = IF f = Outer
                THEN [pending EXCEPT ![p] = ReadsOf[call[p][f].key]]
                ELSE pending
  /\ UNCHANGED <<db, txn, run, serving, failed, reported, faulty>>

\* another process's transaction blocks a write; on the own connection only
\* Cache.lock keeps two threads out of one transaction
Writable(p) == txn.proc \in {None, p}

InsertAndReturn(p, f) ==
  /\ At(p, f, "store") /\ HasLock(p, f) /\ Writable(p)
  /\ lock' = [lock EXCEPT ![p] = Thread(f)]
  /\ txn' = [proc |-> p, key |-> call[p][f].key, payload |-> call[p][f].payload]
  /\ Goto(p, f, "commit")
  /\ Return(p, f, FirstClass(call[p][f].payload))
  /\ UNCHANGED <<db, run, pending>>

\* INSERT OR IGNORE takes Cache.lock and SQLite's write lock ...
Insert(p, f) ==
  /\ At(p, f, "store") /\ HasLock(p, f) /\ Writable(p)
  /\ lock' = [lock EXCEPT ![p] = Thread(f)]
  /\ txn' = [proc |-> p, key |-> call[p][f].key, payload |-> call[p][f].payload]
  /\ Goto(p, f, "commit")
  /\ UNCHANGED <<db, run, pending, serving, failed, reported, faulty>>

OrReplace(k, payload) == payload
OrIgnore(k, payload) == IF db[k] = NoRow THEN payload ELSE db[k]

\* ... and commit() releases both; the caller gets its own payload, stored or not
Commit(p, f) ==
  /\ At(p, f, "commit")
  /\ db' = [db EXCEPT ![txn.key] = OrIgnore(txn.key, txn.payload)]
  /\ txn' = NoTxn
  /\ lock' = [lock EXCEPT ![p] = Free]
  /\ Return(p, f, FirstClass(call[p][f].payload))
  /\ Becomes(p, f, Idle)
  /\ UNCHANGED <<run, pending>>

-----------------------------------------------------------------------------
(* Fetching: what runs between a miss and the INSERT *)

Fetched(p, f, payload) ==
  Becomes(p, f, [call[p][f] EXCEPT !.pc = "store", !.payload = payload])

\* the archive or the price API answers, or the request raises Unavailable,
\* which leaves get() at once
ArchiveAnswers(p, f) ==
  /\ f # Outer /\ At(p, f, "fetch")
  /\ Fetched(p, f, Truth(call[p][f].key))
  /\ UNCHANGED <<db, txn, run, lock, pending, serving, failed, reported, faulty>>

ArchiveErrorStored(p, f) ==
  /\ f # Outer /\ At(p, f, "fetch")
  /\ Fetched(p, f, [of |-> call[p][f].key, class |-> "Unavailable"])
  /\ UNCHANGED <<db, txn, run, lock, pending, serving, failed, reported, faulty>>
ArchiveFails(p, f) ==
  /\ f # Outer /\ At(p, f, "fetch")
  /\ Answered(p, f, FALSE)
  /\ Becomes(p, f, Idle)
  /\ UNCHANGED <<db, txn, run, lock, pending, reported>>

StartRead(p, f, r) ==
  /\ r \in pending[p]
  /\ At(p, Outer, "fetch") /\ At(p, Inner, "idle") /\ At(p, f, "idle")
  /\ Becomes(p, f, Lookup(r, call[p][Outer].key))
  /\ pending' = [pending EXCEPT ![p] = @ \ {r}]
  /\ serving' = [serving EXCEPT ![p] = @ \cup {f}]
  /\ UNCHANGED <<db, txn, run, lock, failed, reported, faulty>>

\* Anvil asks the bridge; several reads may be in flight at once
BridgeRead(p, h, r) == StartRead(p, h, r)

\* the main thread reads for itself, between two calls of the node
DirectRead(p, r) == serving[p] = {} /\ StartRead(p, Inner, r)

\* a request to the action's own Anvil fails, with or without an archive read
\* under way: the node does not start in time, times out, loses the connection,
\* reports an error or mines no receipt; handlers that still read are not told
NodeFails(p) ==
  /\ At(p, Outer, "fetch") /\ At(p, Inner, "idle")
  /\ failed' = [failed EXCEPT ![p] = TRUE]
  /\ faulty' = faulty \cup {call[p][Outer].key}
  /\ serving' = [serving EXCEPT ![p] = {}]
  /\ UNCHANGED <<db, txn, run, lock, call, pending, reported>>

\* a failed request ends the action, or is passed over: polled again until the
\* node is up, or taken for a storage slot that does not match
Outcomes(p) ==
  LET a == call[p][Outer].key
  IN  {class \in {"Unavailable"} : failed[p]}
        \cup {class \in {Result[a]} : pending[p] = {} /\ serving[p] = {}}

\* calculate() catches Unavailable and its subclasses and returns the outcome;
\* the fork is closed, and handlers it still had are left to themselves
Calculate(p) ==
  /\ At(p, Outer, "fetch") /\ At(p, Inner, "idle")
  /\ \E class \in Outcomes(p) :
        Fetched(p, Outer, [of |-> call[p][Outer].key, class |-> class])
  /\ pending' = [pending EXCEPT ![p] = {}]
  /\ serving' = [serving EXCEPT ![p] = {}]
  /\ failed' = [failed EXCEPT ![p] = FALSE]
  /\ UNCHANGED <<db, txn, run, lock, reported, faulty>>

-----------------------------------------------------------------------------
(* Processes *)

\* the engine asks for the outcome of an action
Ask(p, a) ==
  /\ run[p] \in {"online", "offline"} /\ At(p, Outer, "idle")
  /\ a \in Asks[p]
  /\ Becomes(p, Outer, Lookup(a, a))
  /\ UNCHANGED <<db, txn, run, lock, pending, serving, failed, reported, faulty>>

Start(p, mode) ==
  /\ run[p] = "stopped"
  /\ run' = [run EXCEPT ![p] = mode]
  /\ UNCHANGED <<db, txn, lock, call, pending, serving, failed, reported, faulty>>

\* the process ends or is killed: cache.close() takes no lock and waits for no
\* handler, daemon threads die, and an open transaction is rolled back
Stop(p) ==
  /\ run[p] \in {"online", "offline"}
  /\ run' = [run EXCEPT ![p] = "stopped"]
  /\ txn' = IF txn.proc = p THEN NoTxn ELSE txn
  /\ lock' = [lock EXCEPT ![p] = Free]
  /\ call' = [call EXCEPT ![p] = [f \in Frames |-> Idle]]
  /\ pending' = [pending EXCEPT ![p] = {}]
  /\ serving' = [serving EXCEPT ![p] = {}]
  /\ failed' = [failed EXCEPT ![p] = FALSE]
  /\ UNCHANGED <<db, reported, faulty>>

Get(p, f) == Hit(p, f) \/ MissOffline(p, f) \/ Miss(p, f) \/ Insert(p, f)
             \/ Commit(p, f)
Fetch(p, f) == ArchiveAnswers(p, f) \/ ArchiveFails(p, f)
Begin(p, f) == IF f = Inner THEN \E r \in Reads : DirectRead(p, r)
               ELSE f # Outer /\ \E r \in Reads : BridgeRead(p, f, r)

Next == \E p \in Procs :
          \/ \E f \in Frames : Get(p, f) \/ Fetch(p, f) \/ Begin(p, f)
          \/ NodeFails(p) \/ Calculate(p) \/ Stop(p)
          \/ \E a \in Actions : Ask(p, a)
          \/ \E mode \in {"online", "offline"} : Start(p, mode)

Spec == Init /\ [][Next]_vars

(* Threads run; a thread waiting for Cache.lock gets it if it is freed again
   and again; the archive answers or its request times out; an action makes the
   reads it has left, or ends. *)
Fairness == \A p \in Procs :
              /\ \A f \in Frames : SF_vars(Get(p, f) \/ Fetch(p, f))
              /\ WF_vars(Calculate(p) \/ \E f \in Frames : Begin(p, f))

FairSpec == Spec /\ Fairness
-----------------------------------------------------------------------------
Payloads == [of : Keys, class : Classes]

(* Types; a payload waiting to be stored belongs to its key, and a read's is
   the archive's answer. *)
Calls == [pc : {"idle", "lookup", "fetch", "store", "commit"},
          key : Keys \cup {None}, payload : Payloads \cup {NoRow},
          for : Actions \cup {None}]
CallOK(f, c) ==
  /\ c \in Calls
  /\ c.pc # "idle" => /\ c.key \in IF f = Outer THEN Actions ELSE Reads
                      /\ c.for \in Actions
  /\ c.pc \in {"store", "commit"} => /\ c.payload \in Payloads
                                     /\ f # Outer => c.payload = Truth(c.key)
TypeOK ==
  /\ db \in [Keys -> Payloads \cup {NoRow}]
  /\ run \in [Procs -> {"online", "offline", "stopped", "absent"}]
  /\ lock \in [Procs -> Handlers \cup {Main, Free}]
  /\ call \in [Procs -> [Frames -> Calls]]
  /\ \A p \in Procs, f \in Frames : CallOK(f, call[p][f])
  /\ pending \in [Procs -> SUBSET Reads]
  /\ reported \subseteq Actions \X Classes

(* An open transaction, the lock of its process and the thread that commits go
   together; a nested read runs only inside the fetch of an action. *)
OneWriter ==
  /\ \A p \in Procs, f \in Frames :
        At(p, f, "commit") => /\ lock[p] = Thread(f)
                              /\ txn = [proc |-> p, key |-> call[p][f].key,
                                        payload |-> call[p][f].payload]
  /\ \A p \in Procs : lock[p] # Free \/ txn.proc = p =>
        \E f \in Frames : At(p, f, "commit")
  /\ \A p \in Procs : ~At(p, Inner, "idle") => At(p, Outer, "fetch")

(* The first committed payload of a key stays, whichever process or thread
   fetched it again meanwhile. *)
FirstWriteWins == [][\A k \in Keys : db[k] # NoRow => db'[k] = db[k]]_db

(* No thread looks a key up inside another thread's transaction on the shared
   connection: it would act on a row that a crash may still take back. *)
ReadsSeeCommittedRows ==
  [][\A p \in Procs, f \in Frames :
        At(p, f, "lookup") /\ ~At(p, f, "lookup")' /\ run'[p] # "stopped"
        => txn.proc # p]_vars

(* A failed archive read is never stored: only the archive's answer is. *)
OnlyAnswersStored == \A r \in Reads : db[r] \in {NoRow, Truth(r)}

(* What the engine was told about an action survives a crash or exit: there is
   a committed row for it, also when two processes raced for the key. *)
ReportedIsDurable == \A x \in reported : db[x[1]] # NoRow

(* With one process on the cache file, every later run of an action, online or
   offline, before or after a crash, ends in the same exception class or value
   as the first: a skipped compound stays a skip, a failure a failure. *)
ReplayReproduces ==
  (\A p, q \in Procs : run[p] = "absent" \/ run[q] = "absent" \/ p = q) =>
  \A x \in reported : db[x[1]] # NoRow /\ RaisedClass(db[x[1]]) = x[2]

(* An action whose requests are all answered is never recorded as unavailable,
   which would stay for good: a record that differs from what the action comes
   to means that a request it waited for itself failed, to the archive, the
   price API or its own node.  A read that fails late, for a fork already given
   up, counts for nobody. *)
FailureHasCause ==
  \A a \in Actions : db[a] # NoRow /\ db[a].class # Result[a] => a \in faulty

(* No get() waits for ever: the fetch of an action, which needs gets of other
   threads, cannot hold what they need. *)
EveryGetReturns ==
  \A p \in Procs, f \in Frames : ~At(p, f, "idle") ~> At(p, f, "idle")
=============================================================================
