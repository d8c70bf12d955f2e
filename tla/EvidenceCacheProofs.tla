------------------------ MODULE EvidenceCacheProofs ------------------------
(* What holds of the evidence cache for any number of processes, handler
   threads and keys: the lock and the open transaction belong to one thread,
   the first committed row of a key stays, nobody reads inside another thread's
   transaction, what the engine was told is on disk, a recorded failure has a
   cause, and one process alone is told the same again at every run.

   TypeOK /\ OneWriter is inductive: a committing thread holds the lock of its
   process and the only transaction there is, which is what makes a lookup under
   the lock see committed rows only.  The last two results need more: Awaited and
   Blamed follow a failure from the read to the payload, Started and Unstored keep
   the row of an action free while it is being fetched. *)
EXTENDS EvidenceCache, TLAPS

(* Every frame runs on a thread of its process, and only the two frames of the
   main thread share one. *)
LEMMA ThreadFacts ==
  ASSUME NEW f \in Frames, NEW g \in Frames
  PROVE  /\ Thread(f) \in Handlers \cup {Main, Free}
         /\ Thread(f) # Free
         /\ Thread(f) = Thread(g) /\ f # g => \/ f = Outer /\ g = Inner
                                              \/ f = Inner /\ g = Outer
  BY CacheAssumption DEF Frames, Thread, Outer, Inner, Main

LEMMA ConstantFacts ==
  /\ NoRow \notin Payloads
  /\ None \notin Procs
  /\ Outer \in Frames /\ Inner \in Frames /\ Outer # Inner
  /\ \A r \in Reads : Truth(r) \in Payloads /\ r \notin Actions
  /\ \A f \in Frames : Idle \in Calls /\ CallOK(f, Idle)
  BY CacheAssumption
  DEF Payloads, Keys, Frames, Outer, Inner, Truth, Classes, Idle, Calls, CallOK

(* Giving one frame a new call leaves the calls of all others alone. *)
LEMMA BecomesFacts ==
  ASSUME TypeOK, NEW p \in Procs, NEW f \in Frames, NEW c, CallOK(f, c),
         Becomes(p, f, c)
  PROVE  /\ call' \in [Procs -> [Frames -> Calls]]
         /\ \A q \in Procs, g \in Frames :
               call'[q][g] = IF q = p /\ g = f THEN c ELSE call[q][g]
         /\ \A q \in Procs, g \in Frames : CallOK(g, call'[q][g])
<1>1. c \in Calls
  BY DEF CallOK
<1>2. call' \in [Procs -> [Frames -> Calls]]
  BY <1>1 DEF TypeOK, Becomes
<1>3. \A q \in Procs, g \in Frames :
         call'[q][g] = IF q = p /\ g = f THEN c ELSE call[q][g]
  BY DEF TypeOK, Becomes
<1>4. \A q \in Procs, g \in Frames : CallOK(g, call'[q][g])
  BY <1>3 DEF TypeOK
<1> QED
  BY <1>2, <1>3, <1>4

(* Moving on in a get() keeps its call well formed. *)
LEMMA GotoOK ==
  ASSUME TypeOK, NEW p \in Procs, NEW f \in Frames, NEW pc,
         ~At(p, f, "idle"),
         \/ pc = "fetch"
         \/ At(p, f, "store") /\ pc = "commit"
  PROVE  CallOK(f, [call[p][f] EXCEPT !.pc = pc])
<1>1. call[p][f] \in Calls /\ CallOK(f, call[p][f])
  BY DEF TypeOK
<1> QED
  BY <1>1 DEF CallOK, Calls, At

LEMMA FetchedOK ==
  ASSUME TypeOK, NEW p \in Procs, NEW f \in Frames, NEW payload \in Payloads,
         ~At(p, f, "idle"),
         f # Outer => payload = Truth(call[p][f].key)
  PROVE  CallOK(f, [call[p][f] EXCEPT !.pc = "store", !.payload = payload])
<1>1. call[p][f] \in Calls /\ CallOK(f, call[p][f])
  BY DEF TypeOK
<1> QED
  BY <1>1 DEF CallOK, Calls, At

LEMMA LookupOK ==
  ASSUME NEW f \in Frames, NEW k, NEW a \in Actions,
         k \in IF f = Outer THEN Actions ELSE Reads
  PROVE  CallOK(f, Lookup(k, a))
  BY DEF CallOK, Calls, Lookup, Keys

(* What a frame returns keeps `reported` typed. *)
LEMMA RaisedClassType ==
  ASSUME NEW payload \in Payloads
  PROVE  RaisedClass(payload) \in Classes
BY DEF RaisedClass, Payloads, Classes

LEMMA ReturnOK ==
  ASSUME TypeOK, NEW p \in Procs, NEW f \in Frames, NEW class \in Classes,
         ~At(p, f, "idle"),
         Return(p, f, class)
  PROVE  /\ reported' \subseteq Actions \X Classes
         /\ \A x \in reported' : x \in reported \/ x[1] = call[p][f].key
<1>1. CASE f = Outer
  <2>1. call[p][f].key \in Actions
    BY <1>1 DEF TypeOK, CallOK, At
  <2>2. reported' = reported \cup {<<call[p][f].key, class>>}
    BY <1>1 DEF Return
  <2> QED
    BY <2>1, <2>2 DEF TypeOK
<1>2. CASE f # Outer
  BY <1>2 DEF Return, TypeOK
<1> QED
  BY <1>1, <1>2
-----------------------------------------------------------------------------
(* Types are inductive together with OneWriter, which says what a commit writes. *)
LEMMA InitInv == Init => TypeOK /\ OneWriter
<1> SUFFICES ASSUME Init PROVE TypeOK /\ OneWriter
  OBVIOUS
<1>1. TypeOK
  BY ConstantFacts DEF Init, TypeOK
<1>2. OneWriter
  BY ConstantFacts DEF Init, OneWriter, At, Idle, NoTxn
<1> QED
  BY <1>1, <1>2

LEMMA TypeStep ==
  ASSUME TypeOK, OneWriter, [Next]_vars
  PROVE  TypeOK'
<1> USE ConstantFacts
<1>1. ASSUME NEW p \in Procs, NEW f \in Frames, Hit(p, f) PROVE TypeOK'
  <2>1. /\ At(p, f, "lookup")
        /\ Return(p, f, RaisedClass(db[call[p][f].key]))
        /\ Becomes(p, f, Idle)
        /\ db[call[p][f].key] # NoRow
        /\ UNCHANGED <<db, txn, run, lock, pending>>
    BY <1>1 DEF Hit
  <2>2. call[p][f].key \in Keys
    BY <2>1 DEF TypeOK, CallOK, At, Keys
  <2>3. RaisedClass(db[call[p][f].key]) \in Classes
    BY <2>1, <2>2, RaisedClassType DEF TypeOK
  <2>4. reported' \subseteq Actions \X Classes
    BY <2>1, <2>3, ReturnOK DEF At
  <2> QED
    BY <2>1, <2>4, BecomesFacts DEF TypeOK
<1>2. ASSUME NEW p \in Procs, NEW f \in Frames, MissOffline(p, f) PROVE TypeOK'
  <2>1. Becomes(p, f, Idle) /\ UNCHANGED <<db, run, lock, pending, reported>>
    BY <1>2 DEF MissOffline
  <2> QED
    BY <2>1, BecomesFacts DEF TypeOK
<1>3. ASSUME NEW p \in Procs, NEW f \in Frames, Miss(p, f) PROVE TypeOK'
  <2>1. /\ At(p, f, "lookup")
        /\ Becomes(p, f, [call[p][f] EXCEPT !.pc = "fetch"])
        /\ pending' \in {pending, [pending EXCEPT ![p] = ReadsOf[call[p][f].key]]}
        /\ f # Outer => pending' = pending
        /\ UNCHANGED <<db, run, lock, reported>>
    BY <1>3 DEF Miss, Goto, LockAfterMiss
  <2>2. CallOK(f, [call[p][f] EXCEPT !.pc = "fetch"])
    BY <2>1, GotoOK DEF At
  <2>3. f = Outer => ReadsOf[call[p][f].key] \in SUBSET Reads
    BY <2>1, CacheAssumption DEF TypeOK, CallOK, At
  <2>4. pending' \in [Procs -> SUBSET Reads]
    BY <2>1, <2>3 DEF TypeOK
  <2> QED
    BY <2>1, <2>2, <2>4, BecomesFacts DEF TypeOK
<1>4. ASSUME NEW p \in Procs, NEW f \in Frames, Insert(p, f) PROVE TypeOK'
  <2>1. /\ At(p, f, "store")
        /\ lock' = [lock EXCEPT ![p] = Thread(f)]
        /\ Becomes(p, f, [call[p][f] EXCEPT !.pc = "commit"])
        /\ UNCHANGED <<db, run, pending, reported>>
    BY <1>4 DEF Insert, Goto
  <2>2. CallOK(f, [call[p][f] EXCEPT !.pc = "commit"])
    BY <2>1, GotoOK DEF At
  <2>3. lock' \in [Procs -> Handlers \cup {Main, Free}]
    BY <2>1, ThreadFacts DEF TypeOK
  <2> QED
    BY <2>1, <2>2, <2>3, BecomesFacts DEF TypeOK
<1>5. ASSUME NEW p \in Procs, NEW f \in Frames, Commit(p, f) PROVE TypeOK'
  <2>1. /\ At(p, f, "commit")
        /\ db' = [db EXCEPT ![txn.key] = OrIgnore(txn.key, txn.payload)]
        /\ lock' = [lock EXCEPT ![p] = Free]
        /\ Return(p, f, FirstClass(call[p][f].payload))
        /\ Becomes(p, f, Idle)
        /\ UNCHANGED <<run, pending>>
    BY <1>5 DEF Commit
  <2>2. call[p][f].key \in Keys /\ call[p][f].payload \in Payloads
    BY <2>1 DEF TypeOK, CallOK, At, Keys
  <2>3. txn.key = call[p][f].key /\ txn.payload = call[p][f].payload
    BY <2>1 DEF OneWriter
  <2>4. db' \in [Keys -> Payloads \cup {NoRow}]
    BY <2>1, <2>2, <2>3 DEF TypeOK, OrIgnore
  <2>5. reported' \subseteq Actions \X Classes
    BY <2>1, <2>2, RaisedClassType, ReturnOK DEF At, FirstClass
  <2>6. lock' \in [Procs -> Handlers \cup {Main, Free}]
    BY <2>1 DEF TypeOK
  <2> QED
    BY <2>1, <2>4, <2>5, <2>6, BecomesFacts DEF TypeOK
<1>6. ASSUME NEW p \in Procs, NEW f \in Frames, ArchiveAnswers(p, f)
      PROVE  TypeOK'
  <2>1. /\ f # Outer /\ At(p, f, "fetch")
        /\ Fetched(p, f, Truth(call[p][f].key))
        /\ UNCHANGED <<db, run, lock, pending, reported>>
    BY <1>6 DEF ArchiveAnswers
  <2>2. Truth(call[p][f].key) \in Payloads
    BY <2>1 DEF TypeOK, CallOK, At
  <2>3. CallOK(f, [call[p][f] EXCEPT !.pc = "store",
                                     !.payload = Truth(call[p][f].key)])
    BY <2>1, <2>2, FetchedOK DEF At
  <2> QED
    BY <2>1, <2>3, BecomesFacts DEF TypeOK, Fetched
<1>7. ASSUME NEW p \in Procs, NEW f \in Frames, ArchiveFails(p, f)
      PROVE  TypeOK'
  <2>1. Becomes(p, f, Idle) /\ UNCHANGED <<db, run, lock, pending, reported>>
    BY <1>7 DEF ArchiveFails
  <2> QED
    BY <2>1, BecomesFacts DEF TypeOK
<1>8. ASSUME NEW p \in Procs, NEW f \in Frames, f # Outer, NEW r \in Reads,
             StartRead(p, f, r)
      PROVE  TypeOK'
  <2>1. /\ At(p, Outer, "fetch")
        /\ Becomes(p, f, Lookup(r, call[p][Outer].key))
        /\ pending' = [pending EXCEPT ![p] = @ \ {r}]
        /\ UNCHANGED <<db, run, lock, reported>>
    BY <1>8 DEF StartRead
  <2>2. CallOK(f, Lookup(r, call[p][Outer].key))
    BY <1>8, <2>1, LookupOK DEF TypeOK, CallOK, At
  <2>3. pending' \in [Procs -> SUBSET Reads]
    BY <2>1 DEF TypeOK
  <2> QED
    BY <2>1, <2>2, <2>3, BecomesFacts DEF TypeOK
<1>9. ASSUME NEW p \in Procs, NodeFails(p) PROVE TypeOK'
  BY <1>9 DEF NodeFails, TypeOK
<1>10. ASSUME NEW p \in Procs, Calculate(p) PROVE TypeOK'
  <2>1. PICK class \in Classes :
          Fetched(p, Outer, [of |-> call[p][Outer].key, class |-> class])
    <3>1. call[p][Outer].key \in Actions
      BY <1>10 DEF Calculate, TypeOK, CallOK, At
    <3>2. Result[call[p][Outer].key] \in Classes /\ "Unavailable" \in Classes
      BY <3>1, CacheAssumption DEF Classes
    <3> QED
      BY <1>10, <3>2 DEF Calculate, Outcomes
  <2>2. /\ At(p, Outer, "fetch")
        /\ pending' = [pending EXCEPT ![p] = {}]
        /\ UNCHANGED <<db, run, lock, reported>>
    BY <1>10 DEF Calculate
  <2>3. [of |-> call[p][Outer].key, class |-> class] \in Payloads
    BY <2>2 DEF TypeOK, CallOK, At, Payloads, Keys
  <2>4. CallOK(Outer, [call[p][Outer] EXCEPT !.pc = "store",
                  !.payload = [of |-> call[p][Outer].key, class |-> class]])
    BY <2>2, <2>3, FetchedOK DEF At
  <2>5. pending' \in [Procs -> SUBSET Reads]
    BY <2>2 DEF TypeOK
  <2> QED
    BY <2>1, <2>2, <2>4, <2>5, BecomesFacts DEF TypeOK, Fetched
<1>11. ASSUME NEW p \in Procs, NEW a \in Actions, Ask(p, a) PROVE TypeOK'
  <2>1. Becomes(p, Outer, Lookup(a, a)) /\ UNCHANGED <<db, run, lock, pending, reported>>
    BY <1>11 DEF Ask
  <2>2. CallOK(Outer, Lookup(a, a))
    BY LookupOK
  <2> QED
    BY <2>1, <2>2, BecomesFacts DEF TypeOK
<1>12. ASSUME NEW p \in Procs, NEW mode \in {"online", "offline"}, Start(p, mode)
       PROVE  TypeOK'
  BY <1>12 DEF Start, TypeOK
<1>13. ASSUME NEW p \in Procs, Stop(p) PROVE TypeOK'
  <2>1. call' = [call EXCEPT ![p] = [f \in Frames |-> Idle]]
    BY <1>13 DEF Stop
  <2>2. /\ call' \in [Procs -> [Frames -> Calls]]
        /\ \A q \in Procs, g \in Frames :
              call'[q][g] = IF q = p THEN Idle ELSE call[q][g]
    BY <2>1 DEF TypeOK
  <2>3. \A q \in Procs, g \in Frames : CallOK(g, call'[q][g])
    BY <2>2 DEF TypeOK
  <2> QED
    BY <1>13, <2>2, <2>3 DEF Stop, TypeOK
<1>14. CASE UNCHANGED vars
  BY <1>14 DEF vars, TypeOK
<1> QED
  BY <1>1, <1>2, <1>3, <1>4, <1>5, <1>6, <1>7, <1>8, <1>9, <1>10, <1>11, <1>12,
     <1>13, <1>14 DEF Next, Get, Fetch, Begin, BridgeRead, DirectRead
-----------------------------------------------------------------------------
(* At most one thread of all processes is between its INSERT and its commit. *)
LEMMA OneCommit ==
  ASSUME TypeOK, OneWriter,
         NEW p \in Procs, NEW f \in Frames, At(p, f, "commit"),
         NEW q \in Procs, NEW g \in Frames, At(q, g, "commit")
  PROVE  p = q /\ f = g
<1>1. txn.proc = p /\ txn.proc = q
  BY DEF OneWriter
<1>2. Thread(f) = Thread(g)
  BY <1>1 DEF OneWriter
<1>3. ~(At(p, Outer, "commit") /\ At(p, Inner, "commit"))
  BY DEF OneWriter, At
<1> QED
  BY <1>1, <1>2, <1>3, ThreadFacts

(* A thread that may take the lock finds its process with no open transaction. *)
LEMMA LockedOut ==
  ASSUME TypeOK, OneWriter, NEW p \in Procs, NEW f \in Frames,
         HasLock(p, f), At(p, f, "lookup") \/ At(p, f, "store")
  PROVE  /\ \A g \in Frames : ~At(p, g, "commit")
         /\ txn.proc # p
<1>1. ASSUME NEW g \in Frames, At(p, g, "commit") PROVE FALSE
  <2>1. lock[p] = Thread(g) /\ f # g
    BY <1>1 DEF OneWriter, At
  <2>2. Thread(f) = Thread(g)
    BY <2>1, ThreadFacts DEF HasLock
  <2>3. (f = Outer /\ g = Inner) \/ (f = Inner /\ g = Outer)
    BY <2>1, <2>2, ThreadFacts
  <2>4. ~At(p, Inner, "idle")
    BY <1>1, <2>3 DEF At
  <2>5. At(p, Outer, "fetch")
    BY <2>4 DEF OneWriter
  <2> QED
    BY <1>1, <2>3, <2>5 DEF At
<1> QED
  BY <1>1 DEF OneWriter

(* A step of a frame that neither starts nor ends a transaction. *)
LEMMA WriterKept ==
  ASSUME TypeOK, OneWriter, NEW p \in Procs, NEW f \in Frames, NEW c,
         CallOK(f, c), Becomes(p, f, c),
         ~At(p, f, "commit"), c.pc # "commit",
         UNCHANGED <<lock, txn>>,
         f = Inner => c.pc = "idle" \/ At(p, Outer, "fetch"),
         f = Outer => c.pc = "fetch" \/ At(p, Inner, "idle")
  PROVE  OneWriter'
<1> USE ConstantFacts
<1>1. \A q \in Procs, g \in Frames :
         call'[q][g] = IF q = p /\ g = f THEN c ELSE call[q][g]
  BY BecomesFacts
<1>2. \A q \in Procs, g \in Frames :
         At(q, g, "commit")' <=> At(q, g, "commit")
  BY <1>1 DEF At
<1>3. ASSUME NEW q \in Procs, NEW g \in Frames, At(q, g, "commit")'
      PROVE  /\ lock'[q] = Thread(g)
             /\ txn' = [proc |-> q, key |-> call'[q][g].key,
                         payload |-> call'[q][g].payload]
  BY <1>1, <1>2, <1>3 DEF OneWriter, At
<1>4. ASSUME NEW q \in Procs, lock'[q] # Free \/ txn'.proc = q
      PROVE  \E g \in Frames : At(q, g, "commit")'
  BY <1>2, <1>4 DEF OneWriter
<1>5. ASSUME NEW q \in Procs, ~At(q, Inner, "idle")' PROVE At(q, Outer, "fetch")'
  BY <1>1, <1>5 DEF OneWriter, At
<1> QED
  BY <1>3, <1>4, <1>5 DEF OneWriter

LEMMA WriterStep ==
  ASSUME TypeOK, OneWriter, [Next]_vars
  PROVE  OneWriter'
<1> USE ConstantFacts
<1>0. \A p \in Procs, f \in Frames : CallOK(f, call[p][f]) /\ CallOK(f, Idle)
  BY DEF TypeOK
<1>1. ASSUME NEW p \in Procs, NEW f \in Frames, Hit(p, f) \/ MissOffline(p, f)
      PROVE  OneWriter'
  <2>1. At(p, f, "lookup") /\ Becomes(p, f, Idle) /\ UNCHANGED <<lock, txn>>
    BY <1>1 DEF Hit, MissOffline
  <2>2. f = Outer => At(p, Inner, "idle")
    BY <2>1 DEF OneWriter, At
  <2> QED
    BY <2>1, <2>2, <1>0, WriterKept DEF At, Idle
<1>2. ASSUME NEW p \in Procs, NEW f \in Frames, Miss(p, f) PROVE OneWriter'
  <2> DEFINE c == [call[p][f] EXCEPT !.pc = "fetch"]
  <2>1. At(p, f, "lookup") /\ Becomes(p, f, c) /\ UNCHANGED <<lock, txn>>
    BY <1>2 DEF Miss, Goto, LockAfterMiss
  <2>2. CallOK(f, c) /\ c.pc = "fetch"
    <3>1. CallOK(f, c)
      BY <2>1, GotoOK DEF At
    <3> QED
      BY <3>1 DEF TypeOK, Calls
  <2>3. f = Inner => At(p, Outer, "fetch")
    BY <2>1 DEF OneWriter, At
  <2> HIDE DEF c
  <2> QED
    BY <2>1, <2>2, <2>3, WriterKept DEF At
<1>3. ASSUME NEW p \in Procs, NEW f \in Frames, Insert(p, f) PROVE OneWriter'
  <2> DEFINE c == [call[p][f] EXCEPT !.pc = "commit"]
  <2>1. /\ At(p, f, "store") /\ HasLock(p, f) /\ Writable(p)
        /\ lock' = [lock EXCEPT ![p] = Thread(f)]
        /\ txn' = [proc |-> p, key |-> call[p][f].key,
                    payload |-> call[p][f].payload]
        /\ Becomes(p, f, c)
    BY <1>3 DEF Insert, Goto
  <2>2. /\ c.pc = "commit" /\ c.key = call[p][f].key
        /\ c.payload = call[p][f].payload
    BY DEF TypeOK, Calls
  <2>3. CallOK(f, c)
    BY <2>1, GotoOK DEF At
  <2> HIDE DEF c
  <2>4. \A q \in Procs, g \in Frames :
           call'[q][g] = IF q = p /\ g = f THEN c ELSE call[q][g]
    BY <2>1, <2>3, BecomesFacts
  <2>5. \A q \in Procs, g \in Frames : ~At(q, g, "commit")
    BY <2>1, LockedOut DEF OneWriter, Writable
  <2>6. \A q \in Procs : lock[q] = Free
    BY <2>5 DEF OneWriter
  <2>7. \A q \in Procs, g \in Frames : At(q, g, "commit")' <=> q = p /\ g = f
    BY <2>2, <2>4, <2>5 DEF At
  <2>8. \A q \in Procs : lock'[q] = IF q = p THEN Thread(f) ELSE Free
    BY <2>1, <2>6 DEF TypeOK
  <2>9. ASSUME NEW q \in Procs, ~At(q, Inner, "idle")' PROVE At(q, Outer, "fetch")'
    BY <2>1, <2>2, <2>4, <2>9 DEF OneWriter, At
  <2> QED
    BY <2>1, <2>2, <2>4, <2>7, <2>8, <2>9 DEF OneWriter
<1>4. ASSUME NEW p \in Procs, NEW f \in Frames, Commit(p, f) PROVE OneWriter'
  <2>1. /\ At(p, f, "commit")
        /\ txn' = NoTxn
        /\ lock' = [lock EXCEPT ![p] = Free]
        /\ Becomes(p, f, Idle)
    BY <1>4 DEF Commit
  <2>2. \A q \in Procs, g \in Frames :
           call'[q][g] = IF q = p /\ g = f THEN Idle ELSE call[q][g]
    BY <2>1, <1>0, BecomesFacts
  <2>3. \A q \in Procs, g \in Frames : ~At(q, g, "commit")'
    BY <2>1, <2>2, OneCommit DEF At, Idle
  <2>4. \A q \in Procs : lock'[q] = Free
    BY <2>1, OneCommit DEF OneWriter, TypeOK
  <2>5. ASSUME NEW q \in Procs, ~At(q, Inner, "idle")' PROVE At(q, Outer, "fetch")'
    BY <2>1, <2>2, <2>5 DEF OneWriter, At, Idle
  <2> QED
    BY <2>1, <2>3, <2>4, <2>5 DEF OneWriter, NoTxn
<1>5. ASSUME NEW p \in Procs, NEW f \in Frames, ArchiveAnswers(p, f)
      PROVE  OneWriter'
  <2> DEFINE c == [call[p][f] EXCEPT !.pc = "store",
                                     !.payload = Truth(call[p][f].key)]
  <2>1. /\ f # Outer /\ At(p, f, "fetch") /\ Becomes(p, f, c)
        /\ UNCHANGED <<lock, txn>>
    BY <1>5 DEF ArchiveAnswers, Fetched
  <2>2. Truth(call[p][f].key) \in Payloads
    BY <2>1, <1>0 DEF CallOK, At
  <2>3. CallOK(f, c) /\ c.pc = "store"
    <3>1. CallOK(f, c)
      BY <2>1, <2>2, FetchedOK DEF At
    <3> QED
      BY <3>1 DEF TypeOK, Calls
  <2>4. f = Inner => At(p, Outer, "fetch")
    BY <2>1 DEF OneWriter, At
  <2> HIDE DEF c
  <2> QED
    BY <2>1, <2>3, <2>4, WriterKept DEF At
<1>6. ASSUME NEW p \in Procs, NEW f \in Frames, ArchiveFails(p, f)
      PROVE  OneWriter'
  <2>1. /\ f # Outer /\ At(p, f, "fetch") /\ Becomes(p, f, Idle)
        /\ UNCHANGED <<lock, txn>>
    BY <1>6 DEF ArchiveFails
  <2> QED
    BY <2>1, <1>0, WriterKept DEF At, Idle
<1>7. ASSUME NEW p \in Procs, NEW f \in Frames, f # Outer, NEW r \in Reads,
             StartRead(p, f, r)
      PROVE  OneWriter'
  <2>1. /\ At(p, Outer, "fetch") /\ At(p, f, "idle")
        /\ Becomes(p, f, Lookup(r, call[p][Outer].key))
        /\ UNCHANGED <<lock, txn>>
    BY <1>7 DEF StartRead
  <2>2. CallOK(f, Lookup(r, call[p][Outer].key))
    BY <1>0, <1>7, <2>1, LookupOK DEF CallOK, At
  <2> QED
    BY <1>7, <2>1, <2>2, WriterKept DEF At, Lookup
<1>8. ASSUME NEW p \in Procs, NodeFails(p) PROVE OneWriter'
  BY <1>8 DEF NodeFails, OneWriter, At
<1>9. ASSUME NEW p \in Procs, Calculate(p) PROVE OneWriter'
  <2>1. PICK class \in Classes :
          Fetched(p, Outer, [of |-> call[p][Outer].key, class |-> class])
    <3>1. call[p][Outer].key \in Actions
      BY <1>0, <1>9 DEF Calculate, CallOK, At
    <3>2. Result[call[p][Outer].key] \in Classes /\ "Unavailable" \in Classes
      BY <3>1, CacheAssumption DEF Classes
    <3> QED
      BY <1>9, <3>2 DEF Calculate, Outcomes
  <2> DEFINE payload == [of |-> call[p][Outer].key, class |-> class]
             c == [call[p][Outer] EXCEPT !.pc = "store", !.payload = payload]
  <2>2. /\ At(p, Outer, "fetch") /\ At(p, Inner, "idle") /\ UNCHANGED <<lock, txn>>
    BY <1>9 DEF Calculate
  <2>3. payload \in Payloads
    BY <1>0, <2>2 DEF CallOK, At, Payloads, Keys
  <2>4. CallOK(Outer, c) /\ c.pc = "store" /\ Becomes(p, Outer, c)
    <3>1. CallOK(Outer, c)
      BY <2>2, <2>3, FetchedOK DEF At
    <3>2. c.pc = "store"
      BY DEF TypeOK, Calls
    <3> QED
      BY <2>1, <3>1, <3>2 DEF Fetched
  <2> HIDE DEF c
  <2> QED
    BY <2>2, <2>4, WriterKept DEF At
<1>10. ASSUME NEW p \in Procs, NEW a \in Actions, Ask(p, a) PROVE OneWriter'
  <2>1. /\ At(p, Outer, "idle") /\ Becomes(p, Outer, Lookup(a, a))
        /\ UNCHANGED <<lock, txn>>
    BY <1>10 DEF Ask
  <2>2. At(p, Inner, "idle")
    BY <2>1 DEF OneWriter, At
  <2>3. CallOK(Outer, Lookup(a, a))
    BY LookupOK
  <2> QED
    BY <2>1, <2>2, <2>3, WriterKept DEF At, Lookup
<1>11. ASSUME NEW p \in Procs, NEW mode \in {"online", "offline"}, Start(p, mode)
       PROVE  OneWriter'
  BY <1>11 DEF Start, OneWriter, At
<1>12. ASSUME NEW p \in Procs, Stop(p) PROVE OneWriter'
  <2>1. /\ txn' = IF txn.proc = p THEN NoTxn ELSE txn
        /\ lock' = [lock EXCEPT ![p] = Free]
        /\ call' = [call EXCEPT ![p] = [f \in Frames |-> Idle]]
    BY <1>12 DEF Stop
  <2>2. \A q \in Procs, g \in Frames :
           call'[q][g] = IF q = p THEN Idle ELSE call[q][g]
    BY <2>1 DEF TypeOK
  <2>3. \A q \in Procs : lock'[q] = IF q = p THEN Free ELSE lock[q]
    BY <2>1 DEF TypeOK
  <2>4. ASSUME NEW q \in Procs, NEW g \in Frames, At(q, g, "commit")'
        PROVE  /\ lock'[q] = Thread(g)
               /\ txn' = [proc |-> q, key |-> call'[q][g].key,
                           payload |-> call'[q][g].payload]
    BY <2>1, <2>2, <2>3, <2>4 DEF OneWriter, At, Idle
  <2>5. ASSUME NEW q \in Procs, lock'[q] # Free \/ txn'.proc = q
        PROVE  \E g \in Frames : At(q, g, "commit")'
    <3>1. q # p /\ (lock[q] # Free \/ txn.proc = q)
      BY <2>1, <2>3, <2>5 DEF NoTxn
    <3> QED
      BY <2>2, <3>1 DEF OneWriter, At
  <2>6. ASSUME NEW q \in Procs, ~At(q, Inner, "idle")' PROVE At(q, Outer, "fetch")'
    BY <2>2, <2>6 DEF OneWriter, At, Idle
  <2> QED
    BY <2>4, <2>5, <2>6 DEF OneWriter
<1>13. CASE UNCHANGED vars
  BY <1>13 DEF vars, OneWriter, At
<1> QED
  BY <1>1, <1>2, <1>3, <1>4, <1>5, <1>6, <1>7, <1>8, <1>9, <1>10, <1>11, <1>12,
     <1>13 DEF Next, Get, Fetch, Begin, BridgeRead, DirectRead
-----------------------------------------------------------------------------
(* THE THEOREMS.  First the inductive invariant itself, and its two parts. *)
THEOREM Inductive == Spec => [](TypeOK /\ OneWriter)
<1>1. TypeOK /\ OneWriter /\ [Next]_vars => (TypeOK /\ OneWriter)'
  BY TypeStep, WriterStep
<1> QED
  BY <1>1, InitInv, PTL DEF Spec

(* Every payload waiting to be stored belongs to its key, at any number of
   threads and processes. *)
THEOREM TypeCorrect == Spec => []TypeOK
BY Inductive, PTL

(* Cache.lock and the open transaction belong to one committing thread. *)
THEOREM MutualExclusion == Spec => []OneWriter
BY Inductive, PTL

(* What a commit does to the table: one row, and only if it was not there. *)
LEMMA CommitWrites ==
  ASSUME TypeOK, OneWriter, NEW p \in Procs, NEW f \in Frames, Commit(p, f)
  PROVE  /\ call[p][f].key \in Keys
         /\ call[p][f].payload \in Payloads
         /\ f # Outer => call[p][f].payload = Truth(call[p][f].key)
         /\ f = Outer => call[p][f].key \in Actions
         /\ \A k \in Keys :
              db'[k] = IF k = call[p][f].key /\ db[k] = NoRow
                       THEN call[p][f].payload ELSE db[k]
<1>1. /\ At(p, f, "commit")
      /\ db' = [db EXCEPT ![txn.key] = OrIgnore(txn.key, txn.payload)]
  BY DEF Commit
<1>2. /\ call[p][f].key \in Keys
      /\ call[p][f].payload \in Payloads
      /\ f # Outer => call[p][f].payload = Truth(call[p][f].key)
      /\ f = Outer => call[p][f].key \in Actions
  BY <1>1 DEF TypeOK, CallOK, At, Keys
<1>3. txn.key = call[p][f].key /\ txn.payload = call[p][f].payload
  BY <1>1 DEF OneWriter
<1> QED
  BY <1>1, <1>2, <1>3 DEF TypeOK, OrIgnore

(* The table and the outcomes reported change in a hit or a commit only. *)
LEMMA QuietSteps ==
  ASSUME [Next]_vars
  PROVE  \/ UNCHANGED <<db, reported>>
         \/ \E p \in Procs, f \in Frames : Hit(p, f) \/ Commit(p, f)
<1>1. ASSUME NEW p \in Procs, NEW f \in Frames,
             \/ MissOffline(p, f) \/ Miss(p, f) \/ Insert(p, f)
             \/ ArchiveAnswers(p, f) \/ ArchiveFails(p, f)
      PROVE  UNCHANGED <<db, reported>>
  BY <1>1 DEF MissOffline, Miss, Insert, ArchiveAnswers, ArchiveFails
<1>2. ASSUME NEW p \in Procs, NEW f \in Frames, NEW r \in Reads, StartRead(p, f, r)
      PROVE  UNCHANGED <<db, reported>>
  BY <1>2 DEF StartRead
<1>3. ASSUME NEW p \in Procs, NodeFails(p) \/ Calculate(p) \/ Stop(p)
      PROVE  UNCHANGED <<db, reported>>
  BY <1>3 DEF NodeFails, Calculate, Stop
<1>4. ASSUME NEW p \in Procs, NEW a \in Actions, Ask(p, a)
      PROVE  UNCHANGED <<db, reported>>
  BY <1>4 DEF Ask
<1>5. ASSUME NEW p \in Procs, NEW mode \in {"online", "offline"}, Start(p, mode)
      PROVE  UNCHANGED <<db, reported>>
  BY <1>5 DEF Start
<1>6. CASE UNCHANGED vars
  BY <1>6 DEF vars
<1>7. Inner \in Frames
  BY ConstantFacts
<1> QED
  BY <1>1, <1>2, <1>3, <1>4, <1>5, <1>6, <1>7
  DEF Next, Get, Fetch, Begin, BridgeRead, DirectRead

LEMMA OnlyCommitWrites ==
  ASSUME [Next]_vars
  PROVE  db' = db \/ \E p \in Procs, f \in Frames : Commit(p, f)
<1>1. ASSUME NEW p \in Procs, NEW f \in Frames, Hit(p, f) PROVE db' = db
  BY <1>1 DEF Hit
<1> QED
  BY <1>1, QuietSteps

(* The first committed row of a key stays, whoever fetched it again. *)
THEOREM FirstRowStays == Spec => FirstWriteWins
<1>1. TypeOK /\ OneWriter /\ [Next]_vars
      => [\A k \in Keys : db[k] # NoRow => db'[k] = db[k]]_db
  <2> SUFFICES ASSUME TypeOK, OneWriter, [Next]_vars, db' # db,
                      NEW k \in Keys, db[k] # NoRow
               PROVE  db'[k] = db[k]
    OBVIOUS
  <2> QED
    BY OnlyCommitWrites, CommitWrites
<1> QED
  BY <1>1, Inductive, PTL DEF Spec, FirstWriteWins

(* A failed archive read is never stored. *)
THEOREM StoredAnswers == Spec => []OnlyAnswersStored
<1>1. Init => OnlyAnswersStored
  BY DEF Init, OnlyAnswersStored, Keys
<1>2. TypeOK /\ OneWriter /\ OnlyAnswersStored /\ [Next]_vars => OnlyAnswersStored'
  <2> SUFFICES ASSUME TypeOK, OneWriter, OnlyAnswersStored, [Next]_vars,
                      NEW r \in Reads
               PROVE  db'[r] \in {NoRow, Truth(r)}
    BY DEF OnlyAnswersStored
  <2>1. CASE db' = db
    BY <2>1 DEF OnlyAnswersStored
  <2>2. CASE \E p \in Procs, f \in Frames : Commit(p, f)
    <3>1. PICK p \in Procs, f \in Frames : Commit(p, f)
      BY <2>2
    <3>2. r \in Keys /\ (r = call[p][f].key => f # Outer)
      BY <3>1, CommitWrites, ConstantFacts DEF Keys
    <3> QED
      BY <3>1, <3>2, CommitWrites DEF OnlyAnswersStored
  <2> QED
    BY <2>1, <2>2, OnlyCommitWrites
<1> QED
  BY <1>1, <1>2, Inductive, PTL DEF Spec

(* An action's outcome is reported by a hit or a commit of its key. *)
LEMMA ReportedBy ==
  ASSUME TypeOK, [Next]_vars, NEW x \in reported', x \notin reported
  PROVE  \E p \in Procs, f \in Frames :
            /\ Hit(p, f) \/ Commit(p, f)
            /\ x[1] = call[p][f].key
<1>1. ASSUME NEW p \in Procs, NEW f \in Frames, NEW class, Return(p, f, class)
      PROVE  x[1] = call[p][f].key
  <2>1. reported' = reported \cup {<<call[p][f].key, class>>}
    BY <1>1 DEF Return
  <2> QED
    BY <2>1
<1>2. PICK p \in Procs, f \in Frames : Hit(p, f) \/ Commit(p, f)
  BY QuietSteps
<1>3. \E class : Return(p, f, class)
  BY <1>2 DEF Hit, Commit
<1> QED
  BY <1>1, <1>2, <1>3

(* What the engine was told survives: its row is committed. *)
THEOREM Durable == Spec => []ReportedIsDurable
<1>1. Init => ReportedIsDurable
  BY DEF Init, ReportedIsDurable
<1>2. TypeOK /\ OneWriter /\ ReportedIsDurable /\ [Next]_vars => ReportedIsDurable'
  <2> SUFFICES ASSUME TypeOK, OneWriter, ReportedIsDurable, [Next]_vars,
                      NEW x \in reported'
               PROVE  db'[x[1]] # NoRow
    BY DEF ReportedIsDurable
  <2>1. TypeOK'
    BY TypeStep
  <2>2. x[1] \in Keys
    BY <2>1 DEF TypeOK, Keys
  <2>3. ASSUME NEW k \in Keys, db[k] # NoRow PROVE db'[k] # NoRow
    BY <2>3, OnlyCommitWrites, CommitWrites
  <2>4. CASE x \in reported
    BY <2>2, <2>3, <2>4 DEF ReportedIsDurable
  <2>5. CASE x \notin reported
    <3>1. PICK p \in Procs, f \in Frames :
            (Hit(p, f) \/ Commit(p, f)) /\ x[1] = call[p][f].key
      BY <2>5, ReportedBy
    <3>2. CASE Hit(p, f)
      BY <2>2, <2>3, <3>1, <3>2 DEF Hit
    <3>3. CASE Commit(p, f)
      BY <2>2, <3>1, <3>3, CommitWrites, ConstantFacts
    <3> QED
      BY <3>1, <3>2, <3>3
  <2> QED
    BY <2>4, <2>5
<1> QED
  BY <1>1, <1>2, Inductive, PTL DEF Spec

(* A lookup is left by its own get() or with its process. *)
LEMMA LookupLeft ==
  ASSUME TypeOK, [Next]_vars, NEW p \in Procs, NEW f \in Frames,
         At(p, f, "lookup"), ~At(p, f, "lookup")', run'[p] # "stopped"
  PROVE  HasLock(p, f)
<1>1. \A q \in Procs, g \in Frames : \A c :
         Becomes(q, g, c) /\ ~(q = p /\ g = f) => call'[p][f] = call[p][f]
  BY DEF Becomes, TypeOK
<1>2. call'[p][f] # call[p][f]
  BY DEF At
<1>3. \A c : Becomes(p, f, c) /\ (Hit(p, f) \/ MissOffline(p, f) \/ Miss(p, f))
               => HasLock(p, f)
  BY DEF Hit, MissOffline, Miss
<1>4. ASSUME NEW q \in Procs, Stop(q) PROVE q # p /\ call'[p][f] = call[p][f]
  BY <1>4 DEF Stop, TypeOK
<1>5. ASSUME NEW q \in Procs, NEW g \in Frames, Get(q, g) \/ Fetch(q, g)
      PROVE  HasLock(p, f)
  <2>1. q = p /\ g = f
    BY <1>1, <1>2, <1>5 DEF Get, Fetch, Hit, MissOffline, Miss, Insert, Commit, Goto,
                            ArchiveAnswers, ArchiveFails, Fetched
  <2> QED
    BY <1>5, <2>1 DEF Get, Fetch, Hit, MissOffline, Miss, Insert, Commit, At,
                      ArchiveAnswers, ArchiveFails
<1>6. ASSUME NEW q \in Procs, NEW g \in Frames, Begin(q, g) PROVE FALSE
  <2>1. PICK r \in Reads : StartRead(q, g, r)
    BY <1>6 DEF Begin, DirectRead, BridgeRead
  <2>2. q = p /\ g = f
    BY <1>1, <1>2, <2>1 DEF StartRead
  <2> QED
    BY <2>1, <2>2 DEF StartRead, At
<1>7. ASSUME NEW q \in Procs, NodeFails(q) \/ Calculate(q) PROVE FALSE
  <2>1. Outer \in Frames
    BY ConstantFacts
  <2>2. Calculate(q) => q = p /\ f = Outer
    BY <1>1, <1>2, <2>1 DEF Calculate, Fetched
  <2> QED
    BY <1>2, <1>7, <2>2 DEF NodeFails, Calculate, At
<1>8. ASSUME NEW q \in Procs, NEW a \in Actions, Ask(q, a) PROVE FALSE
  <2>1. q = p /\ f = Outer
    BY <1>1, <1>2, <1>8, ConstantFacts DEF Ask
  <2> QED
    BY <1>8, <2>1 DEF Ask, At
<1>9. ASSUME NEW q \in Procs, NEW mode, Start(q, mode) PROVE FALSE
  BY <1>2, <1>9 DEF Start
<1>10. CASE UNCHANGED vars
  BY <1>2, <1>10 DEF vars
<1> QED
  BY <1>2, <1>4, <1>5, <1>6, <1>7, <1>8, <1>9, <1>10 DEF Next

(* No thread looks a key up inside another thread's transaction. *)
THEOREM CommittedReads == Spec => ReadsSeeCommittedRows
<1>1. TypeOK /\ OneWriter /\ [Next]_vars
      => [\A p \in Procs, f \in Frames :
            At(p, f, "lookup") /\ ~At(p, f, "lookup")' /\ run'[p] # "stopped"
            => txn.proc # p]_vars
  BY LookupLeft, LockedOut
<1> QED
  BY <1>1, Inductive, PTL DEF Spec, ReadsSeeCommittedRows
-----------------------------------------------------------------------------
(* WHY AN ACTION FAILED.  A frame that an action waits for reads for that action,
   which is still being fetched: when the fork of an action is given up, nobody is
   waited for any more. *)
Awaited ==
  /\ serving \in [Procs -> SUBSET (Frames \ {Outer})]
  /\ failed \in [Procs -> BOOLEAN]
  /\ \A p \in Procs, f \in Frames :
        f \in serving[p] /\ ~At(p, f, "idle")
        => At(p, Outer, "fetch") /\ call[p][f].for = call[p][Outer].key

(* A failure is known only while its action is being fetched, and is blamed on the action
   before it shows in a payload. *)
Blamed ==
  \A p \in Procs :
    /\ failed[p] => At(p, Outer, "fetch") /\ call[p][Outer].key \in faulty
    /\ At(p, Outer, "store") \/ At(p, Outer, "commit")
       => \/ call[p][Outer].payload.class = Result[call[p][Outer].key]
          \/ call[p][Outer].key \in faulty

(* A frame that ends its get(): at a hit, a commit or a failed read. *)
LEMMA BlameAtEnd ==
  ASSUME TypeOK, Awaited, Blamed, NEW p \in Procs, NEW f \in Frames,
         ~At(p, f, "idle"), Becomes(p, f, Idle),
         \/ \E class : Return(p, f, class) /\ ~(f = Outer /\ At(p, f, "fetch"))
         \/ f # Outer /\ Answered(p, f, FALSE)
  PROVE  Awaited' /\ Blamed' /\ faulty \subseteq faulty'
<1> USE ConstantFacts
<1>1. \A q \in Procs, g \in Frames :
         call'[q][g] = IF q = p /\ g = f THEN Idle ELSE call[q][g]
  BY BecomesFacts
<1>2. faulty \subseteq faulty'
  BY DEF Return, Answered
<1>3. /\ serving' \in [Procs -> SUBSET (Frames \ {Outer})]
      /\ failed' \in [Procs -> BOOLEAN]
      /\ \A q \in Procs : serving'[q] \subseteq serving[q]
  <2>1. CASE UNCHANGED <<serving, failed>>
    BY <2>1 DEF Awaited
  <2>2. ASSUME NEW ok \in BOOLEAN,
               serving' = [serving EXCEPT ![p] = @ \ {f}],
               failed' = [failed EXCEPT ![p] = @ \/ ~ok]
        PROVE  /\ serving' \in [Procs -> SUBSET (Frames \ {Outer})]
               /\ failed' \in [Procs -> BOOLEAN]
               /\ \A q \in Procs : serving'[q] \subseteq serving[q]
    <3>1. failed' \in [Procs -> BOOLEAN]
      BY <2>2 DEF Awaited
    <3> QED
      BY <2>2, <3>1 DEF Awaited
  <2> QED
    BY <2>1, <2>2 DEF Return, Answered
<1>4. ASSUME NEW q \in Procs, failed'[q], ~failed[q]
      PROVE  q = p /\ f # Outer /\ f \in serving[p] /\ call[p][f].for \in faulty'
  BY <1>4 DEF Return, Answered, IsAwaited, Awaited
<1>5. Awaited'
  <2> SUFFICES ASSUME NEW q \in Procs, NEW g \in Frames,
                      g \in serving'[q], ~At(q, g, "idle")'
               PROVE  At(q, Outer, "fetch")' /\ call'[q][g].for = call'[q][Outer].key
    BY <1>3 DEF Awaited
  <2>1. ~(q = p /\ g = f) /\ call'[q][g] = call[q][g]
    BY <1>1 DEF At, Idle
  <2>2. At(q, Outer, "fetch") /\ call[q][g].for = call[q][Outer].key
    BY <1>3, <2>1 DEF Awaited, At
  <2>3. call'[q][Outer] = call[q][Outer]
    BY <1>1, <2>2 DEF Return, At, Answered
  <2> QED
    BY <2>1, <2>2, <2>3 DEF At
<1>6. Blamed'
  <2> SUFFICES ASSUME NEW q \in Procs,
                      failed'[q] \/ At(q, Outer, "store")' \/ At(q, Outer, "commit")'
               PROVE  /\ failed'[q] => At(q, Outer, "fetch")' /\ call'[q][Outer].key \in faulty'
                      /\ At(q, Outer, "store")' \/ At(q, Outer, "commit")'
                         => \/ call'[q][Outer].payload.class = Result[call'[q][Outer].key]
                            \/ call'[q][Outer].key \in faulty'
    BY DEF Blamed
  <2>1. call'[q][Outer] = call[q][Outer]
    <3>1. ASSUME failed'[q] PROVE At(q, Outer, "fetch") /\ ~(q = p /\ f = Outer)
      <4>1. CASE failed[q]
        BY <4>1 DEF Blamed, Answered, At, Return
      <4>2. CASE ~failed[q]
        BY <1>4, <3>1, <4>2 DEF Awaited, At
      <4> QED
        BY <4>1, <4>2
    <3> QED
      BY <1>1, <3>1 DEF At, Idle
  <2>2. CASE failed'[q] /\ ~failed[q]
    BY <1>2, <1>4, <2>1, <2>2 DEF Awaited, Blamed, At
  <2>3. CASE ~(failed'[q] /\ ~failed[q])
    BY <1>2, <2>1, <2>3 DEF Blamed, At
  <2> QED
    BY <2>2, <2>3
<1> QED
  BY <1>2, <1>5, <1>6

(* A frame that goes on with its get(), where nobody is told anything. *)
LEMMA BlameAtMove ==
  ASSUME TypeOK, Awaited, Blamed, NEW p \in Procs, NEW f \in Frames, NEW c,
         CallOK(f, c), Becomes(p, f, c),
         serving' = serving, failed' = failed, faulty' = faulty,
         f # Outer => c.pc = "idle" \/ (c.for = call[p][f].for /\ ~At(p, f, "idle")),
         f = Outer => ~At(p, f, "fetch") /\ c.pc # "fetch",
         f = Outer /\ c.pc \in {"store", "commit"} =>
           At(p, f, "store") /\ c.payload = call[p][f].payload /\ c.key = call[p][f].key
  PROVE  Awaited' /\ Blamed' /\ faulty \subseteq faulty'
<1> USE ConstantFacts
<1>1. \A q \in Procs, g \in Frames :
         call'[q][g] = IF q = p /\ g = f THEN c ELSE call[q][g]
  BY BecomesFacts
<1>2. Awaited'
  <2> SUFFICES ASSUME NEW q \in Procs, NEW g \in Frames,
                      g \in serving[q], ~At(q, g, "idle")'
               PROVE  At(q, Outer, "fetch")' /\ call'[q][g].for = call'[q][Outer].key
    BY DEF Awaited
  <2>1. g # Outer
    BY DEF Awaited
  <2>2. ~At(q, g, "idle") /\ call'[q][g].for = call[q][g].for
    BY <1>1, <2>1 DEF At
  <2>3. At(q, Outer, "fetch") /\ call[q][g].for = call[q][Outer].key
    BY <2>2 DEF Awaited
  <2>4. call'[q][Outer] = call[q][Outer]
    BY <1>1, <2>3 DEF At
  <2> QED
    BY <2>2, <2>3, <2>4 DEF At
<1>3. Blamed'
  BY <1>1 DEF Blamed, At
<1> QED
  BY <1>2, <1>3

(* Every step keeps both, and never takes a blame back. *)
LEMMA BlameStep ==
  ASSUME TypeOK, OneWriter, Awaited, Blamed, [Next]_vars
  PROVE  Awaited' /\ Blamed' /\ faulty \subseteq faulty'
<1> USE ConstantFacts
<1>0. \A p \in Procs, f \in Frames :
         call[p][f] \in Calls /\ CallOK(f, call[p][f]) /\ CallOK(f, Idle)
  BY DEF TypeOK
<1>1. ASSUME NEW p \in Procs, NEW f \in Frames, Hit(p, f) \/ Commit(p, f)
      PROVE  Awaited' /\ Blamed' /\ faulty \subseteq faulty'
  <2>1. /\ ~At(p, f, "idle") /\ ~At(p, f, "fetch")
        /\ Becomes(p, f, Idle)
        /\ \E class : Return(p, f, class)
    BY <1>1 DEF Hit, Commit, At
  <2> QED
    BY <2>1, BlameAtEnd
<1>2. ASSUME NEW p \in Procs, NEW f \in Frames, ArchiveFails(p, f)
      PROVE  Awaited' /\ Blamed' /\ faulty \subseteq faulty'
  <2>1. f # Outer /\ ~At(p, f, "idle") /\ Becomes(p, f, Idle) /\ Answered(p, f, FALSE)
    BY <1>2 DEF ArchiveFails, At
  <2> QED
    BY <2>1, BlameAtEnd
<1>3. ASSUME NEW p \in Procs, NEW f \in Frames, MissOffline(p, f)
      PROVE  Awaited' /\ Blamed' /\ faulty \subseteq faulty'
  <2>1. At(p, f, "lookup") /\ Becomes(p, f, Idle) /\ UNCHANGED <<serving, failed, faulty>>
    BY <1>3 DEF MissOffline
  <2> QED
    BY <2>1, <1>0, BlameAtMove DEF At, Idle
<1>4. ASSUME NEW p \in Procs, NEW f \in Frames, Miss(p, f)
      PROVE  Awaited' /\ Blamed' /\ faulty \subseteq faulty'
  <2> DEFINE c == [call[p][f] EXCEPT !.pc = "fetch"]
  <2>1. At(p, f, "lookup") /\ Becomes(p, f, c) /\ UNCHANGED <<serving, faulty>>
    BY <1>4 DEF Miss, Goto
  <2>2. CallOK(f, c)
    BY <2>1, GotoOK DEF At
  <2>3. c.pc = "fetch" /\ c.for = call[p][f].for
    BY <1>0 DEF Calls
  <2> HIDE DEF c
  <2>4. CASE f # Outer
    <3>1. failed' = failed
      BY <1>4, <2>4 DEF Miss
    <3> QED
      BY <2>1, <2>2, <2>3, <2>4, <3>1, BlameAtMove DEF At
  <2>5. CASE f = Outer
    <3>1. failed' = failed /\ ~failed[p]
      BY <1>4, <2>1, <2>5 DEF Miss, Blamed, At
    <3>2. \A q \in Procs, g \in Frames :
             call'[q][g] = IF q = p /\ g = f THEN c ELSE call[q][g]
      BY <2>1, <2>2, BecomesFacts
    <3>3. \A g \in Frames : g \in serving[p] => At(p, g, "idle")
      BY <2>1, <2>5 DEF Awaited, At
    <3>4. Awaited'
      BY <2>1, <2>3, <2>5, <3>1, <3>2, <3>3 DEF Awaited, At
    <3>5. Blamed'
      BY <2>1, <2>3, <2>5, <3>1, <3>2 DEF Awaited, Blamed, At
    <3> QED
      BY <2>1, <3>4, <3>5
  <2> QED
    BY <2>4, <2>5
<1>5. ASSUME NEW p \in Procs, NEW f \in Frames, Insert(p, f)
      PROVE  Awaited' /\ Blamed' /\ faulty \subseteq faulty'
  <2> DEFINE c == [call[p][f] EXCEPT !.pc = "commit"]
  <2>1. At(p, f, "store") /\ Becomes(p, f, c) /\ UNCHANGED <<serving, failed, faulty>>
    BY <1>5 DEF Insert, Goto
  <2>2. CallOK(f, c)
    BY <2>1, GotoOK DEF At
  <2>3. /\ c.pc = "commit" /\ c.for = call[p][f].for
        /\ c.key = call[p][f].key /\ c.payload = call[p][f].payload
    BY <1>0 DEF Calls
  <2> HIDE DEF c
  <2> QED
    BY <2>1, <2>2, <2>3, BlameAtMove DEF At
<1>6. ASSUME NEW p \in Procs, NEW f \in Frames, ArchiveAnswers(p, f)
      PROVE  Awaited' /\ Blamed' /\ faulty \subseteq faulty'
  <2> DEFINE c == [call[p][f] EXCEPT !.pc = "store",
                                     !.payload = Truth(call[p][f].key)]
  <2>1. /\ f # Outer /\ At(p, f, "fetch") /\ Becomes(p, f, c)
        /\ UNCHANGED <<serving, failed, faulty>>
    BY <1>6 DEF ArchiveAnswers, Fetched
  <2>2. Truth(call[p][f].key) \in Payloads
    BY <2>1, <1>0 DEF CallOK, At
  <2>3. CallOK(f, c)
    BY <2>1, <2>2, FetchedOK DEF At
  <2>4. c.for = call[p][f].for
    BY <1>0 DEF Calls
  <2> HIDE DEF c
  <2> QED
    BY <2>1, <2>3, <2>4, BlameAtMove DEF At
<1>7. ASSUME NEW p \in Procs, NEW f \in Frames, f # Outer, NEW r \in Reads,
             StartRead(p, f, r)
      PROVE  Awaited' /\ Blamed' /\ faulty \subseteq faulty'
  <2> DEFINE c == Lookup(r, call[p][Outer].key)
  <2>1. /\ At(p, Outer, "fetch") /\ Becomes(p, f, c)
        /\ serving' = [serving EXCEPT ![p] = @ \cup {f}]
        /\ failed' = failed /\ faulty' = faulty
    BY <1>7 DEF StartRead
  <2>2. CallOK(f, c)
    BY <1>0, <1>7, <2>1, LookupOK DEF CallOK, At
  <2>3. \A q \in Procs, g \in Frames :
           call'[q][g] = IF q = p /\ g = f THEN c ELSE call[q][g]
    BY <2>1, <2>2, BecomesFacts
  <2>4. c.for = call[p][Outer].key
    BY DEF Lookup
  <2> HIDE DEF c
  <2>5. Awaited'
    BY <1>7, <2>1, <2>3, <2>4 DEF Awaited, At
  <2>6. Blamed'
    BY <1>7, <2>1, <2>3 DEF Blamed, At
  <2> QED
    BY <2>1, <2>5, <2>6
<1>8. ASSUME NEW p \in Procs, NodeFails(p)
      PROVE  Awaited' /\ Blamed' /\ faulty \subseteq faulty'
  BY <1>8 DEF NodeFails, Awaited, Blamed, At
<1>9. ASSUME NEW p \in Procs, Calculate(p)
      PROVE  Awaited' /\ Blamed' /\ faulty \subseteq faulty'
  <2>0. PICK class \in Outcomes(p) :
          Fetched(p, Outer, [of |-> call[p][Outer].key, class |-> class])
    BY <1>9 DEF Calculate
  <2> DEFINE payload == [of |-> call[p][Outer].key, class |-> class]
             c == [call[p][Outer] EXCEPT !.pc = "store", !.payload = payload]
  <2>1. /\ At(p, Outer, "fetch") /\ Becomes(p, Outer, c)
        /\ serving' = [serving EXCEPT ![p] = {}]
        /\ failed' = [failed EXCEPT ![p] = FALSE] /\ faulty' = faulty
    BY <1>9, <2>0 DEF Calculate, Fetched
  <2>2. class \in Classes /\ payload \in Payloads
    BY <1>0, <2>0, <2>1, CacheAssumption
    DEF CallOK, At, Payloads, Keys, Classes, Outcomes
  <2>3. CallOK(Outer, c)
    BY <2>1, <2>2, FetchedOK DEF At
  <2>4. /\ c.pc = "store" /\ c.key = call[p][Outer].key
        /\ c.payload.class = Result[c.key] \/ c.key \in faulty
    BY <1>0, <2>0, <2>1 DEF Calls, Blamed, Outcomes
  <2> HIDE DEF c
  <2>5. \A q \in Procs, g \in Frames :
           call'[q][g] = IF q = p /\ g = Outer THEN c ELSE call[q][g]
    BY <2>1, <2>3, BecomesFacts
  <2>6. Awaited'
    BY <2>1, <2>5 DEF Awaited, At
  <2>7. Blamed'
    BY <2>1, <2>4, <2>5, <2>6 DEF Awaited, Blamed, At
  <2> QED
    BY <2>1, <2>6, <2>7
<1>10. ASSUME NEW p \in Procs, NEW a \in Actions, Ask(p, a)
       PROVE  Awaited' /\ Blamed' /\ faulty \subseteq faulty'
  <2>1. /\ At(p, Outer, "idle") /\ Becomes(p, Outer, Lookup(a, a))
        /\ UNCHANGED <<serving, failed, faulty>>
    BY <1>10 DEF Ask
  <2>2. CallOK(Outer, Lookup(a, a))
    BY LookupOK
  <2> QED
    BY <2>1, <2>2, BlameAtMove DEF At, Lookup
<1>11. ASSUME NEW p \in Procs, NEW mode \in {"online", "offline"}, Start(p, mode)
       PROVE  Awaited' /\ Blamed' /\ faulty \subseteq faulty'
  BY <1>11 DEF Start, Awaited, Blamed, At
<1>12. ASSUME NEW p \in Procs, Stop(p)
       PROVE  Awaited' /\ Blamed' /\ faulty \subseteq faulty'
  <2>1. /\ call' = [call EXCEPT ![p] = [f \in Frames |-> Idle]]
        /\ serving' = [serving EXCEPT ![p] = {}]
        /\ failed' = [failed EXCEPT ![p] = FALSE]
        /\ faulty' = faulty
    BY <1>12 DEF Stop
  <2>2. \A q \in Procs, g \in Frames :
           call'[q][g] = IF q = p THEN Idle ELSE call[q][g]
    BY <2>1 DEF TypeOK
  <2>3. Awaited'
    BY <2>1, <2>2 DEF Awaited, At
  <2>4. Blamed'
    BY <2>1, <2>2 DEF Awaited, Blamed, At, Idle
  <2> QED
    BY <2>1, <2>3, <2>4
<1>13. CASE UNCHANGED vars
  BY <1>13 DEF vars, Awaited, Blamed, At
<1> QED
  BY <1>1, <1>2, <1>3, <1>4, <1>5, <1>6, <1>7, <1>8, <1>9, <1>10, <1>11, <1>12,
     <1>13 DEF Next, Get, Fetch, Begin, BridgeRead, DirectRead

(* An action is recorded as unavailable although its requests would come to something else
   only if a request it waited for failed, to the archive, the price API or its own node,
   however many forks were given up with reads under way. *)
THEOREM Cause == Spec => []FailureHasCause
<1> DEFINE Inv == TypeOK /\ OneWriter /\ Awaited /\ Blamed /\ FailureHasCause
<1>1. Init => Inv
  <2> SUFFICES ASSUME Init PROVE Awaited /\ Blamed /\ FailureHasCause
    BY InitInv
  <2> QED
    BY ConstantFacts DEF Init, Awaited, Blamed, FailureHasCause, At, Idle, Keys
<1>2. Inv /\ [Next]_vars => Inv'
  <2> SUFFICES ASSUME Inv, [Next]_vars PROVE FailureHasCause'
    BY TypeStep, WriterStep, BlameStep
  <2>1. faulty \subseteq faulty'
    BY BlameStep
  <2> SUFFICES ASSUME NEW a \in Actions, db'[a] # NoRow, db'[a].class # Result[a]
               PROVE  a \in faulty'
    BY DEF FailureHasCause
  <2>2. CASE db'[a] = db[a]
    BY <2>1, <2>2 DEF FailureHasCause
  <2>3. CASE db'[a] # db[a]
    <3>1. PICK p \in Procs, f \in Frames : Commit(p, f)
      BY <2>3, OnlyCommitWrites
    <3>2. a \in Keys /\ a = call[p][f].key /\ db'[a] = call[p][f].payload
      BY <2>3, <3>1, CommitWrites DEF Keys
    <3>3. f = Outer
      BY <3>1, <3>2, CacheAssumption DEF Commit, TypeOK, CallOK, At
    <3>4. a \in faulty
      BY <3>1, <3>2, <3>3 DEF Commit, Blamed
    <3> QED
      BY <2>1, <3>4
  <2> QED
    BY <2>2, <2>3
<1> QED
  BY <1>1, <1>2, PTL DEF Spec
-----------------------------------------------------------------------------
(* ONE PROCESS.  Only a process that was started is inside a get(). *)
Alone == \A p, q \in Procs : run[p] = "absent" \/ run[q] = "absent" \/ p = q
Started == \A p \in Procs, f \in Frames : run[p] = "absent" => At(p, f, "idle")

(* Nobody but the frame that fetches an action can store a row for it meanwhile. *)
Unstored ==
  Alone => \A p \in Procs :
    \/ At(p, Outer, "fetch") \/ At(p, Outer, "store") \/ At(p, Outer, "commit")
    => db[call[p][Outer].key] = NoRow

(* Processes come and go, but one that is absent stays so. *)
LEMMA AloneStays ==
  ASSUME TypeOK, [Next]_vars
  PROVE  \A p \in Procs : run'[p] = "absent" <=> run[p] = "absent"
<1>1. ASSUME NEW p \in Procs, NEW f \in Frames, Get(p, f) \/ Fetch(p, f) \/ Begin(p, f)
      PROVE  run' = run
  BY <1>1 DEF Get, Fetch, Begin, Hit, MissOffline, Miss, Insert, Commit, ArchiveAnswers,
              ArchiveFails, DirectRead, BridgeRead, StartRead
<1>2. ASSUME NEW p \in Procs, NodeFails(p) \/ Calculate(p) PROVE run' = run
  BY <1>2 DEF NodeFails, Calculate
<1>3. ASSUME NEW p \in Procs, NEW a \in Actions, Ask(p, a) PROVE run' = run
  BY <1>3 DEF Ask
<1>4. ASSUME NEW p \in Procs, NEW mode \in {"online", "offline"},
             Stop(p) \/ Start(p, mode)
      PROVE  \A q \in Procs : run'[q] = "absent" <=> run[q] = "absent"
  BY <1>4 DEF Stop, Start, TypeOK
<1>5. CASE UNCHANGED vars
  BY <1>5 DEF vars
<1> QED
  BY <1>1, <1>2, <1>3, <1>4, <1>5 DEF Next

LEMMA StartedStep ==
  ASSUME TypeOK, Started, [Next]_vars
  PROVE  Started'
<1> SUFFICES ASSUME NEW p \in Procs, NEW f \in Frames, run'[p] = "absent"
             PROVE  At(p, f, "idle")'
  BY DEF Started
<1> USE ConstantFacts
<1>1. run[p] = "absent" /\ \A g \in Frames : At(p, g, "idle")
  BY AloneStays DEF Started
<1>2. \A q \in Procs, g \in Frames : \A c : Becomes(q, g, c) /\ q # p => call'[p] = call[p]
  BY DEF Becomes, TypeOK
<1>3. ASSUME NEW q \in Procs, NEW g \in Frames, Get(q, g) \/ Fetch(q, g) \/ Begin(q, g)
      PROVE  call'[p] = call[p]
  <2>1. q # p
    BY <1>1, <1>3 DEF Get, Fetch, Begin, Hit, MissOffline, Miss, Insert, Commit, At,
                      ArchiveAnswers, ArchiveFails, DirectRead, BridgeRead, StartRead
  <2> QED
    BY <1>2, <1>3, <2>1 DEF Get, Fetch, Begin, Hit, MissOffline, Miss, Insert, Commit, Goto,
                      ArchiveAnswers, ArchiveFails, Fetched, DirectRead, BridgeRead, StartRead
<1>4. ASSUME NEW q \in Procs, NodeFails(q) \/ Calculate(q)
      PROVE  call'[p] = call[p]
  <2>1. q # p
    BY <1>1, <1>4 DEF NodeFails, Calculate, At
  <2> QED
    BY <1>2, <1>4, <2>1 DEF NodeFails, Calculate, Fetched
<1>5. ASSUME NEW q \in Procs, NEW a \in Actions, Ask(q, a) PROVE call'[p] = call[p]
  BY <1>1, <1>2, <1>5 DEF Ask
<1>6. ASSUME NEW q \in Procs, NEW mode \in {"online", "offline"}, Start(q, mode)
      PROVE  call'[p] = call[p]
  BY <1>6 DEF Start
<1>7. ASSUME NEW q \in Procs, Stop(q) PROVE call'[p] = call[p]
  <2>1. q # p
    BY <1>1, <1>7 DEF Stop
  <2> QED
    BY <1>7, <2>1 DEF Stop, TypeOK
<1>8. ASSUME UNCHANGED vars PROVE call'[p] = call[p]
  BY <1>8 DEF vars
<1>9. call'[p] = call[p]
  BY <1>3, <1>4, <1>5, <1>6, <1>7, <1>8 DEF Next
<1>10. call'[p][f].pc = call[p][f].pc
  BY <1>9
<1> QED
  BY <1>1, <1>10 DEF At

(* How the fetch of an action begins and goes on. *)
LEMMA OuterMoves ==
  ASSUME TypeOK, [Next]_vars, NEW p \in Procs,
         At(p, Outer, "fetch")' \/ At(p, Outer, "store")' \/ At(p, Outer, "commit")'
  PROVE  \/ call'[p][Outer] = call[p][Outer]
         \/ /\ db' = db
            /\ call'[p][Outer].key = call[p][Outer].key
            /\ \/ At(p, Outer, "fetch") \/ At(p, Outer, "store")
               \/ db[call[p][Outer].key] = NoRow
<1> USE ConstantFacts
<1>0. call[p][Outer] \in Calls
  BY DEF TypeOK
<1>1. \A q \in Procs, g \in Frames : \A c :
         Becomes(q, g, c)
         => call'[p][Outer] = IF q = p /\ g = Outer THEN c ELSE call[p][Outer]
  BY DEF Becomes, TypeOK
<1>2. \A q \in Procs, g \in Frames :
         Becomes(q, g, Idle) => call'[p][Outer] = call[p][Outer]
  BY <1>1 DEF At, Idle
<1>3. ASSUME NEW q \in Procs, NEW g \in Frames,
             Hit(q, g) \/ MissOffline(q, g) \/ Commit(q, g) \/ ArchiveFails(q, g)
      PROVE  call'[p][Outer] = call[p][Outer]
  BY <1>2, <1>3 DEF Hit, MissOffline, Commit, ArchiveFails
<1>4. ASSUME NEW q \in Procs, NEW g \in Frames, ~(q = p /\ g = Outer),
             Miss(q, g) \/ Insert(q, g) \/ ArchiveAnswers(q, g)
      PROVE  call'[p][Outer] = call[p][Outer]
  BY <1>1, <1>4 DEF Miss, Insert, ArchiveAnswers, Goto, Fetched
<1>5. CASE Miss(p, Outer) \/ Insert(p, Outer)
  BY <1>0, <1>1, <1>5 DEF Miss, Insert, Goto, Calls, At
<1>6. ASSUME NEW q \in Procs, NEW g \in Frames, g # Outer, NEW r \in Reads,
             StartRead(q, g, r)
      PROVE  call'[p][Outer] = call[p][Outer]
  BY <1>1, <1>6 DEF StartRead
<1>7. ASSUME NEW q \in Procs, q # p, Calculate(q)
      PROVE  call'[p][Outer] = call[p][Outer]
  BY <1>1, <1>7 DEF Calculate, Fetched
<1>8. CASE Calculate(p)
  <2>1. PICK payload :
          Becomes(p, Outer, [call[p][Outer] EXCEPT !.pc = "store", !.payload = payload])
    BY <1>8 DEF Calculate, Fetched
  <2>2. call'[p][Outer] = [call[p][Outer] EXCEPT !.pc = "store", !.payload = payload]
    BY <2>1 DEF Becomes, TypeOK
  <2>3. call'[p][Outer].key = call[p][Outer].key
    BY <1>0, <2>2 DEF Calls
  <2> QED
    BY <1>8, <2>3 DEF Calculate
<1>9. ASSUME NEW q \in Procs, NEW a \in Actions, Ask(q, a)
      PROVE  call'[p][Outer] = call[p][Outer]
  BY <1>1, <1>9 DEF Ask, At, Lookup
<1>10. ASSUME NEW q \in Procs, NEW mode \in {"online", "offline"},
              Start(q, mode) \/ NodeFails(q)
       PROVE  call'[p][Outer] = call[p][Outer]
  BY <1>10 DEF Start, NodeFails
<1>11. ASSUME NEW q \in Procs, Stop(q) PROVE call'[p][Outer] = call[p][Outer]
  BY <1>11 DEF Stop, TypeOK, At, Idle
<1>12. CASE UNCHANGED vars
  BY <1>12 DEF vars
<1> QED
  BY <1>3, <1>4, <1>5, <1>6, <1>7, <1>8, <1>9, <1>10, <1>11, <1>12
  DEF Next, Get, Fetch, Begin, BridgeRead, DirectRead, ArchiveAnswers

LEMMA UnstoredStep ==
  ASSUME TypeOK, OneWriter, Started, Unstored, [Next]_vars
  PROVE  Unstored'
<1> USE ConstantFacts
<1>1. SUFFICES ASSUME Alone', NEW p \in Procs,
               At(p, Outer, "fetch")' \/ At(p, Outer, "store")' \/ At(p, Outer, "commit")'
               PROVE  db'[call'[p][Outer].key] = NoRow
  BY DEF Unstored
<1>2. Alone
  BY <1>1, AloneStays DEF Alone
<1>3. CASE call'[p][Outer] # call[p][Outer]
  BY <1>1, <1>2, <1>3, OuterMoves DEF Unstored
<1>4. CASE call'[p][Outer] = call[p][Outer]
  <2> DEFINE k == call[p][Outer].key
  <2>1. db[k] = NoRow /\ k \in Actions /\ k \in Keys
    BY <1>1, <1>2, <1>4 DEF Unstored, At, TypeOK, CallOK, Keys
  <2>2. ASSUME db'[k] # NoRow PROVE FALSE
    <3>1. PICK q \in Procs, g \in Frames : Commit(q, g)
      BY <2>1, <2>2, OnlyCommitWrites
    <3>2. call[q][g].key = k
      BY <2>1, <2>2, <3>1, CommitWrites
    <3>3. g = Outer
      BY <2>1, <3>1, <3>2 DEF Commit, TypeOK, CallOK, At
    <3>4. q = p
      BY <1>1, <1>2, <1>4, <3>1 DEF Alone, Started, Commit, At
    <3>5. call'[p][Outer] = Idle
      BY <3>1, <3>3, <3>4 DEF Commit, Becomes, TypeOK
    <3> QED
      BY <1>1, <3>5 DEF At, Idle
  <2> QED
    BY <1>4, <2>2
<1> QED
  BY <1>3, <1>4

(* What the engine is told is the class of the row it hit, or of its own payload. *)
LEMMA ReportedAs ==
  ASSUME [Next]_vars, NEW x \in reported', x \notin reported
  PROVE  \E p \in Procs :
           \/ Hit(p, Outer) /\ x = <<call[p][Outer].key, RaisedClass(db[call[p][Outer].key])>>
           \/ Commit(p, Outer) /\ x = <<call[p][Outer].key, RaisedClass(call[p][Outer].payload)>>
<1>1. ASSUME NEW p \in Procs, NEW f \in Frames, NEW class, Return(p, f, class)
      PROVE  f = Outer /\ x = <<call[p][Outer].key, class>>
  BY <1>1 DEF Return
<1>2. PICK p \in Procs, f \in Frames : Hit(p, f) \/ Commit(p, f)
  BY QuietSteps
<1>3. CASE Hit(p, f)
  BY <1>1, <1>3 DEF Hit
<1>4. CASE Commit(p, f)
  BY <1>1, <1>4 DEF Commit, FirstClass
<1> QED
  BY <1>2, <1>3, <1>4

(* With one process on the cache file every later run of an action ends as its first. *)
THEOREM Replay == Spec => []ReplayReproduces
<1> DEFINE Inv == TypeOK /\ OneWriter /\ Started /\ Unstored /\ ReplayReproduces
<1>1. Init => Inv
  <2> SUFFICES ASSUME Init PROVE Started /\ Unstored /\ ReplayReproduces
    BY InitInv
  <2> QED
    BY ConstantFacts DEF Init, Started, Unstored, ReplayReproduces, At, Idle
<1>2. Inv /\ [Next]_vars => Inv'
  <2> SUFFICES ASSUME Inv, [Next]_vars PROVE ReplayReproduces'
    BY TypeStep, WriterStep, StartedStep, UnstoredStep
  <2>1. SUFFICES ASSUME Alone', NEW x \in reported'
                 PROVE  db'[x[1]] # NoRow /\ RaisedClass(db'[x[1]]) = x[2]
    BY DEF ReplayReproduces, Alone
  <2>2. Alone
    BY <2>1, AloneStays DEF Alone
  <2>3. ASSUME NEW k \in Keys, db[k] # NoRow PROVE db'[k] = db[k]
    BY <2>3, OnlyCommitWrites, CommitWrites
  <2>4. CASE x \in reported
    <3>1. x[1] \in Keys
      BY <2>4 DEF TypeOK, Keys
    <3>2. db[x[1]] # NoRow /\ RaisedClass(db[x[1]]) = x[2]
      BY <2>2, <2>4 DEF ReplayReproduces, Alone
    <3> QED
      BY <2>3, <3>1, <3>2
  <2>5. CASE x \notin reported
    <3>1. PICK p \in Procs :
           \/ Hit(p, Outer) /\ x = <<call[p][Outer].key, RaisedClass(db[call[p][Outer].key])>>
           \/ Commit(p, Outer) /\ x = <<call[p][Outer].key, RaisedClass(call[p][Outer].payload)>>
      BY <2>1, <2>5, ReportedAs
    <3> DEFINE k == call[p][Outer].key
    <3>2. k \in Keys /\ x[1] = k
      BY <3>1, ConstantFacts DEF Hit, Commit, At, TypeOK, CallOK, Keys
    <3>3. CASE Hit(p, Outer)
      <4>1. db[k] # NoRow
        BY <3>3 DEF Hit
      <4>2. db'[k] = db[k]
        BY <2>3, <3>2, <4>1
      <4>3. x = <<k, RaisedClass(db[k])>>
        BY <3>1, <3>3 DEF Hit, Commit, At
      <4> QED
        BY <4>1, <4>2, <4>3
    <3>4. CASE Commit(p, Outer)
      <4>1. db[k] = NoRow
        BY <2>2, <3>4 DEF Commit, Unstored
      <4>2. db'[k] = call[p][Outer].payload /\ call[p][Outer].payload # NoRow
        BY <3>2, <3>4, <4>1, CommitWrites, ConstantFacts
      <4>3. x = <<k, RaisedClass(call[p][Outer].payload)>>
        BY <3>1, <3>4 DEF Hit, Commit, At
      <4> QED
        BY <4>2, <4>3
    <3> QED
      BY <3>1, <3>3, <3>4
  <2> QED
    BY <2>4, <2>5
<1> QED
  BY <1>1, <1>2, PTL DEF Spec
=============================================================================
