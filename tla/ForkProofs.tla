------------------------------ MODULE ForkProofs ------------------------------
(* What a fork does to a contract's storage and to the machine it runs on:
   StorageSlots for every contract layout, plan of calls and set of words, its
   invariants and that it implements Seeding; then ForkLifecycle for any number of
   processes, ports and blocks. *)
EXTENDS StorageSlots, ForkLifecycle, Integers, TLAPS

Types ==
  /\ plan \in Seq(Seq(Calls)) /\ todo \in Seq(Calls)
  /\ layout \in Layouts
  /\ storage \in [Slots -> Words]
  /\ kept \in [Getters -> Live \cup {None}] /\ taken \in [Getters -> Live \cup {None}]
  /\ slots \in [Getters -> Slots \cup {None}]
  /\ run \in [queue : SUBSET Slots, slot : Slots \cup {None},
              old : Live \cup {None}, matches : BOOLEAN]
  /\ missed \in BOOLEAN
  /\ reason \in {"none", "unsupported", "cannot seed", "node"}
  /\ pc \in {"closed", "call", "next", "probe", "ask", "undo", "use", "verify"}

Open == pc # "closed"
Seeking == pc \in {"next", "probe", "ask", "undo", "use", "verify"}
AtWord == pc \in {"probe", "ask", "undo", "verify"}

(* Where a call is: it is the first one left to do, and what it restores was
   captured before. *)
Calling ==
  /\ Seeking => todo # <<>> /\ Head(todo).op # "act"
  /\ pc = "verify" => Head(todo).op \in {"set", "restore"}
  /\ Open => \A i \in DOMAIN todo :
               todo[i].op = "restore" => kept[todo[i].getter] # None
  /\ pc \in {"use", "verify"} => slots[getter] # None
  /\ pc = "verify" => run.slot = slots[getter] /\ storage[run.slot] = Value

(* What is in the storage: one word may hold the probe, and its old contents are
   known. *)
Clean ==
  /\ Open => \A s \in Slots : storage[s] \in Live \/ (Probing /\ s = run.slot)
  /\ AtWord => run.slot \in Slots /\ run.old \in Live
  /\ pc = "probe" => run.old = storage[run.slot]
  /\ Probing => storage[run.slot] = ProbeWord

(* What the search knows: a match is a proof, and the right word has not been
   passed unless its getter could not be asked. *)
Right == layout.own[getter]
Knowing ==
  /\ SlotsProven
  /\ pc = "undo" /\ run.matches => run.slot = Right
  /\ pc = "next" => Right = None \/ missed \/ Right \in run.queue
  /\ pc \in {"probe", "ask"} =>
       Right = None \/ missed \/ Right \in run.queue \/ Right = run.slot
  /\ pc = "undo" => \/ Right = None \/ missed \/ Right \in run.queue
                    \/ run.matches
  /\ Open => reason = "none"
  /\ UnsupportedHasCause

IInv == Types /\ Calling /\ Clean /\ Knowing

LEMMA Meaning == IInv => TypeOK /\ SlotsProven /\ UnsupportedHasCause
BY DEF IInv, Types, Clean, Knowing, TypeOK, Open

-----------------------------------------------------------------------------
(* Words and layouts *)

LEMMA WordFacts ==
  /\ ProbeWord \in Words /\ ProbeWord \notin Live
  /\ Live \subseteq Words
  /\ \A w \in Live : w.shown # Probe
  /\ \A w \in Words : Shown(w).shown = w.shown
  /\ Shown(ProbeWord) = ProbeWord
<1>1. Blank \in Hidden  BY WordAssumption DEF Blank
<1>2. ProbeWord \in Words  BY <1>1 DEF ProbeWord, Words
<1>3. \A w \in Live : w.shown # Probe  BY WordAssumption DEF Live
<1>4. ProbeWord.shown = Probe  BY DEF ProbeWord
<1>5. Live \subseteq Words  BY DEF Live, Words
<1>6. \A w \in Words : Shown(w).shown = w.shown  BY DEF Words, Shown
<1>7. Shown(ProbeWord) = ProbeWord  BY DEF ProbeWord, Shown
<1>8. QED  BY <1>2, <1>3, <1>4, <1>5, <1>6, <1>7

LEMMA LayoutFacts ==
  ASSUME NEW l \in Layouts
  PROVE  /\ l.own \in [Getters -> Slots \cup {None}]
         /\ l.trace \in [Getters -> SUBSET Slots]
         /\ l.code \subseteq Slots
         /\ l.words \in [Slots -> Live]
         /\ \A g \in Getters : l.own[g] # None => l.own[g] \in l.trace[g]
         /\ \A g \in Getters : l.own[g] # None => l.own[g] \notin l.code
         /\ \A g, h \in Getters : l.own[g] # None /\ l.own[h] = l.own[g] => h = g
BY LayoutAssumption

(* A getter whose word alone holds the probe answers with it ... *)
LEMMA Answers ==
  ASSUME NEW l \in Layouts, NEW g \in Getters, NEW s \in [Slots -> Words],
         l.own[g] # None, s[l.own[g]] = ProbeWord,
         \A x \in Slots : s[x] \in Live \/ x = l.own[g]
  PROVE  Answer(l, g, s) = ProbeWord
<1>1. ~Broken(l, s)
  <2>1. \A c \in l.code : c \in Slots /\ c # l.own[g]  BY LayoutFacts
  <2>2. \A c \in l.code : s[c] \in Live  BY <2>1
  <2>3. QED  BY <2>2, WordFacts DEF Broken
<1>2. QED  BY <1>1, WordFacts DEF Answer

(* ... and no other getter does. *)
LEMMA AnswersOnly ==
  ASSUME NEW l \in Layouts, NEW g \in Getters, NEW s \in [Slots -> Words],
         NEW slot \in Slots,
         \A x \in Slots : s[x] \in Live \/ x = slot,
         Answer(l, g, s) = ProbeWord
  PROVE  slot = l.own[g]
<1>1. l.own[g] \in Slots
  BY LayoutFacts, WordFacts, WordAssumption DEF Answer
<1>2. s[l.own[g]] \in Words  BY <1>1
<1>3. s[l.own[g]] = ProbeWord \/ Shown(s[l.own[g]]) = ProbeWord
  BY WordFacts, WordAssumption DEF Answer
<1>4. s[l.own[g]].shown = Probe
  BY <1>2, <1>3, WordFacts DEF ProbeWord
<1>5. s[l.own[g]] \notin Live  BY <1>4, WordFacts
<1>6. QED  BY <1>1, <1>5

(* Setting the word of one getter is nothing to the others. *)
LEMMA OthersAnswer ==
  ASSUME NEW l \in Layouts, NEW g \in Getters, NEW h \in Getters, h # g,
         NEW s \in [Slots -> Words], NEW t \in [Slots -> Words], l.own[g] # None,
         \A x \in Slots : x # l.own[g] => t[x] = s[x]
  PROVE  Answer(l, h, t) = Answer(l, h, s)
<1>1. l.own[g] \notin l.code /\ l.code \subseteq Slots
  BY LayoutFacts
<1>2. \A c \in l.code : t[c] = s[c]  BY <1>1
<1>3. Broken(l, t) = Broken(l, s)  BY <1>2 DEF Broken
<1>4. l.own[h] # None => l.own[h] \in Slots /\ l.own[h] # l.own[g]
  BY LayoutFacts
<1>5. l.own[h] # None => t[l.own[h]] = s[l.own[h]]  BY <1>4
<1>6. QED  BY <1>3, <1>5 DEF Answer

-----------------------------------------------------------------------------
(* The steps *)

LEMMA Initially == Init => IInv
<1> SUFFICES ASSUME Init PROVE IInv
  OBVIOUS
<1>1. Types
  <2>1. layout.words \in [Slots -> Words]
    BY LayoutFacts, WordFacts DEF Init
  <2>2. plan \in Seq(Seq(Calls)) /\ todo \in Seq(Calls)
    BY PlanAssumption DEF Init
  <2>3. QED  BY <2>1, <2>2 DEF Init, Types, NoSlots, NoRun
<1>2. Calling  BY DEF Init, Calling, Seeking, Open
<1>3. Clean  BY DEF Init, Clean, Open, AtWord, Probing
<1>4. Knowing
  BY DEF Init, Knowing, SlotsProven, UnsupportedHasCause, Open
<1>5. QED  BY <1>1, <1>2, <1>3, <1>4 DEF IInv

(* The first of the calls that are left. *)
LEMMA First ==
  ASSUME Types, todo # <<>>
  PROVE  /\ Head(todo) \in Calls /\ Head(todo).op \in {"set", "restore", "word", "act"}
         /\ getter \in Getters /\ Tail(todo) \in Seq(Calls)
         /\ Head(todo).op = "set" => Head(todo).word \in Live
<1>0. todo \in Seq(Calls)  BY DEF Types
<1>1. Head(todo) \in Calls /\ Tail(todo) \in Seq(Calls)  BY <1>0
<1>2. QED  BY <1>1 DEF Calls, getter

(* What is restored was captured. *)
LEMMA ValueIsLive ==
  ASSUME Types, Calling, Open, todo # <<>>, Head(todo).op \in {"set", "restore"}
  PROVE  Value \in Live
<1>1. CASE Head(todo).op = "set"  BY <1>1, First DEF Value
<1>2. CASE Head(todo).op = "restore"
  <2>0. todo \in Seq(Calls)  BY DEF Types
  <2>1. 1 \in DOMAIN todo /\ Head(todo) = todo[1]  BY <2>0
  <2>2. kept[getter] # None  BY <1>2, <2>1 DEF Calling, getter
  <2>3. kept[getter] \in Live  BY <2>2, First DEF Types
  <2>4. QED  BY <1>2, <2>3 DEF Value
<1>3. QED  BY <1>1, <1>2

LEMMA RestTail ==
  ASSUME Types, Calling, Open, todo # <<>>, kept' = kept, todo' = Tail(todo)
  PROVE  \A i \in DOMAIN todo' :
           todo'[i].op = "restore" => kept'[todo'[i].getter] # None
<1> SUFFICES ASSUME NEW i \in DOMAIN todo', todo'[i].op = "restore"
             PROVE  kept'[todo'[i].getter] # None
  OBVIOUS
<1>0. todo \in Seq(Calls)  BY DEF Types
<1>1. i + 1 \in DOMAIN todo /\ todo'[i] = todo[i + 1]  BY <1>0
<1>2. QED  BY <1>1 DEF Calling

LEMMA OpenStep == ASSUME IInv, OpenFork  PROVE IInv'
<1>1. /\ layout' \in Layouts /\ storage' = layout'.words
      /\ storage' \in [Slots -> Live]
  BY LayoutFacts DEF OpenFork
<1>2. Head(plan) \in Seq(Calls) /\ Tail(plan) \in Seq(Seq(Calls))
  <2>1. plan \in Seq(Seq(Calls)) /\ plan # <<>>
    BY DEF IInv, Types, OpenFork, CanOpen
  <2>2. QED  BY <2>1
<1>3. Types'
  <2>1. storage' \in [Slots -> Words]  BY <1>1, WordFacts
  <2>2. QED
    BY <1>1, <1>2, <2>1 DEF IInv, Types, OpenFork, SlotsOfFork, NoSlots, NoRun
<1>4. Calling'  BY DEF OpenFork, Calling, Seeking, Open, CanOpen
<1>5. Clean'
  <2>1. pc' = "call" /\ \A s \in Slots : storage'[s] \in Live  BY <1>1 DEF OpenFork
  <2>2. QED  BY <2>1 DEF Clean, Open, AtWord, Probing
<1>6. Knowing'
  BY DEF OpenFork, Knowing, SlotsProven, UnsupportedHasCause, Open, SlotsOfFork,
         NoSlots
<1>7. QED  BY <1>3, <1>4, <1>5, <1>6 DEF IInv

LEMMA ActStep == ASSUME IInv, Act  PROVE IInv'
<1>0. Types /\ Calling /\ Clean /\ Knowing  BY DEF IInv
<1>1. PICK g \in Getters, w \in Live :
        /\ layout.own[g] # None
        /\ storage' = [storage EXCEPT ![layout.own[g]] = w]
  BY DEF Act
<1>2. layout.own[g] \in Slots
  <2>1. layout \in Layouts  BY <1>0 DEF Types
  <2>2. QED  BY <1>1, <2>1, LayoutFacts
<1>3. Types'
  <2>1. storage' \in [Slots -> Words]  BY <1>0, <1>1, <1>2, WordFacts DEF Types
  <2>2. QED  BY <1>0, <2>1, First DEF Types, Act, account
<1>4. Calling'
  <2>1. \A i \in DOMAIN todo' :
          todo'[i].op = "restore" => kept'[todo'[i].getter] # None
    BY <1>0, RestTail DEF Act, account, Open
  <2>2. QED  BY <2>1 DEF Act, Calling, Seeking, Open
<1>5. Clean'
  <2>1. \A s \in Slots : storage[s] \in Live  BY <1>0 DEF Act, Clean, Open, Probing
  <2>2. \A s \in Slots : storage'[s] \in Live  BY <1>0, <1>1, <2>1 DEF Types
  <2>3. pc' = "call"  BY DEF Act
  <2>4. QED  BY <2>2, <2>3 DEF Clean, Open, AtWord, Probing
<1>6. Knowing'
  BY <1>0 DEF Act, account, Knowing, SlotsProven, UnsupportedHasCause, Open
<1>7. QED  BY <1>3, <1>4, <1>5, <1>6 DEF IInv

LEMMA FinishStep == ASSUME IInv, Finish  PROVE IInv'
<1>1. Types'  BY DEF IInv, Types, Finish
<1>2. Calling'  BY DEF Finish, Calling, Seeking, Open
<1>3. Clean'  BY DEF Finish, Clean, Open, AtWord, Probing
<1>4. Knowing'
  BY DEF IInv, Finish, Knowing, SlotsProven, UnsupportedHasCause, Open
<1>5. QED  BY <1>1, <1>2, <1>3, <1>4 DEF IInv

LEMMA KnownStep == ASSUME IInv, SlotKnown  PROVE IInv'
<1>1. Types'  BY DEF IInv, Types, SlotKnown, account
<1>2. Calling'
  BY DEF IInv, SlotKnown, account, Calling, Seeking, Open, Seeks, getter
<1>3. Clean'  BY DEF IInv, SlotKnown, Seeks, Clean, Open, AtWord, Probing
<1>4. Knowing'
  BY DEF IInv, SlotKnown, account, Seeks, Knowing, SlotsProven,
         UnsupportedHasCause, Open
<1>5. QED  BY <1>1, <1>2, <1>3, <1>4 DEF IInv

LEMMA TraceStep == ASSUME IInv, Trace  PROVE IInv'
<1>0. Types /\ Calling /\ Clean /\ Knowing  BY DEF IInv
<1>1. getter \in Getters  BY <1>0, First DEF Trace, Seeks
<1>2. Traced \subseteq Slots /\ (Right # None => Right \in Traced)
  <2>1. layout \in Layouts  BY <1>0 DEF Types
  <2>2. QED  BY <1>1, <2>1, LayoutFacts DEF Traced, Right
<1>3. run' = [queue |-> Traced, slot |-> None, old |-> None, matches |-> FALSE]
  BY DEF Trace, NoRun
<1>4. Types'
  <2>1. run' \in [queue : SUBSET Slots, slot : Slots \cup {None},
                  old : Live \cup {None}, matches : BOOLEAN]
    BY <1>2, <1>3
  <2>2. QED  BY <1>0, <2>1 DEF Types, Trace, account
<1>5. Calling'
  BY <1>0 DEF Trace, account, Calling, Seeking, Open, Seeks
<1>6. Clean'
  <2>1. \A s \in Slots : storage[s] \in Live
    BY <1>0 DEF Trace, Seeks, Clean, Open, Probing
  <2>2. pc' = "next" /\ storage' = storage  BY DEF Trace
  <2>3. QED  BY <2>1, <2>2 DEF Clean, Open, AtWord, Probing
<1>7. Knowing'
  BY <1>0, <1>2, <1>3 DEF Trace, account, Seeks, Knowing, SlotsProven,
     UnsupportedHasCause, Open, Right, getter
<1>8. QED  BY <1>4, <1>5, <1>6, <1>7 DEF IInv

LEMMA ReadStep == ASSUME IInv, ReadOld  PROVE IInv'
<1>0. Types /\ Calling /\ Clean /\ Knowing  BY DEF IInv
<1>1. PICK s \in run.queue :
        run' = [run EXCEPT !.queue = @ \ {s}, !.slot = s, !.old = storage[s]]
  BY DEF ReadOld
<1>2. s \in Slots  BY <1>0 DEF Types
<1>3. storage[s] \in Live  BY <1>0, <1>2 DEF ReadOld, Clean, Open, Probing
<1>4. /\ run'.queue = run.queue \ {s} /\ run'.slot = s /\ run'.old = storage[s]
  BY <1>0, <1>1 DEF Types
<1>5. Types'  BY <1>0, <1>1, <1>2, <1>3 DEF Types, ReadOld, account
<1>6. Calling'
  BY <1>0 DEF ReadOld, account, Calling, Seeking, Open
<1>7. Clean'
  BY <1>0, <1>2, <1>3, <1>4 DEF ReadOld, Clean, Open, AtWord, Probing
<1>8. Knowing'
  BY <1>0, <1>4 DEF ReadOld, account, Knowing, SlotsProven, UnsupportedHasCause,
     Open, Right, getter
<1>9. QED  BY <1>5, <1>6, <1>7, <1>8 DEF IInv

LEMMA ProbeStep == ASSUME IInv, WriteProbe  PROVE IInv'
<1>0. Types /\ Calling /\ Clean /\ Knowing  BY DEF IInv
<1>1. run.slot \in Slots /\ run.old \in Live
  BY <1>0 DEF WriteProbe, Clean, AtWord
<1>2. \A s \in Slots : storage[s] \in Live  BY <1>0 DEF WriteProbe, Clean, Open, Probing
<1>3. storage' = [storage EXCEPT ![run.slot] = ProbeWord]  BY DEF WriteProbe
<1>4. Types'
  <2>1. storage' \in [Slots -> Words]  BY <1>0, <1>3, WordFacts DEF Types
  <2>2. QED  BY <1>0, <2>1 DEF Types, WriteProbe, account
<1>5. Calling'
  BY <1>0 DEF WriteProbe, account, Calling, Seeking, Open
<1>6. Clean'
  BY <1>0, <1>1, <1>2, <1>3 DEF WriteProbe, Clean, Open, AtWord, Probing, Types
<1>7. Knowing'
  BY <1>0 DEF WriteProbe, account, Knowing, SlotsProven, UnsupportedHasCause,
     Open, Right, getter
<1>8. QED  BY <1>4, <1>5, <1>6, <1>7 DEF IInv

(* The answer decides: it is the probe if and only if the word is the right one. *)
LEMMA AskStep == ASSUME IInv, Ask  PROVE IInv'
<1>0. Types /\ Calling /\ Clean /\ Knowing  BY DEF IInv
<1>1. /\ run.slot \in Slots /\ storage[run.slot] = ProbeWord
      /\ \A s \in Slots : storage[s] \in Live \/ s = run.slot
  BY <1>0 DEF Ask, Clean, Open, AtWord, Probing
<1>2. getter \in Getters /\ layout \in Layouts /\ storage \in [Slots -> Words]
  BY <1>0, First DEF Ask, Calling, Seeking, Types
<1> DEFINE hit == Answer(layout, getter, storage) = ProbeWord
<1>3. run' = [run EXCEPT !.matches = hit]  BY DEF Ask
<1>4. hit => run.slot = Right
  BY <1>1, <1>2, AnswersOnly DEF Right
<1>5. Right # None /\ run.slot = Right => hit
  BY <1>1, <1>2, Answers DEF Right
<1>6. /\ run'.queue = run.queue /\ run'.slot = run.slot /\ run'.old = run.old
      /\ run'.matches = hit
  BY <1>0, <1>3 DEF Types
<1>7. hit \in BOOLEAN  OBVIOUS
<1> HIDE DEF hit
<1>8. Types'  BY <1>0, <1>3, <1>7 DEF Types, Ask, account
<1>9. Calling'  BY <1>0 DEF Ask, account, Calling, Seeking, Open
<1>10. Clean'  BY <1>0, <1>6 DEF Ask, Clean, Open, AtWord, Probing
<1>11. Knowing'
  <2>1. Right' = Right  BY DEF Ask, account, Right, getter
  <2>2. SlotsProven' /\ UnsupportedHasCause' /\ reason' = "none"
    BY <1>0 DEF Ask, account, Knowing, SlotsProven, UnsupportedHasCause, Open
  <2>3. \/ Right = None \/ missed \/ Right \in run.queue \/ Right = run.slot
    BY <1>0 DEF Ask, Knowing
  <2>4. missed' = missed /\ pc' = "undo"  BY DEF Ask
  <2>5. run'.matches => run'.slot = Right'  BY <1>4, <1>6, <2>1
  <2>6. Right' = None \/ missed' \/ Right' \in run'.queue \/ run'.matches
    BY <1>5, <1>6, <2>1, <2>3, <2>4
  <2>7. QED  BY <2>2, <2>4, <2>5, <2>6 DEF Knowing
<1>12. QED  BY <1>8, <1>9, <1>10, <1>11 DEF IInv

LEMMA AskFailsStep == ASSUME IInv, AskFails  PROVE IInv'
<1>0. Types /\ Calling /\ Clean /\ Knowing  BY DEF IInv
<1>1. /\ run'.slot = run.slot /\ run'.old = run.old /\ run'.matches = FALSE
      /\ missed' = TRUE
  BY <1>0 DEF AskFails, Types
<1>2. Types'  BY <1>0 DEF Types, AskFails, account
<1>3. Calling'  BY <1>0 DEF AskFails, account, Calling, Seeking, Open
<1>4. Clean'  BY <1>0, <1>1 DEF AskFails, Clean, Open, AtWord, Probing
<1>5. Knowing'
  BY <1>0, <1>1 DEF AskFails, account, Knowing, SlotsProven, UnsupportedHasCause,
     Open
<1>6. QED  BY <1>2, <1>3, <1>4, <1>5 DEF IInv

LEMMA UndoStep == ASSUME IInv, Undo  PROVE IInv'
<1>0. Types /\ Calling /\ Clean /\ Knowing  BY DEF IInv
<1>1. /\ run.slot \in Slots /\ run.old \in Live
      /\ \A s \in Slots : storage[s] \in Live \/ s = run.slot
  BY <1>0 DEF Undo, Clean, Open, AtWord, Probing
<1>2. storage' = [storage EXCEPT ![run.slot] = run.old]  BY DEF Undo, Undone
<1>3. \A s \in Slots : storage'[s] \in Live  BY <1>0, <1>1, <1>2 DEF Types
<1>4. getter \in Getters /\ getter' = getter
  BY <1>0, First DEF Undo, Calling, Seeking, getter
<1>5. slots' = IF run.matches THEN [slots EXCEPT ![getter] = run.slot] ELSE slots
  BY DEF Undo
<1>6. Types'
  <2>1. storage' \in [Slots -> Words]  BY <1>0, <1>1, <1>2, WordFacts DEF Types
  <2>2. slots' \in [Getters -> Slots \cup {None}]  BY <1>0, <1>1, <1>5 DEF Types
  <2>3. QED  BY <1>0, <2>1, <2>2 DEF Types, Undo, account
<1>7. Calling'
  <2>1. pc' = "use" => slots'[getter] # None
    BY <1>0, <1>1, <1>4, <1>5, WordAssumption DEF Undo, Types
  <2>2. QED
    BY <1>0, <1>4, <2>1 DEF Undo, account, Calling, Seeking, Open
<1>8. Clean'
  <2>1. pc' \in {"use", "next"}  BY DEF Undo
  <2>2. QED  BY <1>3, <2>1 DEF Clean, Open, AtWord, Probing
<1>9. Knowing'
  <2>1. run.matches => run.slot = Right  BY <1>0 DEF Undo, Knowing
  <2>2. SlotsProven'
    BY <1>0, <1>4, <1>5, <2>1 DEF Undo, account, Knowing, SlotsProven, Right, Types
  <2>3. QED
    BY <1>0, <1>4, <2>2 DEF Undo, account, Knowing, UnsupportedHasCause, Open, Right
<1>10. QED  BY <1>6, <1>7, <1>8, <1>9 DEF IInv

LEMMA TakeStep == ASSUME IInv, TakeWord  PROVE IInv'
<1>0. Types /\ Calling /\ Clean /\ Knowing  BY DEF IInv
<1>1. todo # <<>> /\ getter \in Getters /\ slots[getter] # None
  BY <1>0, First DEF TakeWord, Calling, Seeking
<1>2. slots[getter] \in Slots  BY <1>0, <1>1 DEF Types
<1>3. storage[slots[getter]] \in Live
  BY <1>0, <1>2 DEF TakeWord, Clean, Open, Probing
<1>4. Types'
  <2>1. taken' \in [Getters -> Live \cup {None}]
    BY <1>0, <1>1, <1>3 DEF Types, TakeWord
  <2>2. QED  BY <1>0, <1>1, <2>1, First DEF Types, TakeWord, account
<1>5. Calling'
  <2>1. \A i \in DOMAIN todo' :
          todo'[i].op = "restore" => kept'[todo'[i].getter] # None
    BY <1>0, <1>1, RestTail DEF TakeWord, account, Open
  <2>2. QED  BY <2>1 DEF TakeWord, Calling, Seeking, Open
<1>6. Clean'  BY <1>0 DEF TakeWord, Clean, Open, AtWord, Probing
<1>7. Knowing'
  BY <1>0 DEF TakeWord, account, Knowing, SlotsProven, UnsupportedHasCause, Open
<1>8. QED  BY <1>4, <1>5, <1>6, <1>7 DEF IInv

LEMMA WriteStep == ASSUME IInv, WriteWord  PROVE IInv'
<1>0. Types /\ Calling /\ Clean /\ Knowing  BY DEF IInv
<1>1. todo # <<>> /\ getter \in Getters /\ slots[getter] # None
  BY <1>0, First DEF WriteWord, Calling, Seeking
<1>2. slots[getter] \in Slots  BY <1>0, <1>1 DEF Types
<1>3. \A s \in Slots : storage[s] \in Live  BY <1>0 DEF WriteWord, Clean, Open, Probing
<1>4. Value \in Live  BY <1>0, <1>1, ValueIsLive DEF WriteWord, Open
<1>5. storage' = [storage EXCEPT ![slots[getter]] = Value]  BY DEF WriteWord
<1>6. /\ run'.slot = slots[getter] /\ run'.old = storage[slots[getter]]
  BY <1>0 DEF WriteWord, Types
<1>7. \A s \in Slots : storage'[s] \in Live  BY <1>0, <1>3, <1>4, <1>5 DEF Types
<1>8. Types'
  <2>1. storage' \in [Slots -> Words]  BY <1>0, <1>4, <1>5, WordFacts DEF Types
  <2>2. run' \in [queue : SUBSET Slots, slot : Slots \cup {None},
                  old : Live \cup {None}, matches : BOOLEAN]
    BY <1>0, <1>2, <1>3 DEF WriteWord, Types
  <2>3. QED  BY <1>0, <2>1, <2>2 DEF Types, WriteWord, account
<1>9. getter' = getter /\ Value' = Value /\ slots' = slots
  BY DEF WriteWord, account, getter, Value
<1>10. Calling'
  <2>1. storage'[run'.slot] = Value'  BY <1>0, <1>2, <1>5, <1>6, <1>9 DEF Types
  <2>2. QED
    BY <1>0, <1>1, <1>6, <1>9, <2>1 DEF WriteWord, account, Calling, Seeking, Open
<1>11. Clean'
  <2>1. pc' = "verify"  BY DEF WriteWord
  <2>2. run'.slot \in Slots /\ run'.old \in Live  BY <1>2, <1>3, <1>6
  <2>3. QED  BY <1>7, <2>1, <2>2 DEF Clean, Open, AtWord, Probing
<1>12. Knowing'
  BY <1>0 DEF WriteWord, account, Knowing, SlotsProven, UnsupportedHasCause, Open
<1>13. QED  BY <1>8, <1>10, <1>11, <1>12 DEF IInv

LEMMA SeededStep == ASSUME IInv, Seeded  PROVE IInv'
<1>0. Types /\ Calling /\ Clean /\ Knowing  BY DEF IInv
<1>1. todo # <<>>  BY <1>0 DEF Seeded, Calling, Seeking
<1>2. Types'  BY <1>0, <1>1, First DEF Types, Seeded, account
<1>3. Calling'
  <2>1. \A i \in DOMAIN todo' :
          todo'[i].op = "restore" => kept'[todo'[i].getter] # None
    BY <1>0, <1>1, RestTail DEF Seeded, account, Open
  <2>2. QED  BY <2>1 DEF Seeded, Calling, Seeking, Open
<1>4. Clean'  BY <1>0 DEF Seeded, Clean, Open, AtWord, Probing
<1>5. Knowing'
  BY <1>0 DEF Seeded, account, Knowing, SlotsProven, UnsupportedHasCause, Open
<1>6. QED  BY <1>2, <1>3, <1>4, <1>5 DEF IInv

(* However an action fails, its fork is closed. *)
LEMMA RaiseStep ==
  ASSUME IInv, Unsupported \/ NotSeeded \/ NodeFails
  PROVE  IInv'
<1>0. Types /\ Calling /\ Clean /\ Knowing  BY DEF IInv
<1>1. /\ UNCHANGED <<plan, kept, layout, storage, todo, taken, slots, run, missed>>
      /\ pc' = "closed" /\ reason' \in {"unsupported", "cannot seed", "node"}
  BY DEF Unsupported, NotSeeded, NodeFails, Raise, account
<1>2. Types'  BY <1>0, <1>1 DEF Types
<1>3. Calling'  BY <1>1 DEF Calling, Seeking, Open
<1>4. Clean'  BY <1>1 DEF Clean, Open, AtWord, Probing
<1>5. Knowing'
  <2>1. SlotsProven'  BY <1>1 DEF SlotsProven
  <2>2. CASE Unsupported
    <3>1. Right = None \/ missed  BY <1>0, <2>2 DEF Unsupported, Knowing
    <3>2. UnsupportedHasCause'  BY <1>1, <3>1 DEF UnsupportedHasCause, Right, getter
    <3>3. QED  BY <1>1, <2>1, <3>2 DEF Knowing, Open
  <2>3. CASE NotSeeded \/ NodeFails
    <3>1. UnsupportedHasCause'
      BY <2>3 DEF NotSeeded, NodeFails, Raise, UnsupportedHasCause
    <3>2. QED  BY <1>1, <2>1, <3>1 DEF Knowing, Open
  <2>4. QED  BY <2>2, <2>3
<1>6. QED  BY <1>2, <1>3, <1>4, <1>5 DEF IInv

(* Every step keeps the invariant. *)
THEOREM Inductive == IInv /\ [Next]_vars => IInv'
<1> SUFFICES ASSUME IInv, [Next]_vars  PROVE IInv'
  OBVIOUS
<1>1. CASE UNCHANGED vars
  <2>1. Types'  BY <1>1 DEF vars, IInv, Types
  <2>2. Calling'
    BY <1>1 DEF vars, IInv, Calling, Seeking, Open, getter, Value
  <2>3. Clean'  BY <1>1 DEF vars, IInv, Clean, Open, AtWord, Probing
  <2>4. Knowing'
    BY <1>1 DEF vars, IInv, Knowing, SlotsProven, UnsupportedHasCause, Open,
       Right, getter
  <2>5. QED  BY <2>1, <2>2, <2>3, <2>4 DEF IInv
<1>2. CASE Done  BY <1>1, <1>2 DEF Done
<1>3. CASE Next
  BY <1>2, <1>3, OpenStep, ActStep, FinishStep, KnownStep, TraceStep, ReadStep,
     RaiseStep, ProbeStep, AskStep, AskFailsStep, UndoStep, TakeStep, WriteStep,
     SeededStep DEF Next
<1>4. QED  BY <1>1, <1>3

(* What the invariant says is so, always. *)
THEOREM Invariant == Spec => []IInv
<1>1. Init => IInv  BY Initially
<1>2. IInv /\ [Next]_vars => IInv'  BY Inductive
<1>3. QED  BY <1>1, <1>2, PTL DEF Spec

(* Types, and no call begins on a fork with a probe left in a word. *)
THEOREM TypeCorrect == Spec => []TypeOK
<1>1. IInv => TypeOK  BY Meaning
<1>2. QED  BY <1>1, Invariant, PTL

(* For every layout, a remembered slot is the word of its getter. *)
THEOREM Proven == Spec => []SlotsProven
<1>1. IInv => SlotsProven  BY Meaning
<1>2. QED  BY <1>1, Invariant, PTL

(* No layout with a word of its own for a getter is given up on, unless the node
   did not answer. *)
THEOREM UnsupportedCaused == Spec => []UnsupportedHasCause
<1>1. IInv => UnsupportedHasCause  BY Meaning
<1>2. QED  BY <1>1, Invariant, PTL

-----------------------------------------------------------------------------
(* The refinement *)

Refined == <<plan, kept, pc # "closed", layout, view, todo, taken>>

LEMMA AnswerIsAnswer ==
  \A l, g, s : Abstract!Answer(l, g, s) = Answer(l, g, s)
BY DEF Abstract!Answer, Answer, Abstract!Broken, Broken, Abstract!Shown, Shown,
   Abstract!Blank, Blank

(* Steps of a search, and a written word not yet verified, are not visible. *)
LEMMA SearchIsHidden ==
  ASSUME IInv, \/ SlotKnown \/ Trace \/ ReadOld \/ WriteProbe \/ Ask \/ AskFails
               \/ Undo \/ WriteWord
  PROVE  UNCHANGED Refined
<1>0. Types /\ Calling /\ Clean  BY DEF IInv
<1>1. UNCHANGED <<plan, kept, layout, todo, taken>> /\ (pc' # "closed") = (pc # "closed")
  BY DEF SlotKnown, Trace, ReadOld, WriteProbe, Ask, AskFails, Undo, WriteWord,
         account, Seeks
<1>2. view' = view
  <2>1. CASE SlotKnown \/ Trace \/ ReadOld
    BY <2>1 DEF SlotKnown, Trace, ReadOld, Seeks, view
  <2>2. CASE WriteProbe
    <3>1. /\ run.slot \in Slots /\ run.old = storage[run.slot] /\ run' = run
          /\ storage' = [storage EXCEPT ![run.slot] = ProbeWord]
      BY <1>0, <2>2 DEF WriteProbe, Clean, AtWord
    <3>2. [storage' EXCEPT ![run'.slot] = run'.old] = storage
      BY <1>0, <3>1 DEF Types
    <3>3. QED  BY <2>2, <3>2 DEF WriteProbe, view
  <2>3. CASE Ask \/ AskFails
    <3>1. run'.slot = run.slot /\ run'.old = run.old /\ storage' = storage
      BY <1>0, <2>3 DEF Ask, AskFails, Types
    <3>2. pc = "ask" /\ pc' = "undo"  BY <2>3 DEF Ask, AskFails
    <3>3. QED  BY <3>1, <3>2 DEF view
  <2>4. CASE Undo
    BY <2>4 DEF Undo, Undone, view
  <2>5. CASE WriteWord
    <3>1. getter \in Getters /\ slots[getter] # None
      BY <1>0, <2>5, First DEF WriteWord, Calling, Seeking
    <3>2. slots[getter] \in Slots  BY <1>0, <3>1 DEF Types
    <3>3. /\ run'.slot = slots[getter] /\ run'.old = storage[slots[getter]]
          /\ storage' = [storage EXCEPT ![slots[getter]] = Value]
      BY <1>0, <2>5 DEF WriteWord, Types
    <3>4. [storage' EXCEPT ![run'.slot] = run'.old] = storage
      BY <1>0, <3>2, <3>3 DEF Types
    <3>5. QED  BY <2>5, <3>4 DEF WriteWord, view
  <2>6. QED  BY <2>1, <2>2, <2>3, <2>4, <2>5
<1>3. QED  BY <1>1, <1>2 DEF Refined

LEMMA SeededIsSet == ASSUME IInv, Seeded  PROVE Abstract!Set
<1>0. Types /\ Calling /\ Clean /\ Knowing  BY DEF IInv
<1>1. /\ todo # <<>> /\ getter \in Getters /\ slots[getter] # None
      /\ run.slot = slots[getter] /\ storage[run.slot] = Value
      /\ Head(todo).op \in {"set", "restore"}
  BY <1>0, First DEF Seeded, Calling, Seeking
<1>2. run.slot = Right /\ Right # None
  BY <1>0, <1>1 DEF Seeded, Knowing, SlotsProven, Right
<1>3. run.slot \in Slots /\ run.old \in Live
  BY <1>0 DEF Seeded, Clean, AtWord
<1>4. view = [storage EXCEPT ![Right] = run.old] /\ view' = storage
  BY <1>2 DEF Seeded, view
<1>5. view' = [view EXCEPT ![Right] = Value]
  BY <1>0, <1>1, <1>2, <1>3, <1>4 DEF Types
<1>6. \A h \in Getters \ {getter} : Answer(layout, h, view') = Answer(layout, h, view)
  <2>1. layout \in Layouts /\ storage \in [Slots -> Words]  BY <1>0 DEF Types
  <2>2. view \in [Slots -> Words] /\ view' \in [Slots -> Words]
    BY <1>3, <1>4, <2>1, WordFacts
  <2>3. \A x \in Slots : x # layout.own[getter] => view'[x] = view[x]
    BY <1>4, <2>1 DEF Right
  <2>4. layout.own[getter] # None  BY <1>2 DEF Right
  <2>5. TAKE h \in Getters \ {getter}
  <2>6. h \in Getters /\ h # getter /\ getter \in Getters  BY <1>1, <2>5
  <2>7. QED  BY <2>1, <2>2, <2>3, <2>4, <2>6, OthersAnswer
<1>7. UNCHANGED <<plan, kept, layout, taken>> /\ todo' = Tail(todo)
      /\ pc # "closed" /\ pc' # "closed"
  BY DEF Seeded, account
<1>8. Abstract!Call({"set", "restore"})
  BY <1>1, <1>7 DEF Abstract!Call
<1>9. QED
  BY <1>2, <1>5, <1>6, <1>7, <1>8, AnswerIsAnswer DEF Abstract!Set, getter, Right, Value

LEMMA TakeIsTake == ASSUME IInv, TakeWord  PROVE Abstract!Take
<1>0. Types /\ Calling /\ Knowing  BY DEF IInv
<1>1. todo # <<>> /\ getter \in Getters /\ slots[getter] # None
  BY <1>0, First DEF TakeWord, Calling, Seeking
<1>2. slots[getter] = Right /\ Right # None
  BY <1>0, <1>1 DEF TakeWord, Knowing, SlotsProven, Right
<1>3. view = storage /\ view' = storage  BY DEF TakeWord, view
<1>4. UNCHANGED <<plan, kept, layout>> /\ todo' = Tail(todo)
      /\ pc # "closed" /\ pc' # "closed" /\ Head(todo).op = "word"
  BY DEF TakeWord, account
<1>5. Abstract!Call({"word"})  BY <1>1, <1>4 DEF Abstract!Call
<1>6. taken' = [taken EXCEPT ![getter] = view[Right]]
  BY <1>2, <1>3 DEF TakeWord
<1>7. QED  BY <1>2, <1>3, <1>5, <1>6 DEF Abstract!Take, getter, Right

LEMMA ActIsAct == ASSUME IInv, Act  PROVE Abstract!Act
<1>0. Types /\ Clean  BY DEF IInv
<1>1. PICK g \in Getters, w \in Live :
        /\ layout.own[g] # None
        /\ storage' = [storage EXCEPT ![layout.own[g]] = w]
  BY DEF Act
<1>2. \A s \in Slots : storage[s] \in Live  BY <1>0 DEF Act, Clean, Open, Probing
<1>3. storage' \in [Slots -> Live]  BY <1>0, <1>1, <1>2 DEF Types
<1>4. view' = storage'  BY DEF Act, view
<1>5. UNCHANGED <<plan, kept, layout, taken>> /\ todo' = Tail(todo) /\ todo # <<>>
      /\ pc # "closed" /\ pc' # "closed" /\ Head(todo).op = "act"
  BY DEF Act, account
<1>6. Abstract!Call({"act"})  BY <1>5 DEF Abstract!Call
<1>7. QED
  BY <1>3, <1>4, <1>5, <1>6
  DEF Abstract!Act, Abstract!Live, Live

LEMMA OpenIsOpen == ASSUME IInv, OpenFork  PROVE Abstract!Open
BY DEF OpenFork, CanOpen, Abstract!Open, view

LEMMA FinishIsClose == ASSUME IInv, Finish  PROVE Abstract!Close
BY DEF Finish, Abstract!Close, view

LEMMA RaiseIsRaise ==
  ASSUME IInv, Unsupported \/ NotSeeded \/ NodeFails
  PROVE  Abstract!Raise
BY DEF Unsupported, NotSeeded, NodeFails, Raise, account, Abstract!Raise

(* Every step of a search, a write and its verification is one step of Seeding,
   or none: for every layout, whatever requests fail, seeding is atomic. *)
THEOREM Implements == Spec => ImplementsSeeding
<1>1. Init => Abstract!Init
  BY DEF Init, Abstract!Init
<1>2. IInv /\ [Next]_vars => [Abstract!Next]_Abstract!vars
  <2> SUFFICES ASSUME IInv, [Next]_vars  PROVE [Abstract!Next]_Abstract!vars
    OBVIOUS
  <2>1. CASE UNCHANGED vars \/ Done
    BY <2>1 DEF vars, Done, Abstract!vars, view
  <2>2. CASE \/ SlotKnown \/ Trace \/ ReadOld \/ WriteProbe \/ Ask \/ AskFails
             \/ Undo \/ WriteWord
    BY <2>2, SearchIsHidden DEF Abstract!vars, Refined
  <2>3. CASE \/ OpenFork \/ Act \/ Finish \/ Unsupported \/ TakeWord \/ Seeded
             \/ NotSeeded \/ NodeFails
    BY <2>3, OpenIsOpen, ActIsAct, FinishIsClose, RaiseIsRaise, TakeIsTake,
       SeededIsSet DEF Abstract!Next
  <2>4. QED  BY <2>1, <2>2, <2>3 DEF Next
<1>3. QED
  BY <1>1, <1>2, Invariant, PTL DEF Spec, ImplementsSeeding, Abstract!Spec

-------------------------------------------------------------------------------
(* What a fork owns follows from where its process is. *)

Forks == [pc : Steps, block : Blocks \cup {Nothing}, port : Ports \cup {Nothing},
          bridge : BOOLEAN, temp : BOOLEAN, anvil : Alive \cup {"dead", Nothing},
          late : BOOLEAN]

(* The bridge is open from its start until Anvil was waited for, the directory
   begins and ends a little later, and Anvil is alive in between only, unless the
   wait for its end timed out. *)
WithBridge == {"port", "temp", "spawn", "poll", "setup", "open", "exit", "wait",
               "close"}
WithTemp == {"spawn", "poll", "setup", "open", "exit", "wait", "close", "clean"}
WithAnvil == {"poll", "setup", "open", "exit", "wait", "stuck"}
WithPort == {"temp", "spawn", "poll", "setup", "open"}
Owns(f) ==
  /\ f.bridge = TRUE <=> f.pc \in WithBridge
  /\ f.temp = TRUE <=> f.pc \in WithTemp
  /\ f.anvil \in Alive => f.pc \in WithAnvil
  /\ f.pc \in WithPort => f.port # Nothing

Owned == /\ fork \in [Processes -> Forks]
        /\ \A p \in Processes : Owns(fork[p])

USE DEF WithBridge, WithTemp, WithAnvil, WithPort

(* The inductive invariant implies what the run checks. *)
LEMMA OwnedMeans == Owned => LifecycleTypes /\ BridgeOutlivesAnvil /\ NothingLeftOpen
<1>1. Owned => LifecycleTypes
  BY DEF Owned, Owns, Forks, LifecycleTypes, at
<1>2. Owned => BridgeOutlivesAnvil
  BY DEF Owned, Owns, BridgeOutlivesAnvil, at
<1>3. Owned => NothingLeftOpen
  BY DEF Owned, Owns, NothingLeftOpen, at
<1>4. QED  BY <1>1, <1>2, <1>3

LEMMA InitiallyOwned == LifecycleInit => Owned
<1>1. Closed \in Forks  BY DEF Closed, Forks, Steps
<1>2. Owns(Closed)
  <2>1. Closed.anvil \notin Alive  BY NothingAssumption DEF Closed
  <2>2. QED  BY <2>1 DEF Closed, Owns
<1>3. QED  BY <1>1, <1>2 DEF LifecycleInit, Owned

(* A step of one process or of its Anvil keeps the invariant if the fork of that
   process is as it should be afterwards. *)
LEMMA OneFork ==
  ASSUME Owned, NEW p \in Processes, NEW f \in Forks, Owns(f),
         fork' = [fork EXCEPT ![p] = f]
  PROVE  Owned'
BY DEF Owned

(* The fields of the fork of a process. *)
LEMMA Fields ==
  ASSUME Owned, NEW p \in Processes
  PROVE  fork[p] \in Forks /\ Owns(fork[p])
BY DEF Owned

LEMMA OpeningKeeps ==
  ASSUME Owned, NEW p \in Processes, Opening(p)
  PROVE  Owned'
<1> DEFINE f == fork[p]
<1>0. f \in Forks /\ Owns(f)  BY Fields
<1>1. CASE Enter(p)
  <2>1. PICK b \in Blocks :
          fork' = [fork EXCEPT ![p] = [Closed EXCEPT !.pc = "bridge", !.block = b]]
    BY <1>1 DEF Enter
  <2>2. [Closed EXCEPT !.pc = "bridge", !.block = b] \in Forks
    BY DEF Closed, Forks, Steps
  <2>3. Closed.anvil \notin Alive  BY NothingAssumption DEF Closed
  <2>4. Owns([Closed EXCEPT !.pc = "bridge", !.block = b])
    BY <2>3 DEF Closed, Owns
  <2>5. QED  BY <2>1, <2>2, <2>4, OneFork
<1>2. CASE OpenBridge(p)
  <2> DEFINE g == [f EXCEPT !.bridge = TRUE, !.pc = "port"]
  <2>1. fork' = [fork EXCEPT ![p] = g]  BY <1>2 DEF OpenBridge
  <2>2. g \in Forks  BY <1>0 DEF Forks, Steps
  <2>3. Owns(g)  BY <1>0, <1>2 DEF OpenBridge, at, Owns, Forks
  <2>4. QED  BY <2>1, <2>2, <2>3, OneFork
<1>3. CASE PickPort(p)
  <2>1. PICK q \in Ports :
          fork' = [fork EXCEPT ![p].port = q, ![p].pc = "temp"]
    BY <1>3 DEF PickPort
  <2> DEFINE g == [f EXCEPT !.port = q, !.pc = "temp"]
  <2>2. fork' = [fork EXCEPT ![p] = g]  BY <2>1
  <2>3. g \in Forks  BY <1>0 DEF Forks, Steps
  <2>4. q # Nothing  BY NothingAssumption
  <2>5. Owns(g)  BY <1>0, <1>3, <2>4 DEF PickPort, at, Owns, Forks
  <2>6. QED  BY <2>2, <2>3, <2>5, OneFork
<1>4. CASE MakeTemp(p)
  <2> DEFINE g == [f EXCEPT !.temp = TRUE, !.pc = "spawn"]
  <2>1. fork' = [fork EXCEPT ![p] = g]  BY <1>4 DEF MakeTemp
  <2>2. g \in Forks  BY <1>0 DEF Forks, Steps
  <2>3. Owns(g)  BY <1>0, <1>4 DEF MakeTemp, at, Owns, Forks
  <2>4. QED  BY <2>1, <2>2, <2>3, OneFork
<1>5. CASE SetupRaises(p)
  <2> DEFINE g == [Exited(f) EXCEPT !.pc = "ended"]
  <2>1. fork' = [fork EXCEPT ![p] = g]  BY <1>5 DEF SetupRaises
  <2>2. g \in Forks  BY <1>0 DEF Forks, Steps, Exited
  <2>3. Owns(g)  BY <1>0, <1>5 DEF SetupRaises, at, Owns, Forks, Exited
  <2>4. QED  BY <2>1, <2>2, <2>3, OneFork
<1>6. CASE Spawn(p)
  <2>1. CASE fork' = [fork EXCEPT ![p].anvil = "starting", ![p].pc = "poll"]
    <3> DEFINE g == [f EXCEPT !.anvil = "starting", !.pc = "poll"]
    <3>1. fork' = [fork EXCEPT ![p] = g]  BY <2>1
    <3>2. g \in Forks  BY <1>0 DEF Forks, Steps, Alive
    <3>3. Owns(g)  BY <1>0, <1>6 DEF Spawn, at, Owns, Forks
    <3>4. QED  BY <3>1, <3>2, <3>3, OneFork
  <2>2. CASE Go(p, "exit")
    <3> DEFINE g == [f EXCEPT !.pc = "exit"]
    <3>1. fork' = [fork EXCEPT ![p] = g]  BY <2>2 DEF Go
    <3>2. g \in Forks  BY <1>0 DEF Forks, Steps
    <3>3. Owns(g)  BY <1>0, <1>6 DEF Spawn, at, Owns, Forks
    <3>4. QED  BY <3>1, <3>2, <3>3, OneFork
  <2>3. QED  BY <1>6, <2>1, <2>2 DEF Spawn
<1>7. CASE PollAccepts(p)
  <2> DEFINE g == [f EXCEPT !.pc = "setup"]
  <2>1. fork' = [fork EXCEPT ![p] = g]  BY <1>7 DEF PollAccepts, Go
  <2>2. g \in Forks  BY <1>0 DEF Forks, Steps
  <2>3. Owns(g)  BY <1>0, <1>7 DEF PollAccepts, at, Owns, Forks
  <2>4. QED  BY <2>1, <2>2, <2>3, OneFork
<1>8. CASE PollGivesUp(p)
  <2> DEFINE g == [f EXCEPT !.pc = "exit"]
  <2>1. fork' = [fork EXCEPT ![p] = g]  BY <1>8 DEF PollGivesUp, Go
  <2>2. g \in Forks  BY <1>0 DEF Forks, Steps
  <2>3. Owns(g)  BY <1>0, <1>8 DEF PollGivesUp, at, Owns, Forks
  <2>4. QED  BY <2>1, <2>2, <2>3, OneFork
<1>9. CASE Prepare(p)
  <2>1. PICK to \in {"open", "exit"} : Go(p, to)  BY <1>9 DEF Prepare
  <2> DEFINE g == [f EXCEPT !.pc = to]
  <2>2. fork' = [fork EXCEPT ![p] = g]  BY <2>1 DEF Go
  <2>3. g \in Forks  BY <1>0 DEF Forks, Steps
  <2>4. Owns(g)  BY <1>0, <1>9 DEF Prepare, at, Owns, Forks
  <2>5. QED  BY <2>2, <2>3, <2>4, OneFork
<1>10. QED
  BY <1>1, <1>2, <1>3, <1>4, <1>5, <1>6, <1>7, <1>8, <1>9 DEF Opening

LEMMA ClosingKeeps ==
  ASSUME Owned, NEW p \in Processes, Closing(p)
  PROVE  Owned'
<1> DEFINE f == fork[p]
<1>0. f \in Forks /\ Owns(f)  BY Fields
<1>1. CASE Leave(p)
  <2> DEFINE g == [f EXCEPT !.pc = "exit"]
  <2>1. fork' = [fork EXCEPT ![p] = g]  BY <1>1 DEF Leave, Go
  <2>2. g \in Forks  BY <1>0 DEF Forks, Steps
  <2>3. Owns(g)  BY <1>0, <1>1 DEF Leave, at, Owns, Forks
  <2>4. QED  BY <2>1, <2>2, <2>3, OneFork
<1>2. CASE Terminate(p)
  <2>1. CASE f.anvil = Nothing
    <3> DEFINE g == [f EXCEPT !.pc = "close"]
    <3>1. fork' = [fork EXCEPT ![p] = g]  BY <1>2, <2>1 DEF Terminate, Go
    <3>2. g \in Forks  BY <1>0 DEF Forks, Steps
    <3>3. f.anvil \notin Alive  BY <2>1, NothingAssumption
    <3>4. Owns(g)  BY <1>0, <1>2, <3>3 DEF Terminate, at, Owns, Forks
    <3>5. QED  BY <3>1, <3>2, <3>4, OneFork
  <2>2. CASE f.anvil # Nothing
    <3> DEFINE g == [f EXCEPT !.pc = "wait"]
    <3>1. fork' = [fork EXCEPT ![p] = g]  BY <1>2, <2>2 DEF Terminate, Go
    <3>2. g \in Forks  BY <1>0 DEF Forks, Steps
    <3>3. Owns(g)  BY <1>0, <1>2 DEF Terminate, at, Owns, Forks
    <3>4. QED  BY <3>1, <3>2, <3>3, OneFork
  <2>3. QED  BY <2>1, <2>2
<1>3. CASE Reap(p)
  <2> DEFINE g == [f EXCEPT !.pc = "close"]
  <2>1. fork' = [fork EXCEPT ![p] = g]  BY <1>3 DEF Reap, Go
  <2>2. g \in Forks  BY <1>0 DEF Forks, Steps
  <2>3. f.anvil \notin Alive  BY <1>3 DEF Reap, Alive
  <2>4. Owns(g)  BY <1>0, <1>3, <2>3 DEF Reap, at, Owns, Forks
  <2>5. QED  BY <2>1, <2>2, <2>4, OneFork
<1>4. CASE TimesOut(p)
  <2> DEFINE g == [Exited(f) EXCEPT !.pc = "stuck"]
  <2>1. fork' = [fork EXCEPT ![p] = g]  BY <1>4 DEF TimesOut
  <2>2. g \in Forks  BY <1>0 DEF Forks, Steps, Exited
  <2>3. Owns(g)  BY <1>0 DEF Owns, Forks, Exited
  <2>4. QED  BY <2>1, <2>2, <2>3, OneFork
<1>5. CASE CloseBridge(p)
  <2> DEFINE g == [f EXCEPT !.bridge = FALSE, !.pc = "clean"]
  <2>1. fork' = [fork EXCEPT ![p] = g]  BY <1>5 DEF CloseBridge
  <2>2. g \in Forks  BY <1>0 DEF Forks, Steps
  <2>3. Owns(g)  BY <1>0, <1>5 DEF CloseBridge, at, Owns, Forks
  <2>4. QED  BY <2>1, <2>2, <2>3, OneFork
<1>6. CASE CleanUp(p)
  <2>1. PICK next \in {"idle", "ended"} :
          fork' = [fork EXCEPT ![p].temp = FALSE, ![p].pc = next]
    BY <1>6 DEF CleanUp
  <2> DEFINE g == [f EXCEPT !.temp = FALSE, !.pc = next]
  <2>2. fork' = [fork EXCEPT ![p] = g]  BY <2>1
  <2>3. g \in Forks  BY <1>0 DEF Forks, Steps
  <2>4. Owns(g)  BY <1>0, <1>6 DEF CleanUp, at, Owns, Forks
  <2>5. QED  BY <2>2, <2>3, <2>4, OneFork
<1>7. QED  BY <1>1, <1>2, <1>3, <1>4, <1>5, <1>6 DEF Closing

(* What Anvil and the clock do needs no cooperation of the program. *)
LEMMA SurroundingsKeep ==
  ASSUME Owned, NEW p \in Processes,
         DeadlinePasses(p) \/ Bind(p) \/ AnvilDies(p)
  PROVE  Owned'
<1> DEFINE f == fork[p]
<1>0. f \in Forks /\ Owns(f)  BY Fields
<1>1. CASE DeadlinePasses(p)
  <2> DEFINE g == [f EXCEPT !.late = TRUE]
  <2>1. fork' = [fork EXCEPT ![p] = g]  BY <1>1 DEF DeadlinePasses
  <2>2. g \in Forks  BY <1>0 DEF Forks
  <2>3. Owns(g)  BY <1>0 DEF Owns, Forks
  <2>4. QED  BY <2>1, <2>2, <2>3, OneFork
<1>2. CASE Bind(p) \/ AnvilDies(p)
  <2>1. f.anvil \in Alive  BY <1>2 DEF Bind, AnvilDies, Alive
  <2>2. PICK a \in Alive \cup {"dead"} : fork' = [fork EXCEPT ![p].anvil = a]
    BY <1>2 DEF Bind, AnvilDies, Alive
  <2> DEFINE g == [f EXCEPT !.anvil = a]
  <2>3. fork' = [fork EXCEPT ![p] = g]  BY <2>2
  <2>4. g \in Forks  BY <1>0 DEF Forks
  <2>5. Owns(g)  BY <1>0, <2>1 DEF Owns, Forks
  <2>6. QED  BY <2>3, <2>4, <2>5, OneFork
<1>3. QED  BY <1>1, <1>2

(* Every step of any process keeps the invariant. *)
THEOREM OwningInductive == Owned /\ [LifecycleNext]_fork => Owned'
<1> SUFFICES ASSUME Owned, [LifecycleNext]_fork  PROVE Owned'
  OBVIOUS
<1>1. CASE UNCHANGED fork  BY <1>1 DEF Owned
<1>2. CASE LifecycleNext
  <2>1. CASE Ended  BY <2>1 DEF Ended, Owned
  <2>2. ASSUME NEW p \in Processes, PollAgain(p)
        PROVE  Owned'
    BY <2>2 DEF PollAgain, Owned
  <2>3. QED
    BY <1>2, <2>1, <2>2, OpeningKeeps, ClosingKeeps, SurroundingsKeep DEF LifecycleNext
<1>3. QED  BY <1>1, <1>2

(* What a fork owns is settled by where its process is, always. *)
THEOREM Owning == LifecycleSpec => []Owned
<1>1. LifecycleInit => Owned  BY InitiallyOwned
<1>2. Owned /\ [LifecycleNext]_fork => Owned'  BY OwningInductive
<1>3. QED  BY <1>1, <1>2, PTL DEF LifecycleSpec

(* The types, with the directory and the port Anvil needs. *)
THEOREM LifecycleTypeCorrect == LifecycleSpec => []LifecycleTypes
<1>1. Owned => LifecycleTypes  BY OwnedMeans
<1>2. QED  BY <1>1, Owning, PTL

(* Anvil never outlives the bridge it reads through, however many forks there
   are and however each of them ends, short of a teardown that timed out. *)
THEOREM BridgeKept == LifecycleSpec => []BridgeOutlivesAnvil
<1>1. Owned => BridgeOutlivesAnvil  BY OwnedMeans
<1>2. QED  BY <1>1, Owning, PTL

(* No way out of a fork leaves its bridge, directory or Anvil behind. *)
THEOREM AllClosed == LifecycleSpec => []NothingLeftOpen
<1>1. Owned => NothingLeftOpen  BY OwnedMeans
<1>2. QED  BY <1>1, Owning, PTL
=============================================================================
