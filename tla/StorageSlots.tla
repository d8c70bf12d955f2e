---------------------------- MODULE StorageSlots ----------------------------
(* Fork.set_mapping, mapping_word and mapping_slot (src/hodl/fork.py): the word
   behind a getter is found by overwriting, one after the other, the words the
   getter loads, asking the getter, and putting each word back.  Every step is a
   request to the node, and any of them may fail.

   Only the getters of one account on one contract are told apart, so the keys of
   self.slots are Getters; no caller passes a shift. *)
EXTENDS Contracts, Sequences

CONSTANTS Plan,     \* of each action, in order, the calls it makes on its fork
          Masked    \* getters whose callers pass a mask

Calls == [op : {"set"}, getter : Getters, word : Live]
         \cup [op : {"restore", "word", "act"}, getter : Getters]
ASSUME PlanAssumption == Plan \in Seq(Seq(Calls))

VARIABLES
  plan,      \* actions to come
  kept,      \* the reward state the last action has captured
  layout, storage,   \* the contract on this fork
  todo,      \* calls of this action
  taken,     \* words it has captured
  slots,     \* self.slots
  run,       \* locals of mapping_slot: candidates, slot, old, matches
  missed,    \* ghost: a getter could not be asked, and was taken not to match
  reason,    \* why the action failed
  pc
vars == <<plan, kept, layout, storage, todo, taken, slots, run, missed, reason, pc>>

account == <<plan, kept, layout>>
NoSlots == [g \in Getters |-> None]
NoRun == [queue |-> {}, slot |-> None, old |-> None, matches |-> FALSE]
getter == Head(todo).getter

Init == /\ plan = Plan /\ kept = [g \in Getters |-> None]
        /\ layout \in Layouts /\ storage = layout.words
        /\ todo = <<>> /\ taken = kept
        /\ slots = NoSlots /\ run = NoRun /\ missed = FALSE /\ reason = "none"
        /\ pc = "closed"

\* a state can only be restored if an action before has captured it
CanOpen ==
  /\ plan # <<>>
  /\ \A i \in DOMAIN Head(plan) :
       Head(plan)[i].op = "restore" => kept[Head(plan)[i].getter] # None

SlotsKept == slots
SlotsOfFork == NoSlots
OpenFork ==
  /\ pc = "closed" /\ CanOpen
  /\ plan' = Tail(plan) /\ todo' = Head(plan)
  /\ layout' \in Layouts /\ storage' = layout'.words
  /\ taken' = kept
  /\ slots' = SlotsOfFork /\ run' = NoRun /\ missed' = FALSE /\ reason' = "none"
  /\ pc' = "call"
  /\ UNCHANGED kept

Raise(why) == /\ reason' = why /\ pc' = "closed"
              /\ UNCHANGED <<account, todo, taken, slots, run, missed>>

Act == /\ pc = "call" /\ todo # <<>> /\ Head(todo).op = "act"
       /\ \E g \in Getters, w \in Live :
            /\ layout.own[g] # None
            /\ storage' = [storage EXCEPT ![layout.own[g]] = w]
       /\ todo' = Tail(todo)
       /\ UNCHANGED <<account, taken, slots, run, missed, reason, pc>>

Finish == /\ pc = "call" /\ todo = <<>>
          /\ kept' = taken
          /\ pc' = "closed"
          /\ UNCHANGED <<plan, layout, storage, todo, taken, slots, run, missed, reason>>

\* mapping_slot

Seeks == pc = "call" /\ todo # <<>> /\ Head(todo).op # "act"
SlotKnown == /\ Seeks /\ slots[getter] # None
             /\ pc' = "use"
             /\ UNCHANGED <<account, storage, todo, taken, slots, run, missed, reason>>

FirstTraced == {CHOOSE s \in layout.trace[getter] : TRUE}
Traced == layout.trace[getter]
Trace == /\ Seeks /\ slots[getter] = None
         /\ run' = [NoRun EXCEPT !.queue = Traced]
         /\ missed' = FALSE
         /\ pc' = "next"
         /\ UNCHANGED <<account, storage, todo, taken, slots, reason>>

\* the code goes by the order of the trace; which word is next does not matter
ReadOld == /\ pc = "next"
           /\ \E s \in run.queue :
                run' = [run EXCEPT !.queue = @ \ {s}, !.slot = s, !.old = storage[s]]
           /\ pc' = "probe"
           /\ UNCHANGED <<account, storage, todo, taken, slots, missed, reason>>

Unsupported == /\ pc = "next" /\ run.queue = {}
               /\ Raise("unsupported")
               /\ UNCHANGED storage

WriteProbe == /\ pc = "probe"
              /\ storage' = [storage EXCEPT ![run.slot] = ProbeWord]
              /\ pc' = "ask"
              /\ UNCHANGED <<account, todo, taken, slots, run, missed, reason>>

Ask == /\ pc = "ask"
       /\ run' = [run EXCEPT !.matches =
                    Answer(layout, getter, storage) = ProbeWord]
       /\ pc' = "undo"
       /\ UNCHANGED <<account, storage, todo, taken, slots, missed, reason>>

\* Unavailable covers a getter that reverts and a node that does not answer
AskFails == /\ pc = "ask"
            /\ run' = [run EXCEPT !.matches = FALSE]
            /\ missed' = TRUE
            /\ pc' = "undo"
            /\ UNCHANGED <<account, storage, todo, taken, slots, reason>>

UndoneUnlessMatched == IF run.matches THEN storage
                       ELSE [storage EXCEPT ![run.slot] = run.old]
Undone == [storage EXCEPT ![run.slot] = run.old]

Undo == /\ pc = "undo"
        /\ storage' = Undone
        /\ slots' = IF run.matches THEN [slots EXCEPT ![getter] = run.slot] ELSE slots
        /\ pc' = IF run.matches THEN "use" ELSE "next"
        /\ UNCHANGED <<account, todo, taken, run, missed, reason>>

\* mapping_word and set_mapping

Value == IF Head(todo).op = "set" THEN Head(todo).word ELSE kept[getter]

TakeWord == /\ pc = "use" /\ Head(todo).op = "word"
            /\ taken' = [taken EXCEPT ![getter] = storage[slots[getter]]]
            /\ todo' = Tail(todo)
            /\ pc' = "call"
            /\ UNCHANGED <<account, storage, slots, run, missed, reason>>

\* run.old is a ghost here
WriteWord == /\ pc = "use" /\ Head(todo).op \in {"set", "restore"}
             /\ run' = [run EXCEPT !.slot = slots[getter],
                                   !.old = storage[slots[getter]]]
             /\ storage' = [storage EXCEPT ![slots[getter]] = Value]
             /\ pc' = "verify"
             /\ UNCHANGED <<account, todo, taken, slots, missed, reason>>

Expected == IF getter \in Masked THEN Shown(Value) ELSE Value
Seeded == /\ pc = "verify" /\ Answer(layout, getter, storage) = Expected
          /\ todo' = Tail(todo)
          /\ pc' = "call"
          /\ UNCHANGED <<account, storage, taken, slots, run, missed, reason>>

NotSeeded == /\ pc = "verify" /\ Answer(layout, getter, storage) # Expected
             /\ Raise("cannot seed")
             /\ UNCHANGED storage

\* whether a write that failed was done does not matter: the fork is thrown away
NodeFails == /\ \/ pc \in {"next", "probe", "undo", "use", "verify"}
                \/ pc = "call" /\ todo # <<>>
             /\ Raise("node")
             /\ UNCHANGED storage

Done == pc = "closed" /\ ~CanOpen /\ UNCHANGED vars

Next == \/ OpenFork \/ Act \/ Finish \/ SlotKnown \/ Trace \/ ReadOld \/ Unsupported
        \/ WriteProbe \/ Ask \/ AskFails \/ Undo \/ TakeWord \/ WriteWord \/ Seeded
        \/ NotSeeded \/ NodeFails \/ Done

Spec == Init /\ [][Next]_vars
-----------------------------------------------------------------------------
Probing == pc \in {"ask", "undo"}

(* Types.  The probe is in a word only while the getter is asked about it: no
   action begins a call, reads a word or writes one on a fork with a probe left
   behind. *)
TypeOK ==
  /\ layout \in Layouts
  /\ storage \in [Slots -> Words]
  /\ kept \in [Getters -> Live \cup {None}] /\ taken \in [Getters -> Live \cup {None}]
  /\ slots \in [Getters -> Slots \cup {None}]
  /\ run \in [queue : SUBSET Slots, slot : Slots \cup {None},
              old : Live \cup {None}, matches : BOOLEAN]
  /\ reason \in {"none", "unsupported", "cannot seed", "node"}
  /\ pc \in {"closed", "call", "next", "probe", "ask", "undo", "use", "verify"}
  /\ \A s \in Slots : \/ storage[s] \in Live
                      \/ Probing /\ s = run.slot
                      \/ pc = "closed"

(* A slot that is remembered is the word its getter shows on this very fork, so
   that a write through it cannot hit another field, nor a contract that has been
   upgraded since. *)
SlotsProven == \A g \in Getters : slots[g] # None /\ pc # "closed" =>
                                    slots[g] = layout.own[g]

(* A layout is reported as unsupported only if the getter shows no word of its
   own, or could not be asked: reading the words in any order, through a proxy or
   past words of other contracts does not hide the right one. *)
UnsupportedHasCause ==
  reason = "unsupported" => layout.own[getter] = None \/ missed

(* Seeding an account is atomic to those who ask for it: one getter's word is
   replaced as a whole, hidden bits included, other getters answer as before, and
   neither probes nor failed attempts are visible to any later call. *)
view == IF pc \in {"ask", "undo", "verify"} THEN [storage EXCEPT ![run.slot] = run.old]
        ELSE storage
Abstract == INSTANCE Seeding WITH open <- pc # "closed"
ImplementsSeeding == Abstract!Spec
=============================================================================
