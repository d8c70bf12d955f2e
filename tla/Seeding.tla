------------------------------- MODULE Seeding -------------------------------
(* What Fork.set_mapping and Fork.mapping_word promise the actions that seed an
   account: each call changes the answer of one getter, or takes a whole word,
   in one step.  How the word was found leaves no trace.  StorageSlots is shown
   to implement this module. *)
EXTENDS Contracts, Sequences

CONSTANTS Plan   \* of each action, in order, the calls it makes on its fork

VARIABLES plan, kept, open, layout, view, todo, taken
vars == <<plan, kept, open, layout, view, todo, taken>>

Init == /\ plan = Plan
        /\ kept = [g \in Getters |-> None]
        /\ open = FALSE

\* every action has a fork of its own, with what the archive has at its block
Open == /\ ~open /\ plan # <<>> /\ open' = TRUE
        /\ layout' \in Layouts /\ view' = layout'.words
        /\ todo' = Head(plan) /\ plan' = Tail(plan)
        /\ taken' = kept /\ UNCHANGED kept

Call(ops) == /\ open /\ todo # <<>> /\ todo' = Tail(todo)
             /\ Head(todo).op \in ops
             /\ UNCHANGED <<plan, kept, open, layout>>

Set == /\ Call({"set", "restore"})
       /\ LET g == Head(todo).getter
              w == IF Head(todo).op = "set" THEN Head(todo).word ELSE kept[g]
          IN  /\ layout.own[g] # None
              /\ view' = [view EXCEPT ![layout.own[g]] = w]
              /\ \A h \in Getters \ {g} :
                   Answer(layout, h, view') = Answer(layout, h, view)
       /\ UNCHANGED taken

Take == /\ Call({"word"})
        /\ LET g == Head(todo).getter
           IN  /\ layout.own[g] # None
               /\ taken' = [taken EXCEPT ![g] = view[layout.own[g]]]
        /\ UNCHANGED view

\* a transaction of the contracts themselves
Act == /\ Call({"act"}) /\ view' \in [Slots -> Live] /\ UNCHANGED taken

Close == /\ open /\ todo = <<>> /\ open' = FALSE
         /\ kept' = taken
         /\ UNCHANGED <<plan, layout, view, todo, taken>>

\* a failed action takes its fork, whatever is on it, and what it took along
Raise == /\ open /\ open' = FALSE /\ UNCHANGED <<plan, kept>>

Next == Open \/ Set \/ Take \/ Act \/ Close \/ Raise

Spec == Init /\ [][Next]_vars
=============================================================================
