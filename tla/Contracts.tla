------------------------------ MODULE Contracts ------------------------------
(* The storage of a deployed contract as the getters of the program see it
   (external: Solidity and Vyper contracts).  A word has bits that a getter shows
   and bits that it may hide.  A layout is what a contract is at one block. *)
CONSTANTS Getters, Slots, Values, Hidden, Probe, Layouts, None

Words == [shown : Values \cup {Probe}, hidden : Hidden]
Live == [shown : Values, hidden : Hidden]   \* no contract has the probe in a word
Blank == CHOOSE h \in Hidden : TRUE         \* the hidden bits of a plain number
ProbeWord == [shown |-> Probe, hidden |-> Blank]

ASSUME WordAssumption ==
  Probe \notin Values /\ Hidden # {} /\ None \notin Slots /\ None \notin Words

(* own: the word a getter shows, None if it computes its answer from several;
   trace: the words it loads; packed: the getters that show a part of their word;
   code: words such as a proxy's implementation, without which nothing answers;
   words: the contents. *)
ASSUME LayoutAssumption ==
  /\ Layouts \subseteq [own : [Getters -> Slots \cup {None}],
                        trace : [Getters -> SUBSET Slots],
                        packed : SUBSET Getters, code : SUBSET Slots,
                        words : [Slots -> Live]]
  /\ \A l \in Layouts : \A g \in Getters :
       l.own[g] # None => /\ l.own[g] \in l.trace[g] \ l.code
                          /\ \A h \in Getters : l.own[h] = l.own[g] => h = g

Shown(w) == [w EXCEPT !.hidden = Blank]
Broken(l, s) == \E c \in l.code : s[c].shown = Probe

\* what a getter answers: None if it reverts, or a number nobody has chosen
Answer(l, g, s) ==
  IF Broken(l, s) \/ l.own[g] = None THEN None
  ELSE IF g \in l.packed THEN Shown(s[l.own[g]]) ELSE s[l.own[g]]
=============================================================================
