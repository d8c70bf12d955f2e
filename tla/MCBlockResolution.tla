------------------------- MODULE MCBlockResolution -------------------------
(* Two runs over a chain of five blocks.  The scenarios start before genesis, at a
   block without the contract or at one with it, and end at a block or between two,
   with one anniversary in the middle.  Heads 3 and 4 both cover the ends 6 and 7,
   so runs that race for one of them hold different ceilings; head 2 covers neither. *)
EXTENDS BlockResolution, TLC

MCTime == (0 :> 2) @@ (1 :> 4) @@ (2 :> 5) @@ (3 :> 7) @@ (4 :> 10)

MCDatesOf == [s \in Starts |-> [e \in Times |->
                {s, e} \cup {t \in Times : s < t /\ t < e /\ t = 6}]]
Symmetry == Permutations(Procs)
=============================================================================
