------------------------------ MODULE MCEngine ------------------------------
(* Instances of Engine: a rewarded strategy over time; the same and a vault, for
   two starting assets.  "crv" is the coin, "other" a second reward token. *)
EXTENDS Engine, TLC

Compared(strategies, assets, listed, integral) ==
  [strategies |-> strategies, assets |-> assets,
   listed |-> ("crv" :> 0..3) @@ ("other" :> listed),
   integral |-> ("crv" :> (0 :> 1 @@ 1 :> 3 @@ 2 :> 4 @@ 3 :> 6))
                @@ ("other" :> integral)]

\* the second token is listed from date 2 on, or removed after date 1
Added == Compared(<<"gauge">>, <<"USD">>, 2..3, 0 :> 0 @@ 1 :> 0 @@ 2 :> 1 @@ 3 :> 2)
Removed == Compared(<<"gauge", "vault">>, <<"USD", "CRV">>, 0..1,
                    0 :> 0 @@ 1 :> 1 @@ 2 :> 1 @@ 3 :> 1)
TwoComparisons == {Added, Removed}
ASSUME LastingComparisons == \A c \in TwoComparisons : Lasting(c)
TwoHoldings == <<"USD", "CRV">>

\* the second token is listed and removed between two captures: not Lasting
Brief == {Compared(<<"gauge">>, <<"USD">>, {1}, 0 :> 0 @@ 1 :> 1 @@ 2 :> 1 @@ 3 :> 1)}
=============================================================================
