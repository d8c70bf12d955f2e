--------------------------- MODULE MCStorageSlots ---------------------------
(* One contract at three dates: plain, behind a proxy that moved its words, and
   with getters that compute what they return. *)
EXTENDS StorageSlots, TLC

Word(n, h) == [shown |-> n, hidden |-> h]
Names == ("balance" :> "a") @@ ("claim" :> "b")
Plain == [own |-> Names,
          trace |-> ("balance" :> {"a"}) @@ ("claim" :> {"b", "a"}),
          packed |-> {"claim"}, code |-> {},
          words |-> [s \in Slots |-> Word(0, 0)]]
Proxy == [own |-> ("balance" :> "b") @@ ("claim" :> "c"),
          trace |-> ("balance" :> {"i", "b", "a"}) @@ ("claim" :> {"i", "c"}),
          packed |-> {"claim", "balance"}, code |-> {"i"},
          words |-> [s \in Slots |-> IF s = "i" THEN Word(1, 1) ELSE Word(0, 0)]]
Unpacked == [Plain EXCEPT !.packed = {}]
Computed == [Plain EXCEPT !.own = ("balance" :> "a") @@ ("claim" :> None)]
AllLayouts == {Plain, Proxy, Unpacked, Computed}

Op(op, g) == [op |-> op, getter |-> g]
SetTo(g, n) == [op |-> "set", getter |-> g, word |-> Word(n, 0)]

\* enter, compound and exit: the word captured after a deposit is restored later
SomePlan ==
  << <<SetTo("balance", 1), Op("act", "balance"), Op("word", "claim")>>,
     <<SetTo("balance", 1), Op("restore", "claim"), Op("act", "balance"),
       Op("word", "claim")>>,
     <<SetTo("balance", 0), Op("restore", "claim"), Op("act", "balance")>> >>
=============================================================================
