--------------------------- MODULE MCEvidenceCache ---------------------------
(* An instance of EvidenceCache: a process alone, with two actions that share a
   read, of which the first fails a deposit limit, or two processes that ask for
   the same action. *)
EXTENDS EvidenceCache, TLC

CONSTANTS p1, p2, p3, a1, a2, r1, r2

AloneOrTwo == {{p1}, {p2, p3}}
AsksOf == (p1 :> {a1, a2}) @@ (p2 :> {a2}) @@ (p3 :> {a2})
SharedRead == (a1 :> {r1, r2}) @@ (a2 :> {r1})
Results == (a1 :> "DepositLimit") @@ (a2 :> "Unaffordable")
=============================================================================
