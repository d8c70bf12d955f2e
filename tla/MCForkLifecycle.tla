-------------------------- MODULE MCForkLifecycle --------------------------
(* Two commands on one machine, as when two comparisons run side by side. *)
EXTENDS ForkLifecycle
=============================================================================
