------------------------------- MODULE Console -------------------------------
(***************************************************************************)
(* What the modules of the web console's pages share.  Each page is one    *)
(* record: its refs, the promises it awaits, and what its properties need  *)
(* to know of the past.  A handler runs to its next await in one step.     *)
(***************************************************************************)
EXTENDS Naturals, Sequences, FiniteSets

CONSTANT None  \* no container, no node, no answer yet
=============================================================================
