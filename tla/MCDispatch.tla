----------------------------- MODULE MCDispatch -----------------------------
(* Instances of Dispatch for TLC.                                           *)
EXTENDS Dispatch, TLC

CONSTANTS n1, n2

\* ExecCommand: a Command object for every call.
PrivateCommands == [c \in Calls |-> c]

\* Every command for the same node.
SameNode == [c \in Calls |-> n1]

Symmetry == Permutations(Calls) \cup Permutations(Streams)
=============================================================================
