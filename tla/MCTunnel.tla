------------------------------ MODULE MCTunnel ------------------------------
(* Instances of Tunnel for TLC.                                             *)
EXTENDS Tunnel

CONSTANTS s1, s2

NoBytes == [s \in Sess |-> 0]
TwoBytes == [s \in Sess |-> 2]

\* One session writes more than its target's socket takes.
OneWrites == [s \in Sess |-> IF s = s1 THEN 2 ELSE 0]
=============================================================================
