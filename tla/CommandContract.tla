-------------------------- MODULE CommandContract --------------------------
(***************************************************************************)
(* What Dispatch promises the console about one command: it is run at most *)
(* once; the caller is handed a result only if the command was run; a      *)
(* caller that is refused may send the command again, because the refused  *)
(* one never runs.  A caller that gives up, or whose control plane         *)
(* restarts, knows nothing: the command may have run, or may run yet.      *)
(***************************************************************************)
EXTENDS Naturals

CONSTANTS Calls

VARIABLES stage,  \* "new", "open" or "closed"
          runs,   \* how often the command of the call was run
          reply   \* what the caller was told

contractVars == <<stage, runs, reply>>

Refusals == {"offline", "sendfail"}
Silences == {"timeout", "cancelled", "lost"}

Init ==
    /\ stage = [c \in Calls |-> "new"]
    /\ runs = [c \in Calls |-> 0]
    /\ reply = [c \in Calls |-> "none"]

Open(c) ==
    /\ stage[c] = "new"
    /\ stage' = [stage EXCEPT ![c] = "open"]
    /\ UNCHANGED <<runs, reply>>

\* A command may run after its caller has given up, never before the call
\* or after a refusal.
Run(c) ==
    /\ stage[c] # "new"
    /\ reply[c] \notin Refusals
    /\ runs[c] = 0
    /\ runs' = [runs EXCEPT ![c] = 1]
    /\ UNCHANGED <<stage, reply>>

Close(c, r) ==
    /\ stage[c] # "closed"
    /\ r = "result" => runs[c] = 1
    /\ r \in Refusals => runs[c] = 0
    /\ stage' = [stage EXCEPT ![c] = "closed"]
    /\ reply' = [reply EXCEPT ![c] = r]
    /\ UNCHANGED runs

\* Every open call ends unanswered at once when the control plane restarts.
LoseAll ==
    /\ stage' = [c \in Calls |->
                   IF stage[c] = "open" THEN "closed" ELSE stage[c]]
    /\ reply' = [c \in Calls |->
                   IF stage[c] = "open" THEN "lost" ELSE reply[c]]
    /\ UNCHANGED runs

Next ==
    \/ \E c \in Calls : Open(c) \/ Run(c)
    \/ \E c \in Calls, r \in {"result"} \cup Refusals \cup Silences :
         Close(c, r)
    \/ LoseAll

Spec == Init /\ [][Next]_contractVars
=============================================================================
