---------------------------- MODULE NetworkPanel ----------------------------
(***************************************************************************)
(* web/src/components/NetworkPanel.vue, and execCommandAuto of             *)
(* api/client.ts, by which it sends everything: over the server, and once  *)
(* more over the relay when that fails, whether the agent ran it or not.   *)
(* Probe and scan exclude each other; nothing else is held up by anything. *)
(***************************************************************************)
EXTENDS Console

CONSTANTS Hosts,
          MaxCalls  \* BOUND: commands under way at once

Modes == {"dhcp", "manual", "pppoe"}
ProbeSteps == 4   \* devices, ip, wifi_status, channel

ASSUME CallsAssumption == None \notin {"probe", "wifi_scan"}

VARIABLE net

NetInit ==
    net = [running |-> None,
           status |-> "hint",                    \* the hint, "probing", or the text of a probe
           listed |-> FALSE,                     \* the table of networks has rows
           prompt |-> FALSE,                     \* the question for a WiFi password
           pingHost |-> None, pinged |-> None,   \* the input; and the host of the last ping
           out |-> None,                         \* its output: "pinging", or that of a host
           crossed |-> FALSE,                    \* a ping was asked for while one was under way
           calls |-> [i \in 1..MaxCalls |-> None]]

(* A call: what for (those whose answer only makes a message are "other"),  *)
(* which way it is sent, and how often the agent ran it.                    *)
Call(kind, of) == [kind |-> kind, of |-> of, step |-> 1, via |-> "server", fresh |-> TRUE, runs |-> 0]
Send(n, call) == \E i \in 1..MaxCalls : net.calls[i] = None /\ net' = [n EXCEPT !.calls[i] = call]
Running(kind) == {i \in 1..MaxCalls : net.calls[i] # None /\ net.calls[i].kind = kind}

\* Fault: probe and scan do not look at each other.
NotThis(kind) == net.running # kind
NoneRuns(kind) == net.running = None
NetProbe ==
    /\ NoneRuns("probe") /\ ~net.prompt
    /\ Send([net EXCEPT !.running = "probe", !.status = "probing"], Call("probe", None))
NetScan ==
    /\ NoneRuns("wifi_scan") /\ ~net.prompt
    /\ Send([net EXCEPT !.running = "wifi_scan"], Call("wifi_scan", None))

NetConnect(open) ==
    /\ net.listed /\ ~net.prompt
    /\ IF open THEN Send(net, Call("other", None))
       ELSE net' = [net EXCEPT !.prompt = TRUE]
NetPrompted ==
    /\ net.prompt
    /\ \/ net' = [net EXCEPT !.prompt = FALSE]
       \/ Send([net EXCEPT !.prompt = FALSE], Call("other", None))

(* Only PPPoE needs no connection, though the form says it may be left out. *)
NetApply ==
    \E conn \in BOOLEAN, mode \in Modes :
        ~net.prompt /\ (conn \/ mode = "pppoe") /\ Send(net, Call("other", None))
NetVirtualMac == ~net.prompt /\ Send(net, Call("other", None))
NetSpeedtest == ~net.prompt /\ Send(net, Call("other", None))

NetType(h) == ~net.prompt /\ h # net.pingHost /\ net' = [net EXCEPT !.pingHost = h]
NetPing ==
    /\ net.pingHost # None /\ ~net.prompt
    /\ Send([net EXCEPT !.out = "pinging", !.pinged = net.pingHost,
                        !.crossed = Running("ping") # {} /\ (@ \/ net.pinged # net.pingHost)],
            Call("ping", net.pingHost))

(* The agent gets the command, whatever becomes of the answer.              *)
AgentRuns(i) ==
    /\ net.calls[i] # None /\ net.calls[i].fresh
    /\ net' = [net EXCEPT !.calls[i].fresh = FALSE, !.calls[i].runs = @ + 1]

NextOfProbe(call) == [Call("probe", None) EXCEPT !.step = call.step + 1]
Settled(i) == [net EXCEPT !.calls[i] = None]
NetAnswered(i) ==
    /\ net.calls[i] # None /\ ~net.calls[i].fresh
    /\ LET call == net.calls[i] n == Settled(i) IN
       CASE call.kind = "probe" /\ call.step < ProbeSteps ->
              net' = [net EXCEPT !.calls[i] = NextOfProbe(call)]
         [] call.kind = "probe" /\ call.step = ProbeSteps ->
              net' = [n EXCEPT !.running = None, !.status = "text"]
         [] call.kind = "wifi_scan" ->
              \E some \in BOOLEAN : net' = [n EXCEPT !.running = None, !.listed = some]
         [] call.kind = "ping" -> net' = [n EXCEPT !.out = call.of]
         [] OTHER -> net' = n

(* execCommandAuto: an error sends the command over the relay, if that is   *)
(* there; a second one rejects, and the output of the panel stays as it is. *)
NetFailed(i) ==
    /\ net.calls[i] # None
    /\ \/ net.calls[i].via = "server" /\ net' = [net EXCEPT !.calls[i].via = "relay", !.calls[i].fresh = TRUE]
       \/ net' = [Settled(i) EXCEPT !.running = IF net.calls[i].kind \in {"probe", "wifi_scan"} THEN None ELSE @]

NetNext ==
    \/ NetProbe \/ NetScan \/ NetPrompted \/ NetApply \/ NetVirtualMac \/ NetSpeedtest \/ NetPing
    \/ \E open \in BOOLEAN : NetConnect(open)
    \/ \E h \in Hosts : NetType(h)
    \/ \E i \in 1..MaxCalls : AgentRuns(i) \/ NetAnswered(i) \/ NetFailed(i)

(* With no ping under way the output is that of the host asked for last,    *)
(* unless two pings of different hosts were under way at once.              *)
NetShown ==
    Running("ping") = {} /\ net.pinged # None => net.out \in {"pinging", net.pinged} \/ net.crossed

(* One probe or scan at a time; and no command is run more than twice, nor  *)
(* twice unless it went both ways.                                          *)
NetAsked ==
    /\ Cardinality(Running("probe") \cup Running("wifi_scan")) <= 1
    /\ \A i \in 1..MaxCalls : net.calls[i] # None =>
          net.calls[i].runs <= IF net.calls[i].via = "relay" THEN 2 ELSE 1
=============================================================================
