----------------------------- MODULE MCConsole ------------------------------
(***************************************************************************)
(* The pages of the web console, one at a time: `part` says which one is   *)
(* looked at, and the others keep their initial states, since they share   *)
(* no state but the server's.  Each property of the run is the conjunction *)
(* of what it means for the pages.                                         *)
(***************************************************************************)
EXTENDS RelayLink, ConsoleSession, FilesPage, ContainersPage, VncPage, TerminalPage, NodesPage,
        NodeMesh, NodePage, WifiPanel, NetworkPanel, VpnPages, AlertsPage

CONSTANTS a, b
MCOne == {a}
MCTwo == {a, b}

VARIABLE part
vars == <<part, relay, session, files, containers, vnc, shell, nodes, mesh, page, radio, net, vpn, alerts>>

Init ==
    /\ part \in {"relay", "session", "files", "containers", "vnc", "shell", "nodes",
                 "mesh", "page", "radio", "net", "vpn", "alerts"}
    /\ RelayInit /\ SessionInit /\ FilesInit /\ CtrInit /\ VncInit /\ ShellInit /\ NodesInit
    /\ MeshInit /\ PageInit /\ RadioInit /\ NetInit /\ VpnInit /\ AlertsInit
    /\ part # "page" => ~page.example    \* one initial state of what is not looked at
    /\ part # "radio" => radio.band = "5"
    /\ part # "vpn" => vpn.at = a

Elsewhere ==
    /\ part' = part
    /\ part # "relay" => UNCHANGED relay
    /\ part # "session" => UNCHANGED session
    /\ part # "files" => UNCHANGED files
    /\ part # "containers" => UNCHANGED containers
    /\ part # "vnc" => UNCHANGED vnc
    /\ part # "shell" => UNCHANGED shell
    /\ part # "nodes" => UNCHANGED nodes
    /\ part # "mesh" => UNCHANGED mesh
    /\ part # "page" => UNCHANGED page
    /\ part # "radio" => UNCHANGED radio
    /\ part # "net" => UNCHANGED net
    /\ part # "vpn" => UNCHANGED vpn
    /\ part # "alerts" => UNCHANGED alerts

RelayStep == part = "relay" /\ RelayNext /\ Elsewhere
SessionStep == part = "session" /\ SessionNext /\ Elsewhere
FilesStep == part = "files" /\ FilesNext /\ Elsewhere
CtrStep == part = "containers" /\ CtrNext /\ Elsewhere
VncStep == part = "vnc" /\ VncNext /\ Elsewhere
ShellStep == part = "shell" /\ ShellNext /\ Elsewhere
NodesStep == part = "nodes" /\ NodesNext /\ Elsewhere
MeshStep == part = "mesh" /\ MeshNext /\ Elsewhere
PageStep == part = "page" /\ PageNext /\ Elsewhere
RadioStep == part = "radio" /\ RadioNext /\ Elsewhere
NetStep == part = "net" /\ NetNext /\ Elsewhere
VpnStep == part = "vpn" /\ VpnNext /\ Elsewhere
AlertsStep == part = "alerts" /\ AlertsNext /\ Elsewhere
Next ==
    \/ RelayStep \/ SessionStep \/ FilesStep \/ CtrStep \/ VncStep
    \/ ShellStep \/ NodesStep \/ MeshStep \/ PageStep \/ RadioStep
    \/ NetStep \/ VpnStep \/ AlertsStep

(* Fairness: the browser fires its timers and the events of a socket that   *)
(* is being opened or closed; App.vue's poll comes each 30 seconds, and a   *)
(* request is answered; the poll hands an enabled relay client its          *)
(* configuration again.                                                     *)
PromiseTimesOut == part = "relay" /\ (\E s \in 1..MaxPromises : RelayTimesOut(s)) /\ Elsewhere
SocketOpens == part = "relay" /\ (\E w \in 1..MaxSockets : RelayOpens(w)) /\ Elsewhere
SocketClosed ==
    /\ part = "relay"
    /\ \E w \in 1..MaxSockets : relay.sock[w] = "closing" /\ RelayCloses(w)
    /\ Elsewhere
ConfigPoll == part = "relay" /\ relay.enabled /\ RelaySetConfig(TRUE) /\ Elsewhere
RetryTimer == part = "relay" /\ RelayRetries /\ Elsewhere
ReconnectTimer == part = "shell" /\ ShellTimer /\ Elsewhere
ShellClosed == part = "shell" /\ (\E w \in 1..MaxShells : ShellCloses(w)) /\ Elsewhere
StatePoll == part = "session" /\ (\E t \in Tabs : Poll(t)) /\ Elsewhere
PollAnswered ==
    /\ part = "session"
    /\ \E r \in session.asked, right \in BOOLEAN : r.kind = "poll" /\ Answered(r, right)
    /\ Elsewhere
Spec ==
    /\ Init /\ [][Next]_vars
    /\ WF_vars(PromiseTimesOut) /\ WF_vars(SocketOpens) /\ WF_vars(SocketClosed)
    /\ WF_vars(RetryTimer) /\ WF_vars(ConfigPoll)
    /\ WF_vars(ReconnectTimer) /\ WF_vars(ShellClosed)
    /\ WF_vars(StatePoll) /\ WF_vars(PollAnswered)

(* What a page shows is of what its title names: the directory of the file  *)
(* browser, the container of the log, the batch of the results, the host of *)
(* the ping, the survey of the chart - though answers arrive in any order.  *)
ShowsWhatItNames == FilesShown /\ CtrShown /\ NodesShown /\ RadioShown /\ NetShown /\ VncShown

(* What a page sends is what the user asked for on it: one action at a time *)
(* where the code excludes others, for the target and with the content that *)
(* was on the screen, and no more often than the two ways there are.        *)
DoesWhatWasAsked ==
    /\ CtrAsked /\ NodesAsked /\ MeshAsked /\ PageAsked /\ RadioAsked
    /\ NetAsked /\ VpnAsked /\ AlertsAsked

(* A page has one connection of a kind, and one that was left has none: no  *)
(* shell, no VNC client, no chart, and the relay client no second socket.   *)
LeavesNothing == ShellGone /\ VncGone /\ RadioGone /\ RelayOneSocket

(* Nothing is removed or moved by a page that was not asked to: the login,  *)
(* a saved VPN entry, the node of an alert rule; nor read for one that was  *)
(* left.                                                                    *)
NothingIsLost == TokenIsKept /\ VpnKept /\ AlertsKept /\ PageGone

(* A command sent over the relay is answered, rejected or timed out, and a  *)
(* page does not stay on the screen with a token the server refuses.        *)
RequestsSettle == (RelayWaits \/ SessionIsDead) ~> ~(RelayWaits \/ SessionIsDead)

(* A connection that was lost comes back: that to the relay while it is     *)
(* enabled, and the shell of a page that was not left.                      *)
ConnectionsComeBack == (RelayIsOff \/ ShellIsOff) ~> ~(RelayIsOff \/ ShellIsOff)
=============================================================================
