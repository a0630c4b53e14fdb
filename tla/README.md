# ECP edge control: TLA+ models, checks and proofs

ECP manages a fleet of edge nodes (mining hosts, routers, single-board computers). A Go
*control plane* (`src/server`) serves a web console over REST and websockets and talks to a
Go *agent* (`src/agent`) on each node over gRPC with mutual TLS. A Cloudflare Durable Object
(`src/relay`) carries commands to an agent when the browser cannot reach the control plane. The
console (`src/web`) is a Vue application whose pages ask, wait and show.

The modules here are translated from that code, checked with TLC on small instances, and the
results that matter most are proved with TLAPS for every value of the constants. Paths below
are relative to the repository (`server/` is `src/server/internal/`, `agent/` is
`src/agent/internal/`). `PROJECT.json` maps every operator to the lines it stands for.

## 1. Inventory

| component | state it keeps | operations | talks to | modelled in |
|---|---|---|---|---|
| session registry and CommandStream handler (`server/session`, `grpcserver/server.go`) | `Manager.sessions`, `waiters`, `LastSeen` | Attach, Touch, Send, Detach, RegisterWaiter, CancelWaiter, DeliverResult | agent stream, dispatcher, hub | `Sessions`, `Dispatch` |
| command dispatcher (`server/command`) | the `Command` object, a waiter channel, a row of the command ledger | Dispatch, finish | registry, store | `Dispatch`, `CommandContract` |
| REST command endpoints (`server/api/api.go`) | request context, one `Command` per call or per batch | ExecCommand, BatchCommand, ListFiles | dispatcher | `Dispatch` (its callers) |
| agent transport loop (`agent/transport/transport.go`) | the stream, goroutines of commands | Run, streamLoop, handleCommand, send | control plane, executor | `Sessions`, `Dispatch` |
| registration (`grpcserver.Register`, `server/store`) | registration keys, fingerprints, nodes | Register, BindKeyToNode, SetFingerprint | CA, agent | `Enrollment` |
| agent identity (`agent/register`, `transport.register`) | `client.key`, `client.crt`, `ca.crt`, the pair in memory | LoadOrCreate, NewCSR, ApplyResponse, TLSConfig | control plane | `Enrollment` |
| port-forward tunnel (`grpcserver.Tunnel`, `api/panel.go`, `api/vnc.go`, `transport/tunnel.go`) | nodeTunnel per node, sessions, two channels per session; `tunnelState.conns` on the agent | OpenTunnelSession, deliver, send, remove, closeAll, dialAndForward | HTTP/VNC proxies, services behind a port | `Tunnel` |
| certificate authority (`server/ca`) | CA key and certificate | Sign, loadOrCreate | registration | `Enrollment` (Sign) |
| store (`server/store`) | SQLite tables | single statements | everything | the statements Register and Dispatch use |
| command executor (`agent/executor`) | files, containers, frp, network and VNC configuration, the agent's own binary | one per command type | transport | that a command runs and answers (`Dispatch`); the Wi-Fi commands (`WifiGuard`) |
| remote terminal (`agent/transport/terminal.go`, `api/terminal.go`) | pty, sink per session | open, input, resize, close | CommandStream, websocket | `Terminal` |
| relay room and agent relay (`relay/src/room.ts`, `agent/relay`) | sockets with their roles, `offline_queue`, alarm, fields that hibernation resets | fetch, webSocketMessage, webSocketClose, alarm, flushOffline; dial, ping, run | pages, agent | `RelayRoom` |
| web relay client (`web/src/api/relay.ts`) | one socket, promises, retry timer | setConfig, connect, onopen, onclose, execCommand | room, App.vue | `RelayLink` |
| WiFi manager (`agent/wifimgr`, its commands in `agent/executor/netmgmt.go`) | configuration in memory and in `wifi_guard.json`, `lastCheck`, NetworkManager profiles | engineTick, Assess, ApplyConfig, SyncProfiles, SwitchTo, wifi_connect | NetworkManager, radio, console | `WifiRadio`, `WifiReport`, `WifiGuard` |
| users and tokens (`server/auth`, `client.ts`, `LoginView`, `App.vue`) | the JWT in localStorage, shared by all tabs | login, request, 401, poll, password change | REST endpoints | `ConsoleSession` |
| console pages (`web/src/views`, `web/src/components`) | the refs of one page: rows, forms, dialogs, sockets, timers | loads, saves, actions, leaving | REST endpoints, relay client | one module each, section 2 |
| alert engine, rule deployment, push (`agent/alert`, `server/api/alerts.go`, `server/feishu`) | rules, hit counters, firing set, throttle | create, update, delete, deploy; Evaluate, push | telemetry, hub | the rules as the server keeps them (`AlertsPage`) |
| over-the-air and VPN endpoints (`server/api/ota.go`, `vpn.go`) | uploaded binaries | upload, upgrade, deploy | dispatcher | what their pages ask for (`NodePage`, `VpnPages`) |
| telemetry cache (`agent/cache`) | a SQLite file | Put (nothing reads it) | collector | no: there is no protocol |
| configuration, start-up, `ecp.proto`, scripts | – | – | – | no: see section 8 |

What is hard in this system, and a test would hardly reach:

* *Streams break unnoticed.* Either side finds out in its own time (keepalive: two hours and
  20 seconds), so an agent is back on a new stream while the handler of the old one is still
  running its deferred clean-up. Registry, tunnels and terminals all have that overlap.
* *Timeouts race with answers.* Dispatch waits on a channel, a timer and a context; the result
  may arrive after any of them, and is handed over after the waiters' lock has been released.
* *Handlers are not transactions.* Register reads, decides and writes in separate statements,
  while the agent may hang up and ask again or the process may stop.
* *Files are written by truncation.* `os.WriteFile` leaves a torn file when the agent dies.
* *Locks held over blocking sends.* `nodeTunnel.send` keeps `nt.mu` while the stream's window
  is full, and `Tunnel` keeps `tunnelsMu`, which every node shares, while it waits for `nt.mu`.
* *Bounded channels that drop.* A byte stream goes through channels with a default branch.
* *Goroutines per frame.* Terminal frames and commands are handled in goroutines of their own;
  the order in which they were sent is lost.
* *Hibernation.* Cloudflare drops the fields of a Durable Object at any quiet moment and keeps its
  table, its alarm and its sockets; a socket that was replaced stays in the list while it closes.
* *Answers that overtake each other.* A page asks again before the first answer has come, for
  another directory, host or instance, or is left in the middle of a chain of awaits.
* *Timers and sockets that outlive a page.* Each close sets a timer that connects again.
* *One token for all tabs*, which any 401 of any tab removes.
* *Long steps between reads of one state.* The guard reads its settings, scans for seconds,
  reads them again and switches, while commands replace them, switch or scan themselves.

The list of hazards, each at its line, with the property that covers it or the reason none
does, is `hazards` in `PROJECT.json`.

What makes each component correct:

* registry: a registered stream belongs to its node and to a live handler; a node that is
  served is registered; a node whose agent has gone is taken out;
* dispatcher: a caller gets the result of its own command or none; a refused command is never
  run; no command is run twice; the ledger says what the caller was told; waiters are released;
  a call returns;
* registration and identity: one key, one node, one fingerprint; certificates only for that
  fingerprint; certificate and private key fit after any crash; an agent joins in the end;
* tunnel: bytes in order and whole in both directions; a session ends when its tunnel does;
  no session and no lock is kept for ever; a new tunnel takes over from the old one;
* terminal: input reaches the shell at most once, output keeps its order, and shell, handler
  and browser learn of each other's end;
* WiFi manager: the engine acts as it advises, switches to listed networks only, goes back when
  a switch fails, stops when told to, keeps passwords and the file, and leaves a weak link;
* relay: a command starts at most once and in its page's order; a queued one leaves the table
  only for the agent; the alarm stays set, spares an agent that pings and notices one that does
  not;
* console: a page shows what its title names, sends what was asked on it, leaves no socket, chart
  or shell behind, loses nothing it was not told to remove; a request ends, a connection returns.

## 2. Modules

| module | what it is |
|---|---|
| `Sessions` | registry, life of a CommandStream handler, the agent's connect loop, control-plane restart |
| `Dispatch` | EXTENDS `Sessions`: Dispatch statement by statement, waiters, the agent's command goroutines |
| `CommandContract` | abstract: what the console may conclude from an answer |
| `DispatchProofs` | theorems about `Dispatch` and the refinement of `CommandContract` |
| `Enrollment` | Register and the agent's identity files |
| `EnrollmentProofs` | theorems about `Enrollment` |
| `Tunnel` | port forwarding on both sides |
| `TunnelProofs` | theorems about its registers and types |
| `Terminal` | remote terminals on both sides |
| `TerminalProofs` | theorems about `Terminal` |
| `RelayRoom` | the Durable Object, the agent's connection to it and the pages' commands |
| `RelayProofs` | theorems about `RelayRoom` |
| `WifiRadio` | pure: what iw and nmcli print, channels, scores, advice, the engine's pick |
| `WifiReport` | EXTENDS `WifiRadio`: one scan, entry by entry, and its report |
| `WifiGuard` | EXTENDS `WifiRadio`: engine, configuration, profiles and console commands |
| `WifiGuardProofs` | theorems about `WifiGuard` |
| `WifiReportProofs` | theorems about `WifiReport`, and what the loops of `WifiRadio` compute |
| `Console` | what the modules of the console share |
| `RelayLink`, `ConsoleSession`, `FilesPage`, `ContainersPage`, `VncPage`, `TerminalPage`, `NodesPage`, `NodePage`, `NodeMesh`, `WifiPanel`, `NetworkPanel`, `VpnPages`, `AlertsPage` | EXTEND `Console`: the relay client, the login, and the pages |
| `MCConsole` | EXTENDS all of these: one of them at a time, and their joint properties |
| `ConsoleProofs` | theorems about the pages, one section for each |
| `MCDispatch`, `MCEnrollment`, `MCTunnel`, `MCRelay`, `MCWifiReport`, `MCWifiGuard` | definitions that give constants their values for TLC |

An operator whose comment begins with `Fault:` is not part of a specification. It is a wrong
variant of the operator beside it, which a plausible bug would produce; with the variant in
place TLC finds the property listed in `mutants` violated. That shows that the property would
notice such a bug in the code.

### Sessions and Dispatch

A *stream* is one CommandStream call, a *call* one invocation of Dispatch (and the `trace_id`
it draws). `handler[s]` follows CommandStream from the first frame (`opened`) over Attach
(`attached`), the receive loop (`serving`) and the error from Recv (`ending`) to the deferred
Detach (`done`). `call[c]` follows Dispatch: the online check and trace id (`Begin`), the
waiter (`RegisterWaiter`), the stream that `Manager.Send` looks up under its lock and uses
after it (`Lookup`, `Push`), the ledger row (`Record`), the three branches of the select
(`TakeResult`, `Timeout`, `CtxDone`) and the deferred `CancelWaiter`. `DeliverResult` is two
steps (`RecvResult` under the lock, `HandOver` after it), and `handing` holds the results
between them: the place where a send on a closed channel would panic. The agent receives a
command (`AgentRecv`), runs it (`Execute`) and answers (`Reply`) in a goroutine that outlives
the stream but not the process.

`cmdTrace` is the `TraceId` field of the `Command` object. `CmdOf` says which call uses which
object: its own (ExecCommand) or the one a batch shares (BatchCommand).

Abstracted: what a command does and returns; the events, audit rows and hub broadcasts that a
handler emits; the capabilities and node row it writes at Attach; LastSeen, which is the set
`stale` of nodes not heard from within the TTL. The `call` field of a frame is only observed by
properties. Frames in flight form a set: the agent answers from one goroutine per command, and
the order is lost there.

### Enrollment

`handler[c]` follows Register statement by statement: the read of the key (`ReadKey`), for a
first registration the binding of the key (`BindKey`) and of the fingerprint (`BindFp`), for a
later one the comparison (`CheckFp`), then `Sign`. Each write may fail (`WriteFails`), the
caller may be gone (`DropAnswer`), the process may stop (`ServerCrash`). `agent[d]` follows the
agent: boot, key generation and its file, dial, the request, and the two files that
ApplyResponse truncates and writes. `memKey`/`memCert` are the pair in memory, `keyFile`,
`certFile`, `caFile` the files, where `Torn` is a truncated one.

Abstracted: a device stands for its fingerprint, a key pair for the number of the boot that
generated it. Node ids are drawn from `Ids` and assumed fresh (eight hexadecimal digits of a
UUID in the code). Registration keys that are revoked or that expire are left out.

### Tunnel

One node: nodes share only `tunnelsMu`. `tunnel[t]` follows the Tunnel handler (waiting for
`tunnelsMu`, holding it, receiving, the two halves of its deferred function). `sending[t]` is
the frame inside `nodeTunnel.send`, and stands for `nt.mu` being held. `proxy[s]` follows
OpenTunnelSession and the `tunnelConn` made of it. `ch`, `hand` and `out` are the two channels
of a session and the goroutine between them. On the agent `sock`, `buf` and `copier` are a
session's target connection, the input buffered while it is dialled, and the goroutine that
reads the target. `down` and `up` are the frames a stream has in flight, bounded by the flow
control window: Send waits when there is no room.

Bytes are numbered in each direction, so that order, gaps and repetitions can be seen.
Abstracted: the HTTP and websocket ends of the proxies, deadlines (no-ops in the code), and
several nodes. An agent restart looks like a broken connection to the control plane; its
sessions' connections die with it, which the model leaves out.

### Terminal

`main[s]` and `reader[s]` are the two goroutines of TerminalWS, `sink` and `out` what connects
the first to the receive loops. `served` is the stream the registry has for the node, `cur` the
one the agent reads, `bound` the one `terminalManager.send` writes to, `recv` the streams that
a CommandStream handler still reads; the four differ while a stream is replaced, and that is
where frames are lost. `handling` are the frames that goroutines of the agent have received
and not finished, in no order. `shell`, `sessions` and `pump` are the shell, its entry in the
map and the goroutine that sends its output. Opening is two steps (`Spawn`, `Register`), since
the map is locked only for the second. `lost` and `overtaken` are history for the properties:
control frames that no one will see, and closes that were handled before their open.

Abstracted: contents and window sizes. The stream life is a smaller copy of `Sessions` without
the states between, because here only the registered stream and the read one matter.

### WifiRadio, WifiReport and WifiGuard

`WifiRadio` has the functions of `wifimgr.go` under their names: parsing, channel and band
arithmetic with Go's division, `dedupAPs`, `aggregateBands`, `score`, recommend and the
engine's `pick`. `WifiReport` reads a scan block by block or line by line and assesses it; its
properties compare the two decision loops (recommend's and engineTick's), and each function
with what it should mean. The loops over a list of access points (`dedupAPs`, `tally`) are
recursive functions over its prefixes.

`WifiGuard` interleaves the engine (`Tick`, `Scan`, `ReadLink`, `Choose`, `CheckProfile`,
`AddProfile`, `Up`, `Verify`, `GiveUp`) with commands: `wifi_guard_config` (merge, truncate,
write, rename, publish, profiles: seven steps), `wifi_switch`, `wifi_connect`, `wifi_quality`.
`content` maps inodes to contents, so that two writers of one temporary file and a rename
under a writer come out as in the file system. `mishaps` bounds restarts, changes of the radio
and failures of nmcli; `listed`, `raced`, `lateUps` and `calm` are history.

Abstracted: the engine's interval is the Boolean `due`; a signal is the strongest one of a
network; the log window and the sample history are left out. Passwords are right or wrong.

### RelayRoom

`sock[c]` and `lastPing`, `armed` are the room's side of connection `c` and the two fields that
hibernation resets; `alarm` and `offline` (the table `offline_queue`) are in storage and survive.
`listed` is the order of `getWebSockets`, where a replaced socket stays first until its close
event. `link`, `up`, `down` and `running` are the agent's side: its connection, whether the
network carries it, the frames on their way and the command it runs. A page numbers its commands
from one, and the table is keyed by that number alone, so a row can be another page's. `Alarm` is
the whole handler: what it closes, what it tells, and that it arms itself again. History: `ran`
is the order in which commands started; `left` are commands that a flush of `Limit` rows left
in the table while later ones went directly; `missed` says that an alarm met a socket already
closing and was spent on it. `RunsInOrder` and `Watched` name the last two as exceptions.

Abstracted: the answers to the pages and the presence frames, which change no state of the room;
the worker that admits a connection by its path and token.

### The console

A page is one record: the refs of its component, what is on its way to the server, and what the
user did that its properties compare with. An action is a handler up to its next `await`, or the
continuation after one; its guard has what the template hides or disables. Answers come in any
order, each with the server's state of the moment it is given. `MCConsole.part` chooses which page
is looked at; the pages share no state.

| module | what can overlap |
|---|---|
| `RelayLink` | `setConfig` and the retry timer both connect; promises time out while the socket closes; `disabled` in between |
| `ConsoleSession` | two tabs, one token: login, expiry, a 401 of an older request, a wrong password |
| `FilesPage` | loads of several directories |
| `ContainersPage` | lists, logs and an action behind a confirmation |
| `VncPage` | the chains of two presses and the automatic start, questions, leaving |
| `TerminalPage` | sockets, the timers their closes set, the change of the token, leaving |
| `NodesPage` | refreshes that replace rows under ticked boxes; a batch and the next dialog |
| `NodePage` | the 15-second refresh, the upgrade dialog, removal behind a question, leaving |
| `NodeMesh` | an editor whose instance and content come from different reads |
| `WifiPanel` | surveys, edits and saves of one form, timers of a switch, charts, leaving |
| `NetworkPanel` | the four probes, pings of several hosts, a command sent over two paths |
| `VpnPages` | deployments, a form with the UUID of the last one, the list of entries of two boxes |
| `AlertsPage` | one form for every rule, with lists, deletions and deployments under way |

History variables name what the code does not exclude, each at its property: `crossed` (in
`FilesPage`, `ContainersPage`, `NetworkPanel` and `NodeMesh`: a second request for something else
while the first was out), `mixed` (boxes ticked over two lists of nodes), `early` (in `NodesPage`
a batch dialog closed before its answer, in `RelayLink` a socket made while an older one was
closing), `twice` (the VNC page connects while its client is alive), `emptied` (a survey without
a channel takes the chart's element away), `blanked` (the node's page made way for "no such
node" and came back).

## 3. Runs

| run | instance | what it shows |
|---|---|---|
| `dispatch` | 1 node, 2 streams, 2 calls, window 1 | `NoSendOnClosed`, `OwnAnswer`, `LedgerAgrees`, `NoWaiterLeak`, `SessionBacked` and `KeepsContract` (Dispatch implements `CommandContract`) |
| `dispatch_live` | 1 node, 2 streams, 1 call | `DispatchReturns`, `GoneAgentGoesOffline` |
| `enrollment` | 2 devices with one key, 2 ids, 2 handlers, 2 mishaps, 1 expiry | `CertsFollowFingerprints`, `CertFitsKey`, `JoinsUnlessShutOut` |
| `tunnel` | 1 stream, 1 session, 2 bytes each way, every queue of size 1 or 2 | `InputInOrder`, `OutputInOrder`, `ReadersEnd` |
| `tunnel_locks` | 2 streams, 1 session | `RegistersAreTrue` (the newest tunnel serves, sessions have owners), `OpenReturns`, `TunnelRegisters` |
| `terminal` | 1 session, 2 streams, 1 key, 2 pieces of output, a channel with room for 1 | `KeysAtMostOnce`, `OutputInOrder`, `ShellsEnd`, `BrowserIsTold` |
| `relay` | 2 pages, one with 3 commands, 2 connections, 1 hibernation, a flush of 2 rows | `OncePerCommand`, `RunsInOrder`, `Watched`, `RowsLeaveOnTheWire`, `HealthyAgentStays`, `AbsenceIsNoticed` |
| `wifi_report` | scans of up to 4 of 9 access points or 5 lines, 6 links, 2 settings | `AdviceIsSound` (the engine follows the advice, which is the strongest and no worse a channel), `StatsAddUp` |
| `wifi` | 3 networks, engine and 2 commands of any kind, 1 mishap | `EngineObeys` (listed networks only, off means off), `DiskIsMemory`, `PasswordsAreKept`, `StrandsOnlyUnmanaged` |
| `wifi_live` | 3 networks, engine and 1 command, 2 mishaps | `WeakLinkIsLeft` |
| `console` | each page in turn | `ShowsWhatItNames`, `DoesWhatWasAsked`, `LeavesNothing`, `NothingIsLost`, `RequestsSettle`, `ConnectionsComeBack` |
| `reconnect` | 1 node, 2 streams | violates `ServedNodeHasSession` |

A property of `console` is the conjunction of what it means for each page, and each conjunct can
be broken: the page's module has a fault variant for it, although `mutants` lists one for the
conjunction. So it is with `AdviceIsSound`, `EngineObeys` and `RegistersAreTrue`.

Deadlock is checked unless the system really may stop: agents that have joined or have been
shut out, tunnels, terminals and relay connections whose bounds are used up, a guard whose console
asks for nothing more and pages that were left, rest.

### Bounds

* *Two streams for a node* are the overlap that matters: an old handler and a new one. A third
  would find the first in the same states as the second does.
* *Two calls* are enough for one to take, lose or close what belongs to the other. *Window 1*
  makes the second Send of a stream wait.
* *Two devices, two handlers, two ids*: two overlapping first registrations, or one and its
  own retry. `MaxBreaks = 2` allows a mishap and another one during recovery; `MaxExpired = 1`
  the expiry of one of two certificates.
* *Tunnel*: `MaxIn`, `MaxOut` = 2 bytes are the shortest streams with an order. Queues of size
  one (`ChCap`, `OutCap`, `SockCap`) are full as soon as anything is in them, so the dropping
  and the waiting branches are taken; in the code they hold 128 and 256 frames. `FrameMax = 2`
  and `ReadMax = 1` stand for frames of 32 KiB and readers with 4 KiB.
* *Terminal*: one session, since ids are never used twice and sessions share only the streams.
  The second stream is the one it survives into. `SinkCap = 1` (512 in the code) makes the
  channel full as soon as the handler lags by one frame.
* *Wi-Fi*: the scan's entries are chosen at the edges: thresholds met exactly, one access point
  heard twice, a hidden one, a frequency without a channel. In the guard one network has a dead
  gateway, one a profile of its own, and one is known to NetworkManager only: the three ways a
  switch and its way back can go. Two commands make every pair of saves and switches overlap.
* *Relay*: two pages share a table keyed by number, so that rows replace each other; three
  commands against a flush of two (100 in the code) leave one behind; two connections give one
  replaced socket, and one hibernation falls between any two of its events.
* *Console*: two of whatever a page can confuse (directories, containers, instances, hosts,
  boxes, rules, versions of a row) and two requests under way, which is what it takes for one
  answer to overtake another. Three sockets or clients make a chain of replacements, two tokens
  a login after a login. Two tabs share the token. `WifiPanel` has one network, one survey under
  way at once and one edit: its hazards are between different kinds of step.

The theorems of section 5 hold for any values of the bounds.

### Fairness

* A goroutine that can run does run, and a handler goes on to its end: weak fairness of the
  steps of one Dispatch, one handler, one session. Dispatch's is one condition on all its
  steps but `Begin`, `TakeResult` and `CtxDone`: the timer fires, nobody is promised an answer.
* A broken stream is noticed: gRPC keepalive on the server (the library's two hours and 20
  seconds) and the error of the agent's own next call. Weak fairness of `StreamEnds`,
  `RecvFails`, `LoopEnds`, `SendFails`.
* An agent that is up reads its stream; the receive loops in `streamLoop` and `openTunnel` do
  nothing else.
* A dial ends within 5 seconds (`net.DialTimeout`): `Connected` or `DialFails`.
* systemd restarts an agent (`Restart=always`): `Boot` is part of `Progress`.
* A target takes its input and the user of a session reads it. This is an assumption about
  programs outside the repository. Without it `OpenReturns` and `TunnelRegisters` are false: a
  target that never reads stops the agent's receive loop, then the stream's window, then every
  caller that needs `nt.mu` or `tunnelsMu`.

* A terminal's goroutines run on, and frames of a stream that lives arrive.
* The relay's alarm fires when it is set (Cloudflare retries it), and the minute without a ping
  passes: weak fairness of `Alarm` and `Silence`. Nothing is asked of the agent, the network or
  the runtime's close events; that is what the alarm is for.
* The browser fires timers and the events of a socket that it opens or closes (`PromiseTimesOut`,
  `SocketOpens`, `SocketClosed`, `RetryTimer`, `ReconnectTimer`, `ShellClosed`); App.vue's poll
  comes each 30 seconds and is answered (`StatePoll`, `PollAnswered`), and hands the relay client
  its configuration again (`ConfigPoll`).
* The guard's ticker ticks, its engine and the commands run on; nmcli and the scan have time
  limits. For `WeakLinkIsLeft` the interval passes again and again without a report in between
  (`Elapse /\ UNCHANGED calm`): a console that asks for reports more often than the interval
  keeps `lastCheck` young, and the engine never decides (section 4).

Nothing makes a user call, write or hang up, a target answer, a link break or an executor
finish.

## 4. Findings

| finding | where | run |
|---|---|---|
| the deferred Detach of an old stream removes the session of the new one; the node stays unreachable until its stream breaks again | `server/session/session.go:61` | `reconnect` |
| a batch shares one `Command`; a call overwrites the trace id another is about to send, and its caller gets another node's result | `server/command/dispatcher.go:45` | |
| a call whose context ends leaves its ledger row `pending`, although the overview says a final status is written | `server/command/dispatcher.go:80` | |
| two first registrations with one key are both bound, and both get a certificate | `server/store/store.go:202` | |
| a failure between the two writes of a first registration shuts the device out for good | `server/grpcserver/server.go:118` | |
| `tunnelConn.Read` drops what does not fit the caller's buffer | `server/api/panel.go:79` | |
| the way back from a failed switch needs a profile or a listed password | `agent/wifimgr/wifimgr.go:651` | |
| a manual switch that fails is not rolled back, as its comment says | `agent/wifimgr/wifimgr.go:676` | |
| the way back is not logged, although all switches are promised to be | `agent/wifimgr/wifimgr.go:652` | |
| a corrected password never reaches an existing profile | `agent/wifimgr/wifimgr.go:734` | |
| two configurations saved at once share one temporary file | `agent/wifimgr/wifimgr.go:273` | |
| the first alarm after a hibernation closes an agent that pings | `relay/src/room.ts:245` | |
| the relay client retries after 3 seconds, always, where exponential backoff is promised | `web/src/api/relay.ts:84` | |
| `RelayConfig` answers without the envelope that `request` insists on, so the console never gets its relay | `server/api/relay.go:40` | |
| the page joins the room `console`, where no agent is | `web/src/api/relay.ts:68` | |
| a refused or failed container action is reported as a success | `web/src/views/ContainersView.vue:73` | |
| a mistyped old password logs out every tab | `web/src/api/client.ts:159` | |
| a node that was shown becomes "no such node" when one refresh fails | `web/src/views/NodeDetailView.vue:70` | |
| a node without rules of its own is sent those of every other node | `server/api/alerts.go:134` | |
| the connection field may be left empty, and the form then refuses | `web/src/components/NetworkPanel.vue:117` | |
| a deployment says it filled in the UUID when it kept the form's | `web/src/components/NodeVpnPanel.vue:81` | |
| cancelling the question of a Wi-Fi switch switches | `web/src/components/WifiPanel.vue:70` | |
| a command that timed out on the direct path is sent again over the relay | `web/src/api/client.ts:253` | |

The findings without a run are read off the code while modelling it; the models have the
behaviour, and the property beside it names it as an exception: `LedgerAgrees` (pending rows),
`ShutOut` in `JoinsUnlessShutOut`, the hypothesis on `profile` in `StrandsOnlyUnmanaged`,
`raced` in `DiskIsMemory` and `PasswordsAreKept`, the time that sleep resets in
`HealthyAgentStays`, the wrong password in `TokenIsKept`, the two sends in `NetAsked`. `RelayRoom`
has pages and agent in one room and `RelayLink` a client that got its configuration: what the
relay is meant to be, since as it stands (`relay.go:40`, `relay.ts:68`) no page reaches an agent.

Also met, and stated by no document, so no finding: a close handled before its open starts a
shell that nobody ends (`overtaken` in `ShellsEnd`); a terminal whose last frame is dropped
freezes (`lost` in `BrowserIsTold`); an open panel, which asks for a report every 60 seconds,
keeps an engine with that interval from ever acting.

`OwnAnswer` therefore holds for ExecCommand and not for BatchCommand, and the theorem about it
carries the hypothesis `PrivateCmds`. `JoinsUnlessShutOut` is what
remains true of "registers, connects and reconnects by itself" (`transport.go:68`), and
`ShutOut` names the ways out of it.

## 5. Proofs

Eight modules, `DispatchProofs`, `EnrollmentProofs`, `RelayProofs`, `TunnelProofs`,
`WifiGuardProofs`, `WifiReportProofs`, `TerminalProofs` and `ConsoleProofs`, hold the theorems;
`tlapm` checks every obligation. The assumptions are those of the constants, each evaluated by TLC
in the runs: `SessionsAssumption`, `DispatchAssumption`, `EnrollmentAssumption`, `CertsAssumption`,
those of `RelayRoom`, `Tunnel` and `Terminal`, `ConstantsAssumption` and `InodesAssumption` of
`WifiGuard`, `HeardAssumption` of `WifiReport` (signals are negative dBm, as `wifimgr.go:429`
says, or percentages, and a BSSID is one network's), and one of each page: its bounds are
numbers, and `None` is none of its values.

**Dispatch.** The properties are not inductive by themselves. The invariant is
`IInv == TypeOK /\ SessionInv /\ SendInv /\ WaiterInv /\ AnswerInv /\ OnceInv /\ ResultInv`:

* `SessionInv`: a registered stream has an owner, its node, and a live handler;
* `SendInv`: between Begin and the end a call's Command carries a trace id, and a stream;
* `WaiterInv`: waiters, channels and results in hand fit the stage of the call they are named
  after. From it follow `NoSendOnClosed` (`ChannelsAreSafe`) and `NoWaiterLeak`
  (`WaitersAreReleased`);
* `AnswerInv`: the ledger, stage and answer of a call move together; from it `LedgerAgrees`
  (`LedgerIsTrue`);
* `OnceInv`: the frame of a call, the job made of it and its run exclude each other, and a call
  that has not sent has none of them; from it `CommandsRunAtMostOnce`;
* `ResultInv`: a result exists only of a command that was run.

If no two calls share a Command (`PrivateCmds`), `TraceInv` says that every frame carries the
trace id of its own call. `OwnAnswer` (`CallersGetTheirOwn`) and the refinement `KeepsContract`
(`Refinement`) follow: the initial state maps to the contract's, and `ContractStep` maps each
step to `Open`, `Run`, `Close`, `LoseAll` or a stutter.

**Enrollment.** `IInv == TypeOK /\ HandlerInv /\ LonelyInv /\ CertsFollowFingerprints /\ AskInv
/\ KeyInv /\ CertFitsKey`. `HandlerInv` says what a handler at each statement knows.
`LonelyInv`: a handler that has drawn an id and not yet written its fingerprint is the only one
with that id; this is why the unconditional write of a fingerprint never replaces one
(`FingerprintsAreFinal`) and certificates follow fingerprints (`CertsAreBound`), although keys
can be bound twice. `AskInv` ties an answer in flight to the pair the agent asked with, `KeyInv`
the pair in memory to the file; together they give `FilesFit`.

**RelayRoom.** `IInv == TypeOK /\ SocketInv /\ AlarmInv /\ Watched /\ TableInv /\ SentInv /\
PlaceInv`. `SocketInv`: the list has the sockets that are open or closing, once each, and only the last
connection is open. `AlarmInv`: the flag `armed` is never set without the alarm, and the last ping
of a live agent is not old; with it `Watched` (`AlarmIsSet`) survives the sleep that forgets the
flag. `TableInv` and `SentInv` say which seqs a
row or frame may have, `PlaceInv` that a command is in one of the table, the frames on their way,
the agent's hands or `ran`, and there once: from it `NoneRunsTwice`. `OrderInv`: of a page's
commands, what has run, what is on the connection and what is in the table may follow each other
in this order, and while a socket is listed the table holds only rows that a flush left. As a
flush sends by rising number (lemma `FlushedRise`), `PageOrderIsKept` follows. That a flush deletes what it
sends is the lemma `FlushedAreRows`; with it `RowsAreDelivered`. `PingsAreHeeded` needs `AlarmInv`
and the types.

**Tunnel.** `RegInv`: the user of a session in a map is between its registration and its removal
(`Owners`), and an open tunnel that is the newest is the current one. `RegistersHold` follows.
The types are an invariant by themselves, one part for each group of variables (`Types`), with the
capacities of all queues in them. The order of bytes rests on the types and on four parts:

* `Places`: a session's frames are only on the stream it was opened on, and only data frames have
  bytes; `CutInv`: the agent's handler stops only on a broken stream, which carries nothing;
* `OpenInv`: a session's open frame is its first and only one, and its connection exists once the
  frame has been taken;
* `OutputInv`: pieces may be dropped in several places, but marks a <= b <= c <= d <= `produced`
  separate what was read, what is in `out`, in hand, in `ch` and on the stream, and each of these
  rises (`Marks`, `Chunks`). `OutputKeepsOrder` follows from the first of them;
* `InputInv` (`Flow`, `Window`): while a connection lives, the frames on the way to it are exactly
  those numbered from what it has, written or buffered, up to what was sent. What is taken next is
  therefore what comes next, and `InputKeepsOrder` follows.

**WifiGuard.** `TypeInv` is `DataInv` and `Places(Fits)`: what each process has in hand (`loc`)
fits the step it is at. On it rest `ListedInv` (profiles, and
the targets of those past the profile, were listed with a password), `LateInv` (with `Left`, how many
networks a turn may still bring up, by where it is), both for `EngineIsBound`; and `SaveInv`,
by which, unless two saves raced, the one under way owns the temporary file, and what it will
publish is in the file before it is in the memory: `FileFollowsMemory` and `PasswordsStay`.
`BackInv`: as long as nothing else has acted, the network that was brought up is the link, and a
turn on its way back is on its way to the network it came from. A turn that ends without a
gateway is therefore one whose way back had no profile: `LostGroundIsRegained`.

**WifiReport.** `ReportInv` is short: the scan is of named networks, and a report is what the
functions of `WifiRadio` make of the scan. The work is in those functions, which are loops over
the access points. `Induct` is induction over the prefixes of a list, got from the least number of
a set that has no part in it; `Recursion` says that a recursive function over prefixes exists and
what its values are. With them:

* `DedupCovers`: the list without doubles has, of each network, a reading as strong as any that
  was heard (`Covers`); `HeardFacts`, that `bySSID` keeps the strongest. From these, and the two
  conditions of recommend and engineTick shown to be the same, `AdviceHolds`;
* `TallyFacts`: after n access points the count of a channel is the number of its places among
  them, and the running mean exceeds the true sum by no more than the rounding of each step adds
  up to (`Near`, `Triangle`): `StatsHold`.

**Terminal.** `KeyInv` places each key at most once among the frames under way (`UnderWay`), those
that goroutines handle (`Handled`) and those the shell got: `NoKeyTwice`. `OrderInv` says that, as
long as no stream has broken, the pieces of output in the browser, in the channel and on the
stream, and the one the shell prints next, rise along that line (`Line`): `OutputKeepsOrder`.

**Console.** `ConsoleInv` is the conjunction of an invariant for each page, and since a step is
one of one page (`OneSteps`), each is inductive by itself (`PagesKeepTheirInvariants`). What the
page's property lacks, and its invariant adds, is about what is still under way:

* *answers*: every load, log, ping or survey still out is for what the page names, unless
  `crossed` (`FilesInv`, `OneLog`, `LastPing`); a batch's results are of its own targets, and the
  boxes ticked are of rows in the list (`OwnResults`, `OfThisList`, `NamedOnce`); what stands in
  the mesh editor is of the instance it names, and so is each save under way (`OwnContent`). From
  these `PagesShowWhatTheyName` and, with the next, `PagesDoWhatWasAsked`;
* *exclusion*: a question or call that is open has the flag that keeps others out (`OneAction`,
  `OneBatch`, `BusyWithOne`, `OneBusy`), and a command has run once less than the ways it went as
  long as the agent has yet to run it (`Frugal`). A VPN form that was told to have the node's UUID
  has no deployment under way (`Told`); what is saved for a rule was read from it (`OfItsRule`);
* *what stays behind*: a live socket, client or chart is the one the page's variable names
  (`ShellInv`, `OneClient`, `OneChart`; for the relay, unless `early`), so that leaving, which
  closes that one, closes all: `PagesLeaveNothing`;
* *what is kept*: `PagesLoseNothing` is an action property, proved of each step from the same
  invariants (`TokenStays`, `VpnKeepsEntries`, `RulesStay`).

The proofs rest on no bound of the runs: sessions, streams, keys, pages, commands, networks,
hibernations, directories, containers, nodes, rules, scans and queue sizes are any.

Only model-checked: everything temporal beyond box formulas (liveness under fairness is out of
the prover's reach, so `DispatchReturns`, `GoneAgentGoesOffline`, `JoinsUnlessShutOut`,
`ReadersEnd`, `OpenReturns`, `TunnelRegisters`, `ShellsEnd`, `BrowserIsTold`, `WeakLinkIsLeft`,
`AbsenceIsNoticed`, `RequestsSettle` and `ConnectionsComeBack`). Every invariant and every action property of the runs is proved.

## 6. What is left

In the order of what it would add:

1. The agent's alert engine and the push: `ApplyRules` replaces the rules while `Evaluate` reads
   them (`agent/alert/alert.go:117`), and the throttle marks a rule as pushed before the push
   (`server/feishu/throttle.go:53`).
2. The commands of the executor that change several things in turn: `netSet`
   (`agent/executor/netmgmt.go:251`), frp, and the self-upgrade.

## 7. Checking

In this directory:

    tlc -workers 2 -config MCDispatch.cfg MCDispatch       (each cfg with its module; MCDispatchLive
                                                            and MCReconnect with MCDispatch,
                                                            MCTunnelLocks with MCTunnel, MCWifiLive
                                                            with MCWifiGuard, MCTerminal with Terminal)
    tlapm DispatchProofs.tla                               (and the other seven)

The `console` run takes a little over two minutes, the others less. `WifiGuardProofs` and
`TerminalProofs` take about two minutes each, `TunnelProofs` about six, `ConsoleProofs` about
eight, the others about one.

## 8. Not modelled, and why

* Telemetry cache and collector: samples are written and never read; there is no protocol.
* Users: creation and deletion are a statement each. Configuration, logging, port lock, start-up:
  sequential code run once.
* Command executor: shell, files, docker, frp, network, VNC and upgrade run programs of the node
  in sequence; the models have that a command is run and answered, and the Wi-Fi commands whole.
* Alert evaluation, events and the Feishu push: section 6.
* The worker in front of the room (`relay/src/index.ts`): a stateless check of paths and tokens.
* Over-the-air and VPN endpoints: loops that call Dispatch once for each node; what they may rely
  on is `CommandContract`.
* Of the console: pages that load once and show (`AuditView`), example data, the export of Clash
  files, marking events as read, the prompt of the VNC client for a password, layout; and the
  `init` and `logout` of `stores/auth.ts`, which nobody calls.
* `ecp.proto` and generated code, deployment scripts: no state of their own.
* CA creation: two file writes at the first start.
