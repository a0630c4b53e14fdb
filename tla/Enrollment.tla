----------------------------- MODULE Enrollment -----------------------------
(***************************************************************************)
(* How a device becomes a node: the Register RPC of the control plane      *)
(* (grpcserver/server.go, store/store.go) and the agent's identity files   *)
(* (agent/internal/register, transport.register).                          *)
(*                                                                         *)
(* A registration key admits one node.  The first Register binds the key   *)
(* to a new node id and the id to the caller's hardware fingerprint; later *)
(* ones must show the same fingerprint.  Every statement on the database   *)
(* is a step: the handler is not a transaction, and the agent may hang up  *)
(* and call again while an earlier handler is still running.               *)
(*                                                                         *)
(* The agent writes files with os.WriteFile, which truncates first, so a   *)
(* crash can leave a file there but unreadable.                            *)
(***************************************************************************)
EXTENDS Naturals, FiniteSets

CONSTANTS Devices,    \* devices; a device stands for its fingerprint
          Keys,       \* registration keys the administrator created
          KeyOf,      \* the key a device was installed with
          Ids,        \* node ids the control plane can draw
          Calls,      \* Register handlers that can run at once
          MaxBreaks,  \* bound: connections lost and processes crashed
          MaxExpired, \* bound: certificates that run out
          None,       \* no id, no device, no file
          Torn        \* a file that was truncated and not written

ASSUME EnrollmentAssumption ==
    /\ KeyOf \in [Devices -> Keys]
    /\ MaxBreaks \in Nat
    /\ MaxExpired \in Nat
    /\ None \notin Devices \cup Ids \cup Calls
    /\ None # Torn

VARIABLES bound,     \* registration_keys.bound_node_id
          fp,        \* node_fingerprints
          issued,    \* the client certificates signed so far
          handler,   \* where a Register handler is
          caller,    \* the device that called
          csr,       \* the key pair the caller asks a certificate for
          node,      \* the handler's nodeID
          agent,     \* where the agent process of a device is
          rpc,       \* the call the agent waits for
          memKey,    \* Identity.Key
          memCert,   \* Identity.CertPEM
          keyFile,   \* client.key
          certFile,  \* client.crt
          caFile,    \* devices whose ca.crt is readable
          expired,   \* devices whose certificate is past its NotAfter
          breaks     \* connections lost and crashes so far

dbVars == <<bound, fp, issued>>
handlerVars == <<handler, caller, csr, node>>
memVars == <<agent, rpc, memKey, memCert>>
diskVars == <<keyFile, certFile, caFile, expired>>
vars == <<dbVars, handlerVars, memVars, diskVars, breaks>>

\* A key pair is known by the number of the boot that generated it.
Pairs == Nat \ {0}
NoKey == 0
Certs == [node : Ids, device : Devices, pair : Pairs]

ASSUME CertsAssumption == None \notin Certs /\ Torn \notin Certs

Phases == {"free", "received", "first", "bound", "reauth", "sign",
           "accepted", "rejected"}

\* What the agent is doing: "keygen" writing its first key, "ready" about to
\* dial, "asking" in Register, then the two files ApplyResponse writes, and
\* "joined" on the CommandStream.
Doing == {"down", "keygen", "ready", "asking", "certwrite", "castart",
          "cawrite", "joined"}

TypeOK ==
    /\ bound \in [Keys -> Ids \cup {None}]
    /\ fp \in [Ids -> Devices \cup {None}]
    /\ issued \subseteq Certs
    /\ handler \in [Calls -> Phases]
    /\ caller \in [Calls -> Devices \cup {None}]
    /\ csr \in [Calls -> Nat]
    /\ node \in [Calls -> Ids \cup {None}]
    /\ agent \in [Devices -> Doing]
    /\ rpc \in [Devices -> Calls \cup {None}]
    /\ memKey \in [Devices -> Nat]
    /\ memCert \in [Devices -> Certs \cup {None, Torn}]
    /\ keyFile \in [Devices -> Nat]
    /\ certFile \in [Devices -> Certs \cup {None, Torn}]
    /\ caFile \subseteq Devices
    /\ expired \subseteq Devices
    /\ breaks \in Nat

\* The installer has put ca.crt and the key in place, nothing has run.
Init ==
    /\ bound = [k \in Keys |-> None]
    /\ fp = [i \in Ids |-> None]
    /\ issued = {}
    /\ handler = [c \in Calls |-> "free"]
    /\ caller = [c \in Calls |-> None]
    /\ csr = [c \in Calls |-> NoKey]
    /\ node = [c \in Calls |-> None]
    /\ agent = [d \in Devices |-> "down"]
    /\ rpc = [d \in Devices |-> None]
    /\ memKey = [d \in Devices |-> NoKey]
    /\ memCert = [d \in Devices |-> None]
    /\ keyFile = [d \in Devices |-> NoKey]
    /\ certFile = [d \in Devices |-> None]
    /\ caFile = Devices
    /\ expired = {}
    /\ breaks = 0

-----------------------------------------------------------------------------
(* The Register handler.                                                    *)

Moves(c, phase) == handler' = [handler EXCEPT ![c] = phase]

\* GetKeyByHash: the binding is read here and used until the end.
ReadKey(c) ==
    /\ handler[c] = "received"
    /\ LET n == bound[KeyOf[caller[c]]] IN
       /\ Moves(c, IF n = None THEN "first" ELSE "reauth")
       /\ node' = [node EXCEPT ![c] = n]
    /\ UNCHANGED <<dbVars, caller, csr, memVars, diskVars, breaks>>

\* Fresh ids are drawn at random and do not repeat.
Fresh(i) == fp[i] = None /\ \A k \in Keys : bound[k] # i
                /\ \A c \in Calls : node[c] # i

\* BindKeyToNode updates the row whatever it holds by now.
BindKey(c) ==
    /\ handler[c] = "first"
    /\ \E i \in Ids :
         /\ Fresh(i)
         /\ node' = [node EXCEPT ![c] = i]
         /\ bound' = [bound EXCEPT ![KeyOf[caller[c]]] = i]
    /\ Moves(c, "bound")
    /\ UNCHANGED <<fp, issued, caller, csr, memVars, diskVars, breaks>>

BindFp(c) ==
    /\ handler[c] = "bound"
    /\ fp' = [fp EXCEPT ![node[c]] = caller[c]]
    /\ Moves(c, "sign")
    /\ UNCHANGED <<bound, issued, caller, csr, node, memVars, diskVars, breaks>>

\* Fault: a key that is bound already is enough.
CheckNothing(c) ==
    /\ handler[c] = "reauth"
    /\ Moves(c, "sign")
    /\ UNCHANGED <<dbVars, caller, csr, node, memVars, diskVars, breaks>>

\* Fault: a key that is bound already is refused.
RefuseBound(c) ==
    /\ handler[c] = "reauth"
    /\ Moves(c, "rejected")
    /\ UNCHANGED <<dbVars, caller, csr, node, memVars, diskVars, breaks>>

\* A fingerprint that is missing or different is refused.
CheckFp(c) ==
    /\ handler[c] = "reauth"
    /\ Moves(c, IF fp[node[c]] = caller[c] THEN "sign" ELSE "rejected")
    /\ UNCHANGED <<dbVars, caller, csr, node, memVars, diskVars, breaks>>

CertFor(c) == [node |-> node[c], device |-> caller[c], pair |-> csr[c]]

\* SignClientCertReturnSerial and IssueCredential.
Sign(c) ==
    /\ handler[c] = "sign"
    /\ issued' = issued \cup {CertFor(c)}
    /\ Moves(c, "accepted")
    /\ UNCHANGED <<bound, fp, caller, csr, node, memVars, diskVars, breaks>>

\* A write fails; what was written before it stays.
WriteFails(c) ==
    /\ handler[c] \in {"first", "bound"}
    /\ breaks < MaxBreaks
    /\ breaks' = breaks + 1
    /\ Moves(c, "rejected")
    /\ UNCHANGED <<dbVars, caller, csr, node, memVars, diskVars>>

Forget(c) ==
    /\ Moves(c, "free")
    /\ caller' = [caller EXCEPT ![c] = None]
    /\ csr' = [csr EXCEPT ![c] = NoKey]
    /\ node' = [node EXCEPT ![c] = None]

\* The answer to a caller that has hung up goes nowhere.
DropAnswer(c) ==
    /\ handler[c] \in {"accepted", "rejected"}
    /\ \A d \in Devices : rpc[d] # c
    /\ Forget(c)
    /\ UNCHANGED <<dbVars, memVars, diskVars, breaks>>

-----------------------------------------------------------------------------
(* The agent.                                                               *)

\* Fault: LoadOrCreate leaves a new key to be written by a later boot.
BootUnsaved(d) ==
    /\ agent[d] = "down"
    /\ memCert' = [memCert EXCEPT ![d] = certFile[d]]
    /\ memKey' = [memKey EXCEPT ![d] =
                    IF keyFile[d] = NoKey THEN breaks + 1 ELSE keyFile[d]]
    /\ agent' = [agent EXCEPT ![d] = "ready"]
    /\ UNCHANGED <<dbVars, handlerVars, rpc, diskVars, breaks>>

\* LoadOrCreate: a certificate file counts as a certificate even if it
\* cannot be parsed; a key that cannot be parsed is replaced.
Boot(d) ==
    /\ agent[d] = "down"
    /\ memCert' = [memCert EXCEPT ![d] = certFile[d]]
    /\ \/ /\ keyFile[d] # NoKey
          /\ memKey' = [memKey EXCEPT ![d] = keyFile[d]]
          /\ agent' = [agent EXCEPT ![d] = "ready"]
       \/ /\ keyFile[d] = NoKey
          /\ memKey' = [memKey EXCEPT ![d] = breaks + 1]
          /\ agent' = [agent EXCEPT ![d] = "keygen"]
    /\ UNCHANGED <<dbVars, handlerVars, rpc, diskVars, breaks>>

WriteKey(d) ==
    /\ agent[d] = "keygen"
    /\ keyFile' = [keyFile EXCEPT ![d] = memKey[d]]
    /\ agent' = [agent EXCEPT ![d] = "ready"]
    /\ UNCHANGED <<dbVars, handlerVars, rpc, memKey, memCert, certFile, caFile,
                   expired, breaks>>

\* dial succeeds only if the agent can verify the control plane.
CanDial(d) == agent[d] = "ready" /\ d \in caFile

\* streamLoop registers only if there is no certificate at all.
Ask(d, c) ==
    /\ CanDial(d)
    /\ memCert[d] = None
    /\ handler[c] = "free"
    /\ Moves(c, "received")
    /\ caller' = [caller EXCEPT ![c] = d]
    /\ csr' = [csr EXCEPT ![c] = memKey[d]]
    /\ rpc' = [rpc EXCEPT ![d] = c]
    /\ agent' = [agent EXCEPT ![d] = "asking"]
    /\ UNCHANGED <<dbVars, node, memKey, memCert, diskVars, breaks>>

\* A refusal ends streamLoop, and Run dials again at once.
TakeRefusal(d) ==
    /\ agent[d] = "asking"
    /\ handler[rpc[d]] = "rejected"
    /\ Forget(rpc[d])
    /\ rpc' = [rpc EXCEPT ![d] = None]
    /\ agent' = [agent EXCEPT ![d] = "ready"]
    /\ UNCHANGED <<dbVars, memKey, memCert, diskVars, breaks>>

\* ApplyResponse: client.crt is opened and truncated ...
TakeCert(d) ==
    /\ agent[d] = "asking"
    /\ handler[rpc[d]] = "accepted"
    /\ Forget(rpc[d])
    /\ rpc' = [rpc EXCEPT ![d] = None]
    /\ memCert' = [memCert EXCEPT ![d] = CertFor(rpc[d])]
    /\ certFile' = [certFile EXCEPT ![d] = Torn]
    /\ agent' = [agent EXCEPT ![d] = "certwrite"]
    /\ UNCHANGED <<dbVars, memKey, keyFile, caFile, expired, breaks>>

\* ... written, and the same for ca.crt.
WriteCert(d) ==
    /\ agent[d] = "certwrite"
    /\ certFile' = [certFile EXCEPT ![d] = memCert[d]]
    /\ agent' = [agent EXCEPT ![d] = "castart"]
    /\ UNCHANGED <<dbVars, handlerVars, rpc, memKey, memCert, keyFile, caFile,
                   expired, breaks>>

OpenCA(d) ==
    /\ agent[d] = "castart"
    /\ caFile' = caFile \ {d}
    /\ agent' = [agent EXCEPT ![d] = "cawrite"]
    /\ UNCHANGED <<dbVars, handlerVars, rpc, memKey, memCert, keyFile,
                   certFile, expired, breaks>>

\* The connection was dialled without a certificate, so the stream opened on
\* it is refused and Run dials once more.
WriteCA(d) ==
    /\ agent[d] = "cawrite"
    /\ caFile' = caFile \cup {d}
    /\ agent' = [agent EXCEPT ![d] = "ready"]
    /\ UNCHANGED <<dbVars, handlerVars, rpc, memKey, memCert, keyFile,
                   certFile, expired, breaks>>

Readable(file) == file \notin {None, Torn}

\* dial presents the certificate if it parses and belongs to the key, and
\* CommandStream admits its holder, unless it has expired, as the node it
\* names.
Presentable(d) ==
    /\ Readable(memCert[d])
    /\ memCert[d].pair = memKey[d]
    /\ d \notin expired

Join(d) ==
    /\ CanDial(d)
    /\ Presentable(d)
    /\ agent' = [agent EXCEPT ![d] = "joined"]
    /\ UNCHANGED <<dbVars, handlerVars, rpc, memKey, memCert, diskVars, breaks>>

-----------------------------------------------------------------------------
(* What goes wrong.                                                         *)

\* The connection breaks: the agent dials again, the handler carries on.
LoseLink(d) ==
    /\ agent[d] \in {"asking", "joined"}
    /\ breaks < MaxBreaks
    /\ breaks' = breaks + 1
    /\ agent' = [agent EXCEPT ![d] = "ready"]
    /\ rpc' = [rpc EXCEPT ![d] = None]
    /\ UNCHANGED <<dbVars, handlerVars, memKey, memCert, diskVars>>

AgentCrash(d) ==
    /\ agent[d] # "down"
    /\ breaks < MaxBreaks
    /\ breaks' = breaks + 1
    /\ agent' = [agent EXCEPT ![d] = "down"]
    /\ rpc' = [rpc EXCEPT ![d] = None]
    /\ memKey' = [memKey EXCEPT ![d] = NoKey]
    /\ memCert' = [memCert EXCEPT ![d] = None]
    /\ UNCHANGED <<dbVars, handlerVars, diskVars>>

\* The control plane restarts: handlers are gone, the database stays.
ServerCrash ==
    /\ breaks < MaxBreaks
    /\ breaks' = breaks + 1
    /\ handler' = [c \in Calls |-> "free"]
    /\ caller' = [c \in Calls |-> None]
    /\ csr' = [c \in Calls |-> NoKey]
    /\ node' = [c \in Calls |-> None]
    /\ rpc' = [d \in Devices |-> None]
    /\ agent' = [d \in Devices |->
                   IF agent[d] \in {"asking", "joined"} THEN "ready"
                   ELSE agent[d]]
    /\ UNCHANGED <<dbVars, memKey, memCert, diskVars>>

\* 720 hours pass.  A device that once had a certificate never gets another.
Expire(d) ==
    /\ Readable(memCert[d])
    /\ d \notin expired
    /\ Cardinality(expired) < MaxExpired
    /\ expired' = expired \cup {d}
    /\ UNCHANGED <<dbVars, handlerVars, memVars, keyFile, certFile, caFile,
                   breaks>>

Serve(c) == ReadKey(c) \/ BindKey(c) \/ BindFp(c) \/ CheckFp(c) \/ Sign(c)
                \/ DropAnswer(c)

Progress(d) ==
    \/ Boot(d) \/ WriteKey(d) \/ TakeRefusal(d) \/ TakeCert(d) \/ WriteCert(d)
    \/ OpenCA(d) \/ WriteCA(d) \/ Join(d) \/ \E c \in Calls : Ask(d, c)

Next ==
    \/ \E c \in Calls : Serve(c) \/ WriteFails(c)
    \/ \E d \in Devices : Progress(d) \/ LoseLink(d) \/ AgentCrash(d)
                           \/ Expire(d)
    \/ ServerCrash

Spec == Init /\ [][Next]_vars

\* Handlers and agents keep running, and systemd restarts an agent.
FairSpec ==
    /\ Spec
    /\ \A c \in Calls : WF_vars(Serve(c))
    /\ \A d \in Devices : WF_vars(Progress(d))

-----------------------------------------------------------------------------
(* Properties.                                                              *)

\* A client certificate is only ever signed for the device whose fingerprint
\* the node is bound to, whatever handlers overlap and wherever they stop.
CertsFollowFingerprints == \A x \in issued : fp[x.node] = x.device

\* The certificate on disk belongs to the private key on disk: after any
\* crash and reboot, an agent with a readable certificate can present it.
CertFitsKey ==
    \A d \in Devices :
        Readable(certFile[d]) => certFile[d].pair = keyFile[d]

\* The ways to be shut out for good: a truncated certificate, a truncated CA,
\* an expired certificate, and a key bound to a node that has no fingerprint
\* or another device's.
ShutOut(d) ==
    \/ certFile[d] = Torn
    \/ d \in expired
    \/ d \notin caFile
    \/ /\ bound[KeyOf[d]] # None
       /\ fp[bound[KeyOf[d]]] # d

\* An agent that stays up joins in the end, unless it has been shut out:
\* refusals caused by handlers that overlap are only passing.
JoinsUnlessShutOut ==
    \A d \in Devices :
        <>[](agent[d] # "down" /\ ~ ShutOut(d)) => <>[](agent[d] = "joined")
=============================================================================
