-------------------------- MODULE EnrollmentProofs --------------------------
(***************************************************************************)
(* Proofs about Enrollment, for any devices, keys, ids, handlers and       *)
(* mishaps.                                                                *)
(***************************************************************************)
EXTENDS Enrollment, TLAPS

-----------------------------------------------------------------------------
(* The inductive invariant, in parts.                                       *)

\* What a handler holds agrees with the database: an id it has drawn has no
\* fingerprint yet, and one it is about to sign for has its caller's.
HandlerInv ==
    \A c \in Calls :
        /\ handler[c] # "free" => caller[c] \in Devices /\ csr[c] \in Pairs
        /\ handler[c] \in {"bound", "reauth", "sign", "accepted"}
               => node[c] \in Ids
        /\ handler[c] = "bound" => fp[node[c]] = None
        /\ handler[c] \in {"sign", "accepted"} => fp[node[c]] = caller[c]

\* Handlers that are about to write a fingerprint write different ones.
LonelyInv ==
    \A c, e \in Calls :
        handler[c] = "bound" /\ handler[e] = "bound" /\ node[c] = node[e]
            => c = e

\* What an agent waits for is its own call, made for its own key.
AskInv ==
    \A d \in Devices : agent[d] = "asking" =>
        /\ rpc[d] \in Calls
        /\ handler[rpc[d]] # "free"
        /\ caller[rpc[d]] = d
        /\ csr[rpc[d]] = memKey[d]

\* The key in memory is the key on disk once it has been written.
KeyInv ==
    \A d \in Devices :
        /\ agent[d] # "down" => memKey[d] \in Pairs
        /\ agent[d] = "keygen" => keyFile[d] = NoKey
        /\ agent[d] \notin {"down", "keygen"} => keyFile[d] = memKey[d]
        /\ agent[d] = "certwrite" => Readable(memCert[d])
                                     /\ memCert[d].pair = memKey[d]

IInv == /\ TypeOK
        /\ HandlerInv
        /\ LonelyInv
        /\ CertsFollowFingerprints
        /\ AskInv
        /\ KeyInv
        /\ CertFitsKey

-----------------------------------------------------------------------------
(* Initially.                                                               *)

LEMMA InitInv == Init => IInv
BY EnrollmentAssumption
   DEF Init, IInv, TypeOK, HandlerInv, LonelyInv, CertsFollowFingerprints,
       AskInv, KeyInv, CertFitsKey, Phases, Doing, Readable, NoKey

-----------------------------------------------------------------------------
(* The steps of a handler.                                                  *)

\* Nothing the agents' invariants read changes, except that a handler an
\* agent waits for moves on.
LEMMA AgentsUnmoved ==
    ASSUME IInv, NEW c \in Calls, NEW phase \in Phases \ {"free"},
           Moves(c, phase), UNCHANGED <<caller, csr, memVars, diskVars>>
    PROVE  AskInv' /\ KeyInv' /\ CertFitsKey'
BY DEF IInv, Moves, memVars, diskVars, AskInv, KeyInv, CertFitsKey, TypeOK,
       Readable

LEMMA ReadKeyInv ==
    ASSUME IInv, NEW c \in Calls, ReadKey(c) PROVE IInv'
<1> USE EnrollmentAssumption DEF IInv, ReadKey, Moves, Phases
<1>1. caller[c] \in Devices
  BY DEF HandlerInv
<1>2. bound[KeyOf[caller[c]]] \in Ids \cup {None}
  BY <1>1 DEF TypeOK
<1>3. TypeOK'
  BY <1>2 DEF TypeOK, dbVars, memVars, diskVars
<1>4. HandlerInv' /\ LonelyInv'
  BY <1>2 DEF HandlerInv, LonelyInv, TypeOK, dbVars
<1>5. CertsFollowFingerprints'
  BY DEF CertsFollowFingerprints, dbVars
<1> QED BY <1>3, <1>4, <1>5, AgentsUnmoved

LEMMA BindKeyInv ==
    ASSUME IInv, NEW c \in Calls, BindKey(c) PROVE IInv'
<1> USE EnrollmentAssumption DEF IInv, BindKey, Moves, Phases
<1>1. PICK i \in Ids : /\ Fresh(i)
                       /\ node' = [node EXCEPT ![c] = i]
                       /\ bound' = [bound EXCEPT ![KeyOf[caller[c]]] = i]
  OBVIOUS
<1>2. TypeOK'
  BY <1>1 DEF TypeOK, memVars, diskVars
<1>3. HandlerInv' /\ LonelyInv'
  BY <1>1 DEF HandlerInv, LonelyInv, TypeOK, Fresh
<1>4. CertsFollowFingerprints'
  BY DEF CertsFollowFingerprints
<1> QED BY <1>2, <1>3, <1>4, AgentsUnmoved

LEMMA BindFpInv ==
    ASSUME IInv, NEW c \in Calls, BindFp(c) PROVE IInv'
<1> USE EnrollmentAssumption DEF IInv, BindFp, Moves, Phases
<1>1. /\ caller[c] \in Devices
      /\ node[c] \in Ids
      /\ fp[node[c]] = None
  BY DEF HandlerInv
<1>2. TypeOK'
  BY <1>1 DEF TypeOK, memVars, diskVars
<1>3. HandlerInv'
  BY <1>1 DEF HandlerInv, LonelyInv, TypeOK
<1>4. LonelyInv'
  BY DEF LonelyInv, TypeOK
<1>5. CertsFollowFingerprints'
  BY <1>1 DEF CertsFollowFingerprints, TypeOK, Certs
<1> QED BY <1>2, <1>3, <1>4, <1>5, AgentsUnmoved

LEMMA CheckFpInv ==
    ASSUME IInv, NEW c \in Calls, CheckFp(c) PROVE IInv'
<1> USE DEF IInv, CheckFp, Moves, Phases
<1>1. TypeOK'
  BY DEF TypeOK, dbVars, memVars, diskVars
<1>2. HandlerInv' /\ LonelyInv'
  BY DEF HandlerInv, LonelyInv, TypeOK, dbVars
<1>3. CertsFollowFingerprints'
  BY DEF CertsFollowFingerprints, dbVars
<1> QED BY <1>1, <1>2, <1>3, AgentsUnmoved

LEMMA SignInv ==
    ASSUME IInv, NEW c \in Calls, Sign(c) PROVE IInv'
<1> USE DEF IInv, Sign, Moves, Phases
<1>1. CertFor(c) \in Certs /\ fp[node[c]] = caller[c]
  BY DEF HandlerInv, CertFor, Certs
<1>2. TypeOK'
  BY <1>1 DEF TypeOK, memVars, diskVars
<1>3. HandlerInv' /\ LonelyInv'
  BY DEF HandlerInv, LonelyInv, TypeOK
<1>4. CertsFollowFingerprints'
  BY <1>1 DEF CertsFollowFingerprints, CertFor
<1> QED BY <1>2, <1>3, <1>4, AgentsUnmoved

LEMMA WriteFailsInv ==
    ASSUME IInv, NEW c \in Calls, WriteFails(c) PROVE IInv'
<1> USE EnrollmentAssumption DEF IInv, WriteFails, Moves, Phases
<1>1. TypeOK'
  BY DEF TypeOK, dbVars, memVars, diskVars
<1>2. HandlerInv' /\ LonelyInv'
  BY DEF HandlerInv, LonelyInv, TypeOK, dbVars
<1>3. CertsFollowFingerprints'
  BY DEF CertsFollowFingerprints, dbVars
<1> QED BY <1>1, <1>2, <1>3, AgentsUnmoved

\* A handler that has returned concerns nobody else's invariant.
LEMMA ForgetInv ==
    ASSUME IInv, NEW c \in Calls, Forget(c), UNCHANGED dbVars
    PROVE  HandlerInv' /\ LonelyInv' /\ CertsFollowFingerprints'
           /\ handler' \in [Calls -> Phases]
           /\ caller' \in [Calls -> Devices \cup {None}]
           /\ csr' \in [Calls -> Nat]
           /\ node' \in [Calls -> Ids \cup {None}]
BY DEF IInv, Forget, Moves, dbVars, TypeOK, HandlerInv, LonelyInv,
       CertsFollowFingerprints, Phases, NoKey

LEMMA DropAnswerInv ==
    ASSUME IInv, NEW c \in Calls, DropAnswer(c) PROVE IInv'
<1> USE DEF IInv, DropAnswer
<1>1. TypeOK'
  BY ForgetInv DEF TypeOK, dbVars, memVars, diskVars
<1>2. AskInv'
  BY DEF AskInv, Forget, Moves, memVars, TypeOK
<1>3. KeyInv' /\ CertFitsKey'
  BY DEF KeyInv, CertFitsKey, memVars, diskVars
<1> QED BY <1>1, <1>2, <1>3, ForgetInv

-----------------------------------------------------------------------------
(* The steps of an agent.                                                   *)

\* The handlers' invariants read nothing of an agent.
LEMMA HandlersUnmoved ==
    ASSUME IInv, UNCHANGED <<dbVars, handlerVars>>
    PROVE  HandlerInv' /\ LonelyInv' /\ CertsFollowFingerprints'
BY DEF IInv, dbVars, handlerVars, HandlerInv, LonelyInv,
       CertsFollowFingerprints

\* Steps that touch neither the database nor the handlers.
LocalStep(d) ==
    \/ Boot(d) \/ WriteKey(d) \/ WriteCert(d) \/ OpenCA(d) \/ WriteCA(d)
    \/ Join(d) \/ LoseLink(d) \/ AgentCrash(d) \/ Expire(d)

LEMMA LocalInv ==
    ASSUME IInv, NEW d \in Devices, LocalStep(d) PROVE IInv'
<1> USE DEF IInv
<1>1. UNCHANGED <<dbVars, handlerVars>>
  BY DEF LocalStep, Boot, WriteKey, WriteCert, OpenCA, WriteCA, Join,
         LoseLink, AgentCrash, Expire
<1>2. SUFFICES TypeOK' /\ AskInv' /\ KeyInv' /\ CertFitsKey'
  BY <1>1, HandlersUnmoved
<1> USE <1>1, EnrollmentAssumption
    DEF TypeOK, AskInv, KeyInv, CertFitsKey, dbVars, handlerVars, Doing,
        Pairs, NoKey, Readable, Certs
<1>3. CASE Boot(d)
  BY <1>3 DEF Boot, diskVars
<1>4. CASE WriteKey(d)
  BY <1>4 DEF WriteKey
<1>5. CASE WriteCert(d)
  BY <1>5 DEF WriteCert
<1>6. CASE OpenCA(d) \/ WriteCA(d)
  BY <1>6 DEF OpenCA, WriteCA
<1>7. CASE Join(d)
  BY <1>7 DEF Join, CanDial, diskVars
<1>8. CASE LoseLink(d)
  BY <1>8 DEF LoseLink, diskVars
<1>9. CASE AgentCrash(d)
  BY <1>9 DEF AgentCrash, diskVars
<1>10. CASE Expire(d)
  BY <1>10 DEF Expire, memVars
<1> QED BY <1>3, <1>4, <1>5, <1>6, <1>7, <1>8, <1>9, <1>10 DEF LocalStep

LEMMA AskInvStep ==
    ASSUME IInv, NEW d \in Devices, NEW c \in Calls, Ask(d, c) PROVE IInv'
<1> USE EnrollmentAssumption DEF IInv, Ask, CanDial, Moves
<1>1. memKey[d] \in Pairs /\ memKey[d] \in Nat
  BY DEF KeyInv, Pairs
<1>2. TypeOK'
  BY <1>1 DEF TypeOK, dbVars, diskVars, Phases, Doing
<1>3. HandlerInv' /\ LonelyInv' /\ CertsFollowFingerprints'
  BY <1>1 DEF HandlerInv, LonelyInv, CertsFollowFingerprints, TypeOK, dbVars
<1>4. AskInv'
  BY DEF AskInv, TypeOK
<1>5. KeyInv' /\ CertFitsKey'
  BY DEF KeyInv, CertFitsKey, TypeOK, diskVars
<1> QED BY <1>2, <1>3, <1>4, <1>5

\* Two agents never wait for one call.
LEMMA OwnCall ==
    ASSUME AskInv, NEW d \in Devices, NEW e \in Devices,
           agent[d] = "asking", agent[e] = "asking", rpc[d] = rpc[e]
    PROVE  d = e
BY DEF AskInv

LEMMA TakeRefusalInv ==
    ASSUME IInv, NEW d \in Devices, TakeRefusal(d) PROVE IInv'
<1> USE DEF IInv, TakeRefusal
<1>1. rpc[d] \in Calls
  BY DEF AskInv
<1>2. TypeOK'
  BY <1>1, ForgetInv DEF TypeOK, dbVars, diskVars, Doing
<1>3. AskInv'
  BY <1>1, OwnCall DEF AskInv, Forget, Moves, TypeOK
<1>4. KeyInv' /\ CertFitsKey'
  BY DEF KeyInv, CertFitsKey, TypeOK, diskVars
<1> QED BY <1>1, <1>2, <1>3, <1>4, ForgetInv

LEMMA TakeCertInv ==
    ASSUME IInv, NEW d \in Devices, TakeCert(d) PROVE IInv'
<1> USE EnrollmentAssumption, CertsAssumption DEF IInv, TakeCert
<1>1. /\ rpc[d] \in Calls
      /\ csr[rpc[d]] = memKey[d]
  BY DEF AskInv
<1>2. CertFor(rpc[d]) \in Certs /\ CertFor(rpc[d]).pair = memKey[d]
  BY <1>1 DEF HandlerInv, CertFor, Certs
<1>3. TypeOK'
  BY <1>1, <1>2, ForgetInv DEF TypeOK, dbVars, Doing
<1>4. AskInv'
  BY <1>1, OwnCall DEF AskInv, Forget, Moves, TypeOK
<1>5. KeyInv'
  BY <1>1, <1>2 DEF KeyInv, TypeOK, Readable
<1>6. CertFitsKey'
  BY DEF CertFitsKey, TypeOK, Readable
<1> QED BY <1>1, <1>3, <1>4, <1>5, <1>6, ForgetInv

LEMMA ServerCrashInv ==
    ASSUME IInv, ServerCrash PROVE IInv'
<1> USE DEF IInv, ServerCrash
<1>1. TypeOK'
  BY DEF TypeOK, dbVars, diskVars, Phases, Doing, NoKey
<1>2. HandlerInv' /\ LonelyInv' /\ CertsFollowFingerprints'
  BY DEF HandlerInv, LonelyInv, CertsFollowFingerprints, dbVars
<1>3. AskInv' /\ KeyInv' /\ CertFitsKey'
  BY DEF AskInv, KeyInv, CertFitsKey, TypeOK, diskVars
<1> QED BY <1>1, <1>2, <1>3

LEMMA StepInv == IInv /\ [Next]_vars => IInv'
<1> SUFFICES ASSUME IInv, [Next]_vars PROVE IInv'
  OBVIOUS
<1>1. ASSUME NEW c \in Calls, Serve(c) \/ WriteFails(c) PROVE IInv'
  BY <1>1, ReadKeyInv, BindKeyInv, BindFpInv, CheckFpInv, SignInv,
     DropAnswerInv, WriteFailsInv DEF Serve
<1>2. ASSUME NEW d \in Devices,
             Progress(d) \/ LoseLink(d) \/ AgentCrash(d) \/ Expire(d)
      PROVE  IInv'
  BY <1>2, LocalInv, AskInvStep, TakeRefusalInv, TakeCertInv
     DEF Progress, LocalStep
<1>3. CASE ServerCrash
  BY <1>3, ServerCrashInv
<1>4. CASE UNCHANGED vars
  BY <1>4 DEF vars, dbVars, handlerVars, memVars, diskVars, IInv, TypeOK,
     HandlerInv, LonelyInv, CertsFollowFingerprints, AskInv, KeyInv,
     CertFitsKey
<1> QED BY <1>1, <1>2, <1>3, <1>4 DEF Next

LEMMA Invariant == Spec => []IInv
BY InitInv, StepInv, PTL DEF Spec

-----------------------------------------------------------------------------
(* The theorems.                                                            *)

\* Register and the agent's files keep their types: in particular a
\* certificate is never signed without a key, a node and a caller.
THEOREM TypeCorrect == Spec => []TypeOK
<1>1. IInv => TypeOK
  BY DEF IInv
<1> QED BY <1>1, Invariant, PTL

\* However many Register handlers overlap and wherever they stop, a
\* certificate is only signed for the device the node's fingerprint names.
THEOREM CertsAreBound == Spec => []CertsFollowFingerprints
<1>1. IInv => CertsFollowFingerprints
  BY DEF IInv
<1> QED BY <1>1, Invariant, PTL

\* No crash leaves a device a readable certificate that its key does not fit.
THEOREM FilesFit == Spec => []CertFitsKey
<1>1. IInv => CertFitsKey
  BY DEF IInv
<1> QED BY <1>1, Invariant, PTL

\* A fingerprint, once written, stays: only one handler ever writes the
\* fingerprint of a node, and nothing overwrites it.
THEOREM FingerprintsAreFinal ==
    Spec => [][\A i \in Ids : fp[i] # None => fp'[i] = fp[i]]_vars
<1> DEFINE Stays == \A i \in Ids : fp[i] # None => fp'[i] = fp[i]
<1>1. IInv /\ [Next]_vars => [Stays]_vars
  <2> SUFFICES ASSUME IInv, [Next]_vars PROVE Stays
    OBVIOUS
  <2>1. ASSUME NEW c \in Calls, BindFp(c) PROVE Stays
    BY <2>1 DEF IInv, HandlerInv, BindFp, TypeOK
  <2>2. CASE ~ \E c \in Calls : BindFp(c)
    BY <2>2
       DEF Next, Serve, Progress, vars, dbVars, ReadKey, BindKey, CheckFp,
           Sign, DropAnswer, WriteFails, Boot, WriteKey, Ask, TakeRefusal,
           TakeCert, WriteCert, OpenCA, WriteCA, Join, LoseLink, AgentCrash,
           Expire, ServerCrash
  <2> QED BY <2>1, <2>2
<1> QED BY <1>1, Invariant, PTL DEF Spec
=============================================================================
