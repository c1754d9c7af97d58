-------------------------- MODULE ARSTMain_proofs --------------------------
(* Proofs about ARSTMain, for every number of queue readers and clients.   *)
EXTENDS ARSTMain, ARSTClients_proofs

(* A thread that has seen no instance under the lock is the only one, and  *)
(* whoever is past the second test leaves an instance behind.              *)
InstanceInv ==
  /\ getting \in [Caller -> {"not called", "first test", "lock", "second test", "unlock",
                             "returned"}]
  /\ registry \in [Caller -> Caller \cup {NoRegistry}]
  /\ instance \in Caller \cup {NoRegistry}
  /\ \A t \in Caller : getting[t] \in {"second test", "unlock"} <=> mtxInstance = t
  /\ \A t \in Caller : getting[t] \in {"unlock", "returned"} => instance # NoRegistry
  /\ \A t \in Caller : registry[t] # NoRegistry => registry[t] = instance
  /\ \A t \in Caller : getting[t] = "returned" => registry[t] = instance

(* main calls GetInstance once, and nobody is accepted before it has       *)
(* configured what GetInstance returned.                                   *)
StartUpInv ==
  /\ startUp \in {"client config", "exchange config", "upstream", "queue config", "daos"}
       => \A t \in Caller : getting[t] = "not called"
  /\ startUp \in {"listen", "clients", "servers"}
       => getting["main"] = "returned" /\ instance \in configured
  /\ accepting = TRUE => startUp \in {"clients", "servers"}
  /\ alive # {} => startUp \in {"clients", "servers"}

IInv == InstanceInv /\ StartUpInv

LEMMA MainIsCaller == "main" \in Caller
BY DEF Caller

LEMMA InitIInv == MainInit => IInv
<1> SUFFICES ASSUME MainInit
             PROVE  IInv
  OBVIOUS
<1>1. InstanceInv
  BY MainAssumption DEF MainInit, InstanceInv
<1>2. StartUpInv
  BY DEF MainInit, Init, StartUpInv
<1> QED
  BY <1>1, <1>2 DEF IInv

(* The clients of ARSTClients come from the accept thread only.           *)
LEMMA OnlyAcceptAdds ==
  ASSUME MainStep \/ (\E d \in Dao : DaoStep(d)) \/ (\E c \in Client : PeerGone(c))
  PROVE  alive' \subseteq alive
<1>1. CASE MainStep
  BY <1>1 DEF MainStep, CheckClientVector, CheckEnd, CheckNext, ShutdownClient,
              EraseClientFromVector, Destroy, UseOfThread, MainIteratorStale,
              BecomesUndefined, clientVars
<1>2. ASSUME NEW d \in Dao, DaoStep(d)
      PROVE  alive' \subseteq alive
  BY <1>2 DEF DaoStep, BeginWalk, EndWalk, SkipOffline, TakeClient, SendPart, SendAll,
              SendFails, NextClient, UseOfDestroyed, IteratorInvalid, BecomesUndefined,
              clientVars
<1>3. ASSUME NEW c \in Client, PeerGone(c)
      PROVE  alive' \subseteq alive
  BY <1>3 DEF PeerGone
<1> QED
  BY <1>1, <1>2, <1>3

LEMMA GetInstanceKeepsIInv ==
  ASSUME IInv, NEW t \in Caller, GetInstance(t)
  PROVE  IInv'
<1> USE DEF IInv
<1>1. /\ alive' = alive
      /\ startUp' = startUp /\ configured' = configured /\ accepting' = accepting
  BY DEF GetInstance, FirstTest, LockInstance, SecondTest, UnlockInstance, In, vars,
         clientVars
<1>2. getting[t] \in {"first test", "lock", "second test", "unlock"}
  BY DEF GetInstance, FirstTest, LockInstance, SecondTest, UnlockInstance, In
<1>0. /\ startUp \notin {"client config", "exchange config", "upstream", "queue config", "daos"}
      /\ getting["main"] = "returned" => getting'["main"] = "returned"
  <2>1. \A u \in Caller : u # t => getting'[u] = getting[u]
    BY DEF GetInstance, FirstTest, LockInstance, SecondTest, UnlockInstance, In, InstanceInv
  <2> QED
    BY <1>2, <2>1, MainIsCaller DEF StartUpInv
<1>3. CASE FirstTest(t)
  <2>1. InstanceInv'
    <3>1. CASE instance = NoRegistry
      BY <1>3, <3>1, MainAssumption DEF FirstTest, In, InstanceInv
    <3>2. CASE instance # NoRegistry
      <4>1. /\ getting' = [getting EXCEPT ![t] = "returned"]
            /\ registry' = [registry EXCEPT ![t] = instance]
            /\ instance' = instance /\ mtxInstance' = mtxInstance
            /\ getting[t] = "first test" /\ mtxInstance # t
        BY <1>3, <3>2 DEF FirstTest, In, InstanceInv
      <4>2. instance \in Caller
        BY <3>2 DEF InstanceInv
      <4> QED
        BY <3>2, <4>1, <4>2 DEF InstanceInv
    <3> QED
      BY <3>1, <3>2
  <2>2. StartUpInv'
    BY <1>1, <1>3, <1>0 DEF FirstTest, StartUpInv
  <2> QED
    BY <2>1, <2>2
<1>4. CASE LockInstance(t)
  <2>1. InstanceInv'
    BY <1>4, MainAssumption DEF LockInstance, In, InstanceInv
  <2>2. StartUpInv'
    BY <1>1, <1>4, <1>0 DEF LockInstance, StartUpInv
  <2> QED
    BY <2>1, <2>2
<1>5. CASE SecondTest(t)
  <2>1. instance' # NoRegistry /\ (instance # NoRegistry => instance' = instance)
    BY <1>5, MainAssumption DEF SecondTest
  <2>2. InstanceInv'
    BY <1>5, <2>1 DEF SecondTest, In, InstanceInv
  <2>3. StartUpInv'
    BY <1>0, <1>1, <2>1, MainIsCaller DEF InstanceInv, StartUpInv
  <2> QED
    BY <2>2, <2>3
<1>6. CASE UnlockInstance(t)
  <2>1. instance' = instance /\ instance # NoRegistry
    BY <1>6 DEF UnlockInstance, In, InstanceInv
  <2>2. InstanceInv'
    <3>1. /\ getting' = [getting EXCEPT ![t] = "returned"]
          /\ registry' = [registry EXCEPT ![t] = instance]
          /\ getting[t] = "unlock" /\ mtxInstance' = NoRegistry
      BY <1>6 DEF UnlockInstance, In
    <3>2. mtxInstance = t /\ instance \in Caller
      BY <2>1, <3>1 DEF InstanceInv
    <3>3. \A u \in Caller : getting'[u] \notin {"second test", "unlock"} /\ u # NoRegistry
      BY <3>1, <3>2, MainAssumption DEF InstanceInv
    <3> QED
      BY <2>1, <3>1, <3>2, <3>3 DEF InstanceInv
  <2>3. StartUpInv'
    BY <1>1, <1>6, <2>1, <1>0 DEF UnlockInstance, StartUpInv
  <2> QED
    BY <2>2, <2>3
<1> QED
  BY <1>3, <1>4, <1>5, <1>6 DEF GetInstance

LEMMA StartUpKeepsIInv ==
  ASSUME IInv, StartUpStep
  PROVE  IInv'
<1> USE MainIsCaller, MainAssumption DEF IInv
<1>1. CASE ReadClientConfigFile \/ ReadConfigFile \/ StartUpServers \/ ReadQueueDAOConfigFile
  BY <1>1 DEF ReadClientConfigFile, ReadConfigFile, StartUpServers, ReadQueueDAOConfigFile,
              Goes, InstanceInv, StartUpInv, vars, clientVars
<1>2. CASE StartUpDAOs
  BY <1>2 DEF StartUpDAOs, Goes, InstanceInv, StartUpInv, vars, clientVars
<1>3. CASE SetConfiguration
  BY <1>3 DEF SetConfiguration, InstanceInv, StartUpInv, vars, clientVars
<1>4. CASE Listen
  BY <1>4 DEF Listen, Goes, InstanceInv, StartUpInv, vars, clientVars
<1> QED
  BY <1>1, <1>2, <1>3, <1>4 DEF StartUpStep

LEMMA NextKeepsIInv == IInv /\ [MainNext]_allVars => IInv'
<1> SUFFICES ASSUME IInv, [MainNext]_allVars
             PROVE  IInv'
  OBVIOUS
<1> USE DEF IInv
<1>1. CASE PollClients \/ PollServers
  <2>1. startUp \in {"clients", "servers"} /\ startUp' \in {"clients", "servers"}
    BY <1>1 DEF PollClients, PollServers, Goes
  <2>2. /\ getting' = getting /\ instance' = instance /\ mtxInstance' = mtxInstance
        /\ registry' = registry /\ configured' = configured /\ accepting' = accepting
    BY <1>1 DEF PollClients, PollServers, Goes
  <2> QED
    BY <2>1, <2>2 DEF InstanceInv, StartUpInv
<1>2. CASE AcceptThread
  <2>1. UNCHANGED mainVars /\ accepting = TRUE
    BY <1>2 DEF AcceptThread
  <2> QED
    BY <2>1 DEF mainVars, InstanceInv, StartUpInv
<1>3. CASE \/ \E d \in Dao : QueueReader(d)
           \/ \E c \in Client : PeerGone(c) /\ UNCHANGED mainVars
  <2>1. UNCHANGED mainVars /\ alive' \subseteq alive
    BY <1>3, OnlyAcceptAdds DEF QueueReader
  <2> QED
    BY <2>1 DEF mainVars, InstanceInv, StartUpInv
<1>4. CASE UNCHANGED allVars
  BY <1>4 DEF allVars, vars, clientVars, mainVars, InstanceInv, StartUpInv
<1> QED
  BY <1>1, <1>2, <1>3, <1>4, GetInstanceKeepsIInv, StartUpKeepsIInv DEF MainNext

LEMMA AlwaysIInv == MainSpec => []IInv
BY InitIInv, NextKeepsIInv, PTL DEF MainSpec

(* All threads have one registry although they test the pointer without    *)
(* the lock, and it is configured before the first client is constructed.  *)
THEOREM RegistryIsOne == MainSpec => []OneRegistry
<1>1. IInv => OneRegistry
  BY DEF IInv, InstanceInv, StartUpInv, OneRegistry
<1> QED
  BY <1>1, AlwaysIInv, PTL

-----------------------------------------------------------------------------
(* The clients of a running server are those of ARSTClients.              *)

LEMMA StepOfClients ==
  ASSUME [MainNext]_allVars
  PROVE  [Next]_vars
<1>1. CASE StartUpStep \/ PollServers \/ (\E t \in Caller : GetInstance(t)) \/ UNCHANGED allVars
  BY <1>1 DEF StartUpStep, ReadClientConfigFile, ReadConfigFile, StartUpServers,
              ReadQueueDAOConfigFile, StartUpDAOs, SetConfiguration, Listen, PollServers, Goes,
              GetInstance, FirstTest, LockInstance, SecondTest, UnlockInstance, In, allVars
<1>2. CASE ~undefined /\ (PollClients \/ AcceptThread)
  BY <1>2 DEF PollClients, AcceptThread, Next
<1>3. CASE ~undefined /\ \E d \in Dao : QueueReader(d)
  BY <1>3 DEF QueueReader, Next
<1>4. CASE ~undefined /\ \E c \in Client : PeerGone(c)
  BY <1>4 DEF Next
<1> QED
  BY <1>1, <1>2, <1>3, <1>4 DEF MainNext, Running

(* Whatever main, the accept thread and the queue readers do is a step of  *)
(* ARSTClients, so that its theorems hold of the server.                   *)
THEOREM ServerRunsClients == MainSpec => Spec
<1>1. MainInit => Init
  BY DEF MainInit
<1> QED
  BY <1>1, StepOfClients, PTL DEF MainSpec, Spec

(* In the running server: no two clients in service share a descriptor,    *)
(* none is left open, none is closed for another, and nobody else is       *)
(* missed.                                                                 *)
THEOREM ServerKeepsClients ==
  MainSpec => [](OneOwner /\ NoDescriptorLeak /\ NobodyElseMissed) /\ ClosesItsOwn
BY ServerRunsClients, DescriptorsHaveOneOwner, DescriptorsAreClosed, NobodyIsMissed,
   MainClosesItsOwn, PTL

(* In a server with one queue reader: every line goes to its client, whole *)
(* and once.                                                               *)
THEOREM ServerKeepsLines ==
  ASSUME OneReader
  PROVE  MainSpec => [](SentToItsOwn /\ WholeLines) /\ NoLineTwice
BY ServerRunsClients, LinesGoToTheirClient, LinesStayWhole, LinesGoOnce, PTL

-----------------------------------------------------------------------------
MainVarsOK ==
  /\ startUp \in StartUp
  /\ mtxInstance \in Caller \cup {NoRegistry}
  /\ configured \subseteq Caller
  /\ sssStatus \in {"sssNone", "sssListening", "sssShutdown"}
  /\ accepting \in BOOLEAN

LEMMA NextMainVarsOK ==
  ASSUME IInv, MainVarsOK, [MainNext]_allVars
  PROVE  MainVarsOK'
<1> USE DEF MainVarsOK, StartUp
<1>1. ASSUME NEW t \in Caller, GetInstance(t)
      PROVE  MainVarsOK'
  BY <1>1 DEF GetInstance, FirstTest, LockInstance, SecondTest, UnlockInstance, In
<1>2. CASE StartUpStep
  <2>1. CASE SetConfiguration
    <3>1. registry["main"] \in Caller
      BY <2>1, MainIsCaller DEF SetConfiguration, IInv, InstanceInv
    <3> QED
      BY <2>1, <3>1 DEF SetConfiguration
  <2>2. CASE Listen
    BY <2>2 DEF Listen, Goes
  <2>3. CASE ReadClientConfigFile \/ ReadConfigFile \/ StartUpServers \/ ReadQueueDAOConfigFile
             \/ StartUpDAOs
    BY <2>3 DEF ReadClientConfigFile, ReadConfigFile, StartUpServers, ReadQueueDAOConfigFile,
                StartUpDAOs, Goes
  <2> QED
    BY <1>2, <2>1, <2>2, <2>3 DEF StartUpStep
<1>3. CASE PollClients \/ PollServers
  BY <1>3 DEF PollClients, PollServers, Goes
<1>4. CASE UNCHANGED mainVars
  BY <1>4 DEF mainVars
<1> QED
  BY <1>1, <1>2, <1>3, <1>4 DEF MainNext, AcceptThread, QueueReader, allVars

(* Every variable of the process keeps its type.                          *)
THEOREM MainTypeCorrect == MainSpec => []MainTypeOK
<1>1. MainInit => MainVarsOK
  BY DEF MainInit, MainVarsOK, StartUp
<1>2. IInv /\ MainVarsOK /\ [MainNext]_allVars => MainVarsOK'
  BY NextMainVarsOK
<1>3. IInv /\ MainVarsOK /\ TypeOK => MainTypeOK
  BY DEF IInv, InstanceInv, MainVarsOK, MainTypeOK
<1> QED
  BY <1>1, <1>2, <1>3, AlwaysIInv, ServerRunsClients, ClientsTypeCorrect, PTL DEF MainSpec
=============================================================================
