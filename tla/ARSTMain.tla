------------------------------ MODULE ARSTMain ------------------------------
(***************************************************************************)
(* The quote server's process as its clients see it: main() from the       *)
(* configuration to its polling loop, the ARSTClients singleton that main, *)
(* the queue readers and the accept thread all ask for, the listening      *)
(* socket, and, once these are there, the clients of module ARSTClients.   *)
(* The upstream connections are module ARSTWebConns; here they are the two *)
(* places where main is busy with them.                                    *)
(***************************************************************************)
EXTENDS ARSTClients

CONSTANT NoRegistry  (* NULL                                               *)

(* The threads that call ARSTClients::GetInstance while there may be no    *)
(* instance; each would construct its own object, known by the thread.     *)
Caller == Dao \cup {"main"}

ASSUME MainAssumption == NoRegistry \notin Caller /\ "main" \notin Dao

VARIABLES
  startUp,    (* how far main has come                                     *)
  getting,    (* where each thread is in GetInstance                       *)
  instance,   (* ARSTClients::instance                                     *)
  mtxInstance,(* holder of ms_mtxInstance                                  *)
  registry,   (* what GetInstance has returned to each thread              *)
  configured, (* objects whose SetConfiguration has stored its arguments   *)
  sssStatus,  (* m_ServerSocketStatus of the listening socket              *)
  accepting   (* the accept thread runs                                    *)

mainVars == <<startUp, getting, instance, mtxInstance, registry, configured, sssStatus,
              accepting>>
allVars == <<vars, mainVars>>

StartUp == {"client config", "exchange config", "upstream", "queue config", "daos",
            "registry", "configure", "listen", "clients", "servers", "ended"}

MainTypeOK ==
  /\ TypeOK
  /\ startUp \in StartUp
  /\ getting \in [Caller -> {"not called", "first test", "lock", "second test", "unlock",
                             "returned"}]
  /\ instance \in Caller \cup {NoRegistry}
  /\ mtxInstance \in Caller \cup {NoRegistry}
  /\ registry \in [Caller -> Caller \cup {NoRegistry}]
  /\ configured \subseteq Caller
  /\ sssStatus \in {"sssNone", "sssListening", "sssShutdown"}
  /\ accepting \in BOOLEAN

MainInit ==
  /\ Init
  /\ startUp = "client config"
  /\ getting = [t \in Caller |-> "not called"]
  /\ instance = NoRegistry
  /\ mtxInstance = NoRegistry
  /\ registry = [t \in Caller |-> NoRegistry]
  /\ configured = {}
  /\ sssStatus = "sssNone"
  /\ accepting = FALSE

-----------------------------------------------------------------------------
(* main() until it polls.                                                 *)

Goes(from, to) ==
  /\ startUp = from
  /\ startUp' = to
  /\ UNCHANGED <<vars, instance, mtxInstance, registry, configured, sssStatus, accepting>>

(* Each of the three reads ends the process if the file cannot be loaded   *)
(* (exit(1)) or a text is not in it (a string is made from NULL); a number *)
(* that is not in it is 0.                                                 *)
ReadClientConfigFile ==
  /\ Goes("client config", "exchange config") \/ Goes("client config", "ended")
  /\ UNCHANGED getting

ReadConfigFile ==
  /\ Goes("exchange config", "upstream") \/ Goes("exchange config", "ended")
  /\ UNCHANGED getting

(* StartUpServers: the upstream readers run from here on.                 *)
StartUpServers == Goes("upstream", "queue config") /\ UNCHANGED getting

ReadQueueDAOConfigFile ==
  /\ Goes("queue config", "daos") \/ Goes("queue config", "ended")
  /\ UNCHANGED getting

(* StartUpDAOs: the queue readers are threads that begin with GetInstance, *)
(* which main calls next.                                                  *)
StartUpDAOs ==
  /\ Goes("daos", "registry")
  /\ getting' = [t \in Caller |-> "first test"]

-----------------------------------------------------------------------------
(* ARSTClients::GetInstance.                                              *)

In(t, from, to) ==
  /\ getting[t] = from
  /\ getting' = [getting EXCEPT ![t] = to]
  /\ UNCHANGED <<vars, startUp, configured, sssStatus, accepting>>

(* instance is read without the lock.  The store of the pointer is not     *)
(* moved before the constructor's work: it calls pthread_mutex_init.       *)
FirstTest(t) ==
  /\ \/ instance = NoRegistry /\ In(t, "first test", "lock") /\ UNCHANGED registry
     \/ /\ instance # NoRegistry
        /\ In(t, "first test", "returned")
        /\ registry' = [registry EXCEPT ![t] = instance]
  /\ UNCHANGED <<instance, mtxInstance>>

LockInstance(t) ==
  /\ In(t, "lock", "second test")
  /\ mtxInstance = NoRegistry
  /\ mtxInstance' = t
  /\ UNCHANGED <<instance, registry>>

(* Mutant: the instance is not tested again under the lock.               *)
ConstructAnyway(t) ==
  /\ In(t, "second test", "unlock")
  /\ instance' = t
  /\ UNCHANGED <<mtxInstance, registry>>

SecondTest(t) ==
  /\ In(t, "second test", "unlock")
  /\ instance' = IF instance = NoRegistry THEN t ELSE instance
  /\ UNCHANGED <<mtxInstance, registry>>

UnlockInstance(t) ==
  /\ In(t, "unlock", "returned")
  /\ mtxInstance' = NoRegistry
  /\ registry' = [registry EXCEPT ![t] = instance]
  /\ UNCHANGED instance

GetInstance(t) == FirstTest(t) \/ LockInstance(t) \/ SecondTest(t) \/ UnlockInstance(t)

-----------------------------------------------------------------------------
(* ARSTClients::SetConfiguration stores its arguments and makes the socket. *)
SetConfiguration ==
  /\ getting["main"] = "returned"
  /\ startUp = "registry"
  /\ startUp' = "listen"
  /\ configured' = configured \cup {registry["main"]}
  /\ UNCHANGED <<vars, getting, instance, mtxInstance, registry, sssStatus, accepting>>

(* ARSTServerSocket::Listen.  If getaddrinfo fails, the NULL it leaves is  *)
(* read and the process ends.  A bind that fails is only reported, and the *)
(* socket listens at some other port; if listen fails, or OnListening does *)
(* not get its thread, nobody is ever accepted, and main goes on.          *)
Listen ==
  \/ Goes("listen", "ended") /\ UNCHANGED getting
  \/ /\ startUp = "listen"
     /\ startUp' = "clients"
     /\ \/ sssStatus' = "sssListening" /\ accepting' \in BOOLEAN
        \/ sssStatus' = "sssShutdown" /\ UNCHANGED accepting
     /\ UNCHANGED <<vars, getting, instance, mtxInstance, registry, configured>>

(* The loop: CheckClientVector of the clients, then that of the upstream   *)
(* connections, which may take as long as connect() does, then sleep(1).   *)
PollServers ==
  /\ main = "rest"
  /\ Goes("servers", "clients")
  /\ UNCHANGED getting

(* ARSTClients' look at the vector, from its begin to its end.            *)
PollClients ==
  /\ startUp = "clients"
  /\ MainStep
  /\ startUp' = IF main = "walk" /\ main' = "rest" THEN "servers" ELSE "clients"
  /\ UNCHANGED <<getting, instance, mtxInstance, registry, configured, sssStatus, accepting>>

AcceptThread ==
  /\ accepting
  /\ sssStatus = "sssListening"
  /\ Accept \/ AcceptFails \/ PushBackClientToVector
  /\ UNCHANGED mainVars

QueueReader(d) == getting[d] = "returned" /\ DaoStep(d) /\ UNCHANGED mainVars

StartUpStep ==
  \/ ReadClientConfigFile
  \/ ReadConfigFile
  \/ StartUpServers
  \/ ReadQueueDAOConfigFile
  \/ StartUpDAOs
  \/ SetConfiguration
  \/ Listen

(* The process is there, and has done nothing that has no defined outcome. *)
Running == ~undefined /\ startUp # "ended"

MainNext ==
  /\ Running
  /\ \/ StartUpStep
     \/ \E t \in Caller : GetInstance(t)
     \/ PollClients
     \/ PollServers
     \/ AcceptThread
     \/ \E d \in Dao : QueueReader(d)
     \/ \E c \in Client : PeerGone(c) /\ UNCHANGED mainVars

MainSpec == MainInit /\ [][MainNext]_allVars

(* Every thread runs, lines keep coming, send() and connect() return.      *)
(* Nothing makes clients connect or go.                                    *)
MainFairSpec ==
  /\ MainSpec
  /\ WF_allVars(Running /\ accepting /\ PushBackClientToVector /\ UNCHANGED mainVars)
  /\ WF_allVars(Running /\ (PollClients \/ PollServers))
  /\ \A t \in Caller : WF_allVars(Running /\ GetInstance(t))
  /\ \A d \in Dao : WF_allVars(Running /\ QueueReader(d))

-----------------------------------------------------------------------------
(* Whichever thread comes first, and although the pointer is read without  *)
(* the lock: all threads have the same registry, so that a client that is  *)
(* accepted is one the queue readers walk over and main reaps, and it has  *)
(* its configuration before a client takes its heartbeat and name from it. *)
OneRegistry ==
  /\ \A t \in Caller : registry[t] # NoRegistry => registry[t] = instance
  /\ alive # {} => instance \in configured
=============================================================================
