----------------------------- MODULE SshSession ------------------------------
(***************************************************************************)
(* Clients and service threads together: several clients of one daemon,    *)
(* each on its own connection, the threads sharing one process and so one  *)
(* set of children and one life.                                           *)
(***************************************************************************)
EXTENDS Ping

vars == <<reseau, clients, fils, enfants>>

Init == ReseauInit /\ ClientInit /\ PingInit

ClientStep(c) == ClientNext(c) /\ UNCHANGED <<fils, enfants>>
ThreadStep(s) == PingNext(s) /\ UNCHANGED clients
EnfantStep(p) == Finir(p) /\ UNCHANGED clients

\* Every client has left.
Repos == (\A c \in Clients : pcC[c] = "fini") /\ UNCHANGED vars

Next == \/ \E c \in Clients : ClientStep(c) \/ ThreadStep(c)
        \/ \E p \in Pids : EnfantStep(p)
        \/ Repos

Spec == Init /\ [][Next]_vars

(* The scheduler runs every thread, every client that has something to     *)
(* receive and every child.  wait() is served to each thread that keeps    *)
(* asking: a thread is not passed over for ever while children end.        *)
Fairness ==
    /\ \A c \in Clients :
          /\ WF_vars((RecevoirAuth(c) \/ RecevoirReponse(c))
                        /\ UNCHANGED <<fils, enfants>>)
          /\ WF_vars(ThreadStep(c))
          /\ SF_vars(Attendre(c) /\ UNCHANGED clients)
    /\ \A p \in Pids : WF_vars(EnfantStep(p))

FairSpec == Spec /\ Fairness

-----------------------------------------------------------------------------
TypeMessage == [h : {0, REQUEST, FAILURE, SUCCESS, CHANNEL},
                x : Commandes \cup MotsDePasse \cup {"", "exit"}]

TypeOK ==
    /\ montant \in [Clients -> Seq(TypeMessage)]
    /\ descendant \in [Clients -> Seq(TypeMessage)]
    /\ ouvert \in [Clients -> BOOLEAN] /\ rst \in [Clients -> BOOLEAN]
    /\ rstClient \in [Clients -> BOOLEAN] /\ vif \in BOOLEAN
    /\ pcC \in [Clients -> {"dehors", "motDePasse", "attAuth", "commande",
                            "attReponse", "ferme", "fini"}]
    /\ authResult \in [Clients -> {0, FAILURE, SUCCESS}]
    /\ command \in [Clients -> Commandes \cup {""}]
    /\ receive \in [Clients -> Commandes \cup {""}]
    /\ identifies \subseteq Clients /\ interrompus \subseteq Clients
    /\ pcS \in [Clients -> {"absent", "auth", "repAuth", "session", "execute",
                            "attente", "reponse", "fini"}]
    /\ authRequest \in [Clients -> TypeMessage]
    /\ recue \in [Clients -> TypeMessage]
    /\ succes \in [Clients -> BOOLEAN]
    /\ etat \in [Pids -> {"libre", "vivant", "zombie"}]
    /\ mien \in [Clients -> Pids \cup {Aucun}]
    /\ finie \in [Clients -> BOOLEAN]

(* wait(NULL) mixes up the children of the threads, but never loses count: *)
(* the children not reaped are no more than the threads waiting, so none   *)
(* is left as a zombie once no thread is executing a command.              *)
Attendent == {s \in Clients : pcS[s] = "attente"}
EnfantsComptes == Cardinality(Enfants) <= Cardinality(Attendent)

(* A thread runs a command only for a client that gave the password on     *)
(* that connection, although its buffers may still hold those of a thread  *)
(* that ended and a failed recv leaves them in place.                      *)
AuthAvantExecution ==
    \A s \in Clients : pcS[s] \in {"execute", "attente"} => s \in identifies

(* Request and answer go in lockstep: a live client that waits has one     *)
(* message on its way, in one direction or in its thread's hands, and the  *)
(* echo that comes back is that of its own command.                        *)
EnMain(s) == pcS[s] \in {"execute", "attente", "reponse"}
Echange(c) ==
    pcC[c] = "attReponse" /\ vif =>
        /\ Len(montant[c]) + Len(descendant[c]) + (IF EnMain(c) THEN 1 ELSE 0) = 1
        /\ \A m \in {Head(q) : q \in {montant[c], descendant[c]} \ {<<>>}} :
              m = Message(command[c])
        /\ EnMain(c) => recue[c] = Message(command[c])
PasAPas == \A c \in Clients : Echange(c)

(* The daemon dies, for all its clients, only if one of them was killed by *)
(* its user: those that leave with "exit" never make it send to a closed   *)
(* connection.                                                             *)
DemonVit == ~vif => interrompus # {}

(* The promise of RemoteExec, kept whatever clients and children do.       *)
PhaseDe(c) ==
    CASE pcC[c] \in {"dehors", "motDePasse", "attAuth"} -> "auth"
      [] pcC[c] = "commande" -> "pret"
      [] pcC[c] = "attReponse" ->
            IF \/ descendant[c] # <<>>
               \/ vif /\ pcS[c] \in {"attente", "reponse"}
            THEN "traite" ELSE "demande"
      [] OTHER -> "parti"
Service == INSTANCE RemoteExec WITH
              phase <- [c \in Clients |-> PhaseDe(c)],
              commande <- command, reponse <- receive, panne <- ~vif
RendService == Service!RSpec

(* Every client that waits goes on: its answer comes, or the daemon's end  *)
(* of the connection is closed.                                            *)
ClientRepart ==
    \A c \in Clients : pcC[c] \in {"attAuth", "attReponse"} ~>
                       pcC[c] \notin {"attAuth", "attReponse"}

(* "Lorsque la commande sera terminee le serveur repondra" (enonce.pdf p.  *)
(* 7): a thread answers a request once the command it ran has ended.       *)
ReponseApresFin == \A s \in Clients : pcS[s] = "reponse" => finie[s]
=============================================================================
