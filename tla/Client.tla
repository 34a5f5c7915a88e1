------------------------------- MODULE Client --------------------------------
(***************************************************************************)
(* The client, lancerClient of client.c: ask for a password until the      *)
(* daemon's answer says SUCCESS, then send commands and wait for the echo  *)
(* of each.  The results of recv are not looked at, so that an answer that *)
(* never comes leaves the previous one in the buffer.                      *)
(*                                                                         *)
(* line 59 tests authResult.header before anything was stored in it.  The  *)
(* loop is taken to be entered: the builds of the client do enter it.      *)
(***************************************************************************)
EXTENDS Reseau

CONSTANTS Commandes,        \* commands other than "exit"
          Interruptibles    \* clients whose user may kill them

ASSUME CommandesAssumption == "exit" \notin Commandes

REQUEST == 50
FAILURE == 51
SUCCESS == 52
CHANNEL == 98

AuthMessage(x) == [h |-> REQUEST, x |-> x]
Message(x) == [h |-> CHANNEL, x |-> x]
Vide == [h |-> 0, x |-> ""]
MotsDePasse == {"mdp", "faux"}

VARIABLES
    pcC,         \* where each client is
    authResult,  \* the last header received while authenticating
    command,     \* send.command
    receive,     \* the command echoed by the daemon
    identifies,  \* history: clients that typed the right password
    interrompus  \* history: clients that were killed

clients == <<pcC, authResult, command, receive, identifies, interrompus>>

ClientInit == /\ pcC = [c \in Clients |-> "dehors"]
              /\ authResult = [c \in Clients |-> 0]
              /\ command = [c \in Clients |-> ""]
              /\ receive = [c \in Clients |-> ""]
              /\ identifies = {} /\ interrompus = {}

Va(c, ou) == pcC' = [pcC EXCEPT ![c] = ou]

\* createClientTcp and connect; without a daemon the client exits.
Connecter(c) ==
    /\ pcC[c] = "dehors"
    /\ IF vif THEN Va(c, "motDePasse") /\ ouvert' = [ouvert EXCEPT ![c] = TRUE]
              ELSE Va(c, "fini") /\ UNCHANGED ouvert
    /\ UNCHANGED <<montant, descendant, rst, vif, rstClient, authResult,
                   command, receive, identifies, interrompus>>

EnvoyerMdp(c, mdp) ==
    /\ pcC[c] = "motDePasse"
    /\ ClientEnvoie(c, AuthMessage(mdp))
    /\ Va(c, "attAuth")
    /\ identifies' = identifies \cup (IF mdp = "mdp" THEN {c} ELSE {})
    /\ UNCHANGED <<authResult, command, receive, interrompus>>

RecevoirAuth(c) ==
    /\ pcC[c] = "attAuth" /\ ClientPeutRecevoir(c)
    /\ LET r == ClientRecu(c, [h |-> authResult[c], x |-> ""]) IN
       /\ authResult' = [authResult EXCEPT ![c] = r.h]
       /\ Va(c, IF r.h = SUCCESS THEN "commande" ELSE "motDePasse")
    /\ ClientRetire(c)
    /\ UNCHANGED <<command, receive, identifies, interrompus>>

EnvoyerCommande(c, x) ==
    /\ pcC[c] = "commande"
    /\ ClientEnvoie(c, Message(x))
    /\ command' = [command EXCEPT ![c] = x]
    /\ Va(c, "attReponse")
    /\ UNCHANGED <<authResult, receive, identifies, interrompus>>

RecevoirReponse(c) ==
    /\ pcC[c] = "attReponse" /\ ClientPeutRecevoir(c)
    /\ LET r == ClientRecu(c, Message(receive[c])) IN
       receive' = [receive EXCEPT ![c] = r.x]
    /\ ClientRetire(c)
    /\ Va(c, "commande")
    /\ UNCHANGED <<authResult, command, identifies, interrompus>>

\* "exit": one last send, then destroyClient, in two steps.
EnvoyerExit(c) ==
    /\ pcC[c] = "commande"
    /\ ClientEnvoie(c, Message("exit"))
    /\ Va(c, "ferme")
    /\ UNCHANGED <<authResult, command, receive, identifies, interrompus>>

Fermer(c) ==
    /\ pcC[c] = "ferme"
    /\ ClientFerme(c)
    /\ Va(c, "fini")
    /\ UNCHANGED <<authResult, command, receive, identifies, interrompus>>

(* The process ends anywhere: SIGPIPE on a send to a dead daemon, or the   *)
(* user's interrupt, for which the client has no handler.                  *)
Connecte(c) == pcC[c] \notin {"dehors", "fini"}

Mourir(c) ==
    /\ \/ /\ Connecte(c) /\ c \in Interruptibles
          /\ interrompus' = interrompus \cup {c}
       \/ /\ pcC[c] \in {"motDePasse", "commande"} /\ ClientSigpipe(c)
          /\ UNCHANGED interrompus
    /\ ClientFerme(c)
    /\ Va(c, "fini")
    /\ UNCHANGED <<authResult, command, receive, identifies>>

ClientNext(c) ==
    \/ Connecter(c)
    \/ \E mdp \in MotsDePasse : EnvoyerMdp(c, mdp)
    \/ RecevoirAuth(c)
    \/ \E x \in Commandes : EnvoyerCommande(c, x)
    \/ RecevoirReponse(c) \/ EnvoyerExit(c) \/ Fermer(c) \/ Mourir(c)
=============================================================================
