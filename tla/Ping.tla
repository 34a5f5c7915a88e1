-------------------------------- MODULE Ping ---------------------------------
(***************************************************************************)
(* The daemon's service threads, ping of daemon.c, and the child processes *)
(* they share.  Thread s serves connection s: how a thread gets its socket *)
(* is AcceptLoop.  A thread authenticates its client, then, for every      *)
(* message whose header is CHANNEL, runs `myls` through executerCommande   *)
(* of tinyShell.c (one word, no pipe: a single fork), waits with           *)
(* wait(NULL), which reaps a child of any thread, and echoes the message.  *)
(***************************************************************************)
EXTENDS Client, FiniteSets

CONSTANTS Pids,        \* process identifiers
          ForkEchoue   \* whether fork() may fail although a pid is free

ASSUME FinitudeAssumption ==
    IsFiniteSet(Clients) /\ IsFiniteSet(Pids) /\ ForkEchoue \in BOOLEAN

VARIABLES
    pcS,          \* where each thread is
    authRequest,  \* each thread's request buffer
    succes,       \* authResult.header = SUCCESS
    recue,        \* each thread's message buffer, `receive` in the source
    etat,         \* the child processes
    mien,         \* mien[s]: the child of the request in hand, if any
    finie         \* history: that child has ended

fils == <<pcS, authRequest, succes, recue>>
enfants == <<etat, mien, finie>>

Aucun == "aucun"                 \* no child
Enfants == {p \in Pids : etat[p] # "libre"}
Zombies == {p \in Pids : etat[p] = "zombie"}

PingInit == /\ pcS = [s \in Clients |-> "absent"]
            /\ authRequest = [s \in Clients |-> Vide]
            /\ succes = [s \in Clients |-> FALSE]
            /\ recue = [s \in Clients |-> Vide]
            /\ etat = [p \in Pids |-> "libre"]
            /\ mien = [s \in Clients |-> Aucun]
            /\ finie = [s \in Clients |-> TRUE]

SVa(s, ou) == pcS' = [pcS EXCEPT ![s] = ou]

(* The thread starts.  Its buffers are not initialised: a fresh stack is   *)
(* zero, and the stack of a thread that has ended may be used again.       *)
Demarrer(s) ==
    /\ vif /\ pcS[s] = "absent" /\ pcC[s] # "dehors"
    /\ SVa(s, "auth")
    /\ \/ UNCHANGED <<authRequest, recue>>
       \/ \E f \in Clients :
             /\ pcS[f] = "fini"
             /\ authRequest' = [authRequest EXCEPT ![s] = authRequest[f]]
             /\ recue' = [recue EXCEPT ![s] = recue[f]]
    /\ UNCHANGED <<succes, reseau, enfants>>

-----------------------------------------------------------------------------
(* Lines 30 to 45.                                                         *)
\* Mutant: the password is not compared.
RecevoirDemandeMutant(s) ==
    /\ vif /\ pcS[s] = "auth" /\ ServeurPeutRecevoir(s)
    /\ LET r == ServeurRecu(s, authRequest[s]) IN
       /\ authRequest' = [authRequest EXCEPT ![s] = r]
       /\ succes' = [succes EXCEPT ![s] = @ \/ r.h = REQUEST]
    /\ ServeurRetire(s)
    /\ SVa(s, "repAuth")
    /\ UNCHANGED <<recue, enfants>>

RecevoirDemande(s) ==
    /\ vif /\ pcS[s] = "auth" /\ ServeurPeutRecevoir(s)
    /\ LET r == ServeurRecu(s, authRequest[s]) IN
       /\ authRequest' = [authRequest EXCEPT ![s] = r]
       /\ succes' = [succes EXCEPT ![s] = @ \/ (r.h = REQUEST /\ r.x = "mdp")]
    /\ ServeurRetire(s)
    /\ SVa(s, "repAuth")
    /\ UNCHANGED <<recue, enfants>>

\* Mutants: the request is echoed; every answer says SUCCESS.
RepondreAuthEcho(s) ==
    /\ vif /\ pcS[s] = "repAuth"
    /\ ServeurEnvoie(s, authRequest[s])
    /\ SVa(s, IF succes[s] THEN "session" ELSE "auth")
    /\ UNCHANGED <<authRequest, succes, recue, enfants>>
RepondreAuthOui(s) ==
    /\ vif /\ pcS[s] = "repAuth"
    /\ ServeurEnvoie(s, [h |-> SUCCESS, x |-> ""])
    /\ SVa(s, IF succes[s] THEN "session" ELSE "auth")
    /\ UNCHANGED <<authRequest, succes, recue, enfants>>

RepondreAuth(s) ==
    /\ vif /\ pcS[s] = "repAuth"
    /\ ServeurEnvoie(s, [h |-> IF succes[s] THEN SUCCESS ELSE FAILURE, x |-> ""])
    /\ SVa(s, IF succes[s] THEN "session" ELSE "auth")
    /\ UNCHANGED <<authRequest, succes, recue, enfants>>

(* Lines 49 to 78.  A failed recv leaves the previous message in hand.     *)
\* Mutant: "exit" is a message like the others.
RecevoirMessageMutant(s) ==
    /\ vif /\ pcS[s] = "session" /\ ServeurPeutRecevoir(s)
    /\ LET r == ServeurRecu(s, recue[s]) IN
       /\ recue' = [recue EXCEPT ![s] = r]
       /\ SVa(s, IF r.h = CHANNEL THEN "execute" ELSE "reponse")
    /\ ServeurRetire(s)
    /\ UNCHANGED <<authRequest, succes, enfants>>

RecevoirMessage(s) ==
    /\ vif /\ pcS[s] = "session" /\ ServeurPeutRecevoir(s)
    /\ LET r == ServeurRecu(s, recue[s]) IN
       /\ recue' = [recue EXCEPT ![s] = r]
       /\ SVa(s, IF r.x = "exit" THEN "fini"
                 ELSE IF r.h = CHANNEL THEN "execute" ELSE "reponse")
    /\ ServeurRetire(s)
    /\ UNCHANGED <<authRequest, succes, enfants>>

Executer(s, p) ==
    /\ vif /\ pcS[s] = "execute" /\ etat[p] = "libre"
    /\ etat' = [etat EXCEPT ![p] = "vivant"]
    /\ mien' = [mien EXCEPT ![s] = p]
    /\ finie' = [finie EXCEPT ![s] = FALSE]
    /\ SVa(s, "attente")
    /\ UNCHANGED <<authRequest, succes, recue, reseau>>

\* fork() = -1 goes unnoticed; the thread still waits for a child.
ForkRate(s) ==
    /\ vif /\ pcS[s] = "execute"
    /\ ForkEchoue \/ Enfants = Pids
    /\ SVa(s, "attente")
    /\ UNCHANGED <<authRequest, succes, recue, reseau, enfants>>

\* wait(NULL), in any thread, for any child of the process.
Oublie(p) == mien' = [s \in Clients |-> IF mien[s] = p THEN Aucun ELSE mien[s]]

\* Mutants: wait that does not block (WNOHANG); wait that never fails.
AttendreSansBloquer(s) ==
    /\ vif /\ pcS[s] = "attente"
    /\ UNCHANGED enfants
    /\ SVa(s, "reponse")
    /\ UNCHANGED <<authRequest, succes, recue, reseau>>
AttendreToujours(s) ==
    /\ vif /\ pcS[s] = "attente"
    /\ \E p \in Zombies : /\ etat' = [etat EXCEPT ![p] = "libre"]
                          /\ Oublie(p)
                          /\ UNCHANGED finie
    /\ SVa(s, "reponse")
    /\ UNCHANGED <<authRequest, succes, recue, reseau>>

Attendre(s) ==
    /\ vif /\ pcS[s] = "attente"
    /\ \/ Enfants = {} /\ UNCHANGED enfants
       \/ \E p \in Zombies : /\ etat' = [etat EXCEPT ![p] = "libre"]
                             /\ Oublie(p)
                             /\ UNCHANGED finie
    /\ SVa(s, "reponse")
    /\ UNCHANGED <<authRequest, succes, recue, reseau>>

\* Mutant: the echo carries no command.
RepondreMutant(s) ==
    /\ vif /\ pcS[s] = "reponse"
    /\ ServeurEnvoie(s, [recue[s] EXCEPT !.x = ""])
    /\ SVa(s, "session")
    /\ UNCHANGED <<authRequest, succes, recue, enfants>>

Repondre(s) ==
    /\ vif /\ pcS[s] = "reponse"
    /\ ServeurEnvoie(s, recue[s])
    /\ SVa(s, "session")
    /\ UNCHANGED <<authRequest, succes, recue, enfants>>

\* A child ends; it survives the daemon.
Finir(p) ==
    /\ etat[p] = "vivant"
    /\ etat' = [etat EXCEPT ![p] = "zombie"]
    /\ finie' = [s \in Clients |-> finie[s] \/ mien[s] = p]
    /\ UNCHANGED <<mien, fils, reseau>>

Authentifie(s) == RecevoirDemande(s) \/ RepondreAuth(s)
Sert(s) == \/ RecevoirMessage(s)
           \/ \E p \in Pids : Executer(s, p)
           \/ ForkRate(s) \/ Attendre(s) \/ Repondre(s)
PingNext(s) == Demarrer(s) \/ Authentifie(s) \/ Sert(s)
=============================================================================
