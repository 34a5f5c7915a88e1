----------------------------- MODULE RemoteExec ------------------------------
(***************************************************************************)
(* What the remote shell promises a client (enonce.pdf p. 4, 5 and 7): no  *)
(* command is accepted from a client that has not identified itself; each  *)
(* command is handled by the server before it is answered, answered once,  *)
(* and the answer is to that command.  A server that is lost gives no      *)
(* answer, and the client goes on with what it had.                        *)
(***************************************************************************)
CONSTANTS Clients, Commandes

VARIABLES phase,       \* phase[c]
          commande,    \* commande[c]: the last command sent
          reponse,     \* reponse[c]: the last answer received
          identifies,  \* the clients that have given the password
          panne        \* the server is lost

rvars == <<phase, commande, reponse, identifies, panne>>

RInit == /\ phase = [c \in Clients |-> "auth"]
         /\ commande = [c \in Clients |-> ""]
         /\ reponse = [c \in Clients |-> ""]
         /\ identifies = {} /\ panne = FALSE

Passe(c, de, a) == phase[c] = de /\ phase' = [phase EXCEPT ![c] = a]

Identifier(c) == /\ phase[c] = "auth"
                 /\ identifies' = identifies \cup {c}
                 /\ UNCHANGED <<phase, commande, reponse, panne>>

Admettre(c) == /\ c \in identifies
               /\ Passe(c, "auth", "pret")
               /\ UNCHANGED <<commande, reponse, identifies, panne>>

Demander(c, x) == /\ Passe(c, "pret", "demande")
                  /\ commande' = [commande EXCEPT ![c] = x]
                  /\ UNCHANGED <<reponse, identifies, panne>>

Traiter(c) == /\ ~panne
              /\ Passe(c, "demande", "traite")
              /\ UNCHANGED <<commande, reponse, identifies, panne>>

Repondre(c) == /\ Passe(c, "traite", "pret")
               /\ reponse' = [reponse EXCEPT ![c] = commande[c]]
               /\ UNCHANGED <<commande, identifies, panne>>

Abandonner(c) == /\ panne
                 /\ Passe(c, "demande", "pret") \/ Passe(c, "traite", "pret")
                 /\ UNCHANGED <<commande, reponse, identifies, panne>>

Partir(c) == /\ phase[c] # "parti"
             /\ phase' = [phase EXCEPT ![c] = "parti"]
             /\ UNCHANGED <<commande, reponse, identifies, panne>>

\* The server is lost, and with it what it had handled and not answered.
Perdre == \E perdus \in SUBSET {c \in Clients : phase[c] = "traite"} :
             /\ panne' = TRUE
             /\ phase' = [c \in Clients |->
                            IF c \in perdus THEN "demande" ELSE phase[c]]
             /\ UNCHANGED <<commande, reponse, identifies>>

RNext == \/ Perdre
         \/ \E c \in Clients :
               \/ Identifier(c) \/ Admettre(c) \/ Traiter(c) \/ Repondre(c)
               \/ Abandonner(c) \/ Partir(c)
               \/ \E x \in Commandes : Demander(c, x)

RSpec == RInit /\ [][RNext]_rvars
=============================================================================
