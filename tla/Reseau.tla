------------------------------- MODULE Reseau --------------------------------
(***************************************************************************)
(* The TCP connections between the shipped client and the daemon, as far   *)
(* as receiveTCP, sendTCP (server.c) and the two functions of client.c use *)
(* them.  Both ends are on the loopback interface (client.h, LOCAL_IP) and *)
(* never have two messages in flight, so a send of at most 2057 bytes is   *)
(* received whole.  The daemon never closes a socket while it lives.       *)
(***************************************************************************)
EXTENDS Sequences, Naturals

CONSTANT Clients

VARIABLES
    montant,     \* montant[c]: sent by client c, not yet received
    descendant,  \* descendant[c]: sent to client c, not yet received
    ouvert,      \* ouvert[c]: client c has not closed its end
    rst,         \* rst[c]: the daemon's end of c was reset
    vif,         \* the daemon process is alive
    rstClient    \* rstClient[c]: the client's end was reset

reseau == <<montant, descendant, ouvert, rst, vif, rstClient>>

ReseauInit == /\ montant = [c \in Clients |-> <<>>]
              /\ descendant = [c \in Clients |-> <<>>]
              /\ ouvert = [c \in Clients |-> FALSE]
              /\ rst = [c \in Clients |-> FALSE]
              /\ vif = TRUE
              /\ rstClient = [c \in Clients |-> FALSE]

-----------------------------------------------------------------------------
(* recv(): blocks until there is a message or the other end is gone; then  *)
(* it returns 0 or -1 and leaves the buffer as it was.  No caller looks at *)
(* the result.                                                             *)
ServeurPeutRecevoir(c) == montant[c] # <<>> \/ ~ouvert[c]
ServeurRecu(c, tampon) == IF montant[c] # <<>> THEN Head(montant[c]) ELSE tampon
ServeurRetire(c) ==
    /\ montant' = IF montant[c] # <<>>
                  THEN [montant EXCEPT ![c] = Tail(@)] ELSE montant
    /\ UNCHANGED <<descendant, ouvert, rst, vif, rstClient>>

ClientPeutRecevoir(c) == descendant[c] # <<>> \/ ~vif
ClientRecu(c, tampon) ==
    IF descendant[c] # <<>> THEN Head(descendant[c]) ELSE tampon
ClientRetire(c) ==
    /\ descendant' = IF descendant[c] # <<>>
                     THEN [descendant EXCEPT ![c] = Tail(@)] ELSE descendant
    /\ UNCHANGED <<montant, ouvert, rst, vif, rstClient>>

(* send() with no flags: to an end that is gone the first one is answered  *)
(* by a reset, the next one raises SIGPIPE, which nobody handles.          *)
ServeurEnvoie(c, m) ==
    \/ /\ ouvert[c]
       /\ descendant' = [descendant EXCEPT ![c] = Append(@, m)]
       /\ UNCHANGED <<montant, ouvert, rst, vif, rstClient>>
    \/ /\ ~ouvert[c] /\ ~rst[c]
       /\ rst' = [rst EXCEPT ![c] = TRUE]
       /\ UNCHANGED <<montant, descendant, ouvert, vif, rstClient>>
    \/ /\ rst[c]
       /\ vif' = FALSE
       /\ rstClient' = [d \in Clients |-> rstClient[d] \/ montant[d] # <<>>]
       /\ UNCHANGED <<montant, descendant, ouvert, rst>>

ClientSigpipe(c) == ~vif /\ rstClient[c]
ClientEnvoie(c, m) ==
    \/ /\ vif
       /\ montant' = [montant EXCEPT ![c] = Append(@, m)]
       /\ UNCHANGED <<descendant, ouvert, rst, vif, rstClient>>
    \/ /\ ~vif /\ ~rstClient[c]
       /\ rstClient' = [rstClient EXCEPT ![c] = TRUE]
       /\ UNCHANGED <<montant, descendant, ouvert, rst, vif>>

(* close(), by destroyClient or by the kernel when the client dies: what   *)
(* the client had not received makes the kernel reset the connection.      *)
ClientFerme(c) ==
    /\ ouvert' = [ouvert EXCEPT ![c] = FALSE]
    /\ rst' = [rst EXCEPT ![c] = @ \/ descendant[c] # <<>>]
    /\ UNCHANGED <<montant, descendant, vif, rstClient>>
=============================================================================
