-------------------------- MODULE SshSessionProofs ---------------------------
(***************************************************************************)
(* Theorems about clients, connections, the daemon's threads and the       *)
(* children these share, for every number of clients and every finite set  *)
(* of process identifiers.                                                 *)
(***************************************************************************)
EXTENDS SshSession, FiniteSetTheorems, TLAPS

(* The part of the type invariant that the argument needs.                 *)
TypeFils ==
    /\ pcS \in [Clients -> {"absent", "auth", "repAuth", "session", "execute",
                            "attente", "reponse", "fini"}]
    /\ etat \in [Pids -> {"libre", "vivant", "zombie"}]

IInv == TypeFils /\ EnfantsComptes

(* Both sets that are counted are finite.                                  *)
LEMMA Finis ==
  /\ IsFiniteSet(Enfants) /\ Cardinality(Enfants) \in Nat
  /\ IsFiniteSet(Attendent) /\ Cardinality(Attendent) \in Nat
  BY FinitudeAssumption, FS_Subset, FS_CardinalityType DEF Enfants, Attendent

(* Steps that leave the children and the set of waiting threads alone.     *)
LEMMA Inchanges ==
  ASSUME IInv, UNCHANGED etat, TypeFils',
         \A s \in Clients : (pcS'[s] = "attente") <=> (pcS[s] = "attente")
  PROVE  IInv'
<1>1. Enfants' = Enfants /\ Attendent' = Attendent
  BY DEF Enfants, Attendent
<1> QED
  BY <1>1 DEF IInv, EnfantsComptes

\* A step of thread s that neither starts nor ends a wait.
LEMMA ThreadSansAttente ==
  ASSUME IInv, NEW s \in Clients, UNCHANGED etat,
         NEW ou \in {"auth", "repAuth", "session", "execute", "reponse", "fini"},
         pcS[s] # "attente", SVa(s, ou)
  PROVE  IInv'
<1>1. TypeFils'
  BY DEF IInv, TypeFils, SVa
<1>2. \A q \in Clients : (pcS'[q] = "attente") <=> (pcS[q] = "attente")
  BY DEF IInv, TypeFils, SVa
<1> QED
  BY <1>1, <1>2, Inchanges

(* A thread that starts to wait makes the bound larger by one, with or     *)
(* without a child of its own.                                             *)
LEMMA DebutAttente ==
  ASSUME IInv, NEW s \in Clients, pcS[s] # "attente", SVa(s, "attente")
  PROVE  Cardinality(Attendent') = Cardinality(Attendent) + 1
<1>1. s \notin Attendent /\ Attendent' = Attendent \cup {s}
  BY DEF IInv, TypeFils, SVa, Attendent
<1> QED
  BY <1>1, Finis, FS_AddElement

LEMMA FinAttente ==
  ASSUME IInv, NEW s \in Clients, pcS[s] = "attente", SVa(s, "reponse")
  PROVE  Cardinality(Attendent') = Cardinality(Attendent) - 1
<1>1. s \in Attendent /\ Attendent' = Attendent \ {s}
  BY DEF IInv, TypeFils, SVa, Attendent
<1> QED
  BY <1>1, Finis, FS_RemoveElement

LEMMA ExecuterCompte ==
  ASSUME IInv, NEW s \in Clients, NEW p \in Pids, Executer(s, p)
  PROVE  IInv'
<1>1. TypeFils'
  BY DEF IInv, TypeFils, Executer, SVa
<1>2. p \notin Enfants /\ Enfants' = Enfants \cup {p}
  BY DEF IInv, TypeFils, Executer, Enfants
<1>3. Cardinality(Enfants') = Cardinality(Enfants) + 1
  BY <1>2, Finis, FS_AddElement
<1>4. Cardinality(Attendent') = Cardinality(Attendent) + 1
  BY DebutAttente DEF Executer
<1> QED
  BY <1>1, <1>3, <1>4, Finis DEF IInv, EnfantsComptes

LEMMA ForkRateCompte ==
  ASSUME IInv, NEW s \in Clients, ForkRate(s)
  PROVE  IInv'
<1>1. TypeFils'
  BY DEF IInv, TypeFils, ForkRate, SVa, enfants
<1>2. Enfants' = Enfants
  BY DEF ForkRate, Enfants, enfants
<1>3. Cardinality(Attendent') = Cardinality(Attendent) + 1
  BY DebutAttente DEF ForkRate
<1> QED
  BY <1>1, <1>2, <1>3, Finis DEF IInv, EnfantsComptes

LEMMA AttendreCompte ==
  ASSUME IInv, NEW s \in Clients, Attendre(s)
  PROVE  IInv'
<1>1. Cardinality(Attendent') = Cardinality(Attendent) - 1
  BY FinAttente DEF Attendre
<1>2. s \in Attendent
  BY DEF Attendre, Attendent
<1>3. Cardinality(Attendent) >= 1
  BY <1>2, Finis, FS_EmptySet
<1>4. CASE Enfants = {} /\ UNCHANGED enfants
  <2>1. TypeFils'
    BY <1>4 DEF IInv, TypeFils, Attendre, SVa, enfants
  <2>2. Enfants' = {}
    BY <1>4 DEF Enfants, enfants
  <2>3. Cardinality(Enfants') = 0
    BY <2>2, FS_EmptySet
  <2> QED
    BY <1>1, <1>3, <2>1, <2>3, Finis DEF IInv, EnfantsComptes
<1>5. ASSUME NEW p \in Zombies, etat' = [etat EXCEPT ![p] = "libre"]
      PROVE  IInv'
  <2>1. TypeFils'
    BY <1>5 DEF IInv, TypeFils, Attendre, SVa, Zombies
  <2>2. p \in Enfants /\ Enfants' = Enfants \ {p}
    BY <1>5 DEF IInv, TypeFils, Enfants, Zombies
  <2>3. Cardinality(Enfants') = Cardinality(Enfants) - 1
    BY <2>2, Finis, FS_RemoveElement
  <2> QED
    BY <1>1, <2>1, <2>3, Finis DEF IInv, EnfantsComptes
<1> QED
  BY <1>4, <1>5 DEF Attendre

LEMMA ThreadCompte ==
  ASSUME IInv, NEW s \in Clients, PingNext(s)
  PROVE  IInv'
<1> USE DEF enfants
<1>1. CASE Demarrer(s)
  BY <1>1, ThreadSansAttente DEF Demarrer
<1>2. CASE RecevoirDemande(s)
  BY <1>2, ThreadSansAttente DEF RecevoirDemande
<1>3. CASE RepondreAuth(s)
  BY <1>3, ThreadSansAttente DEF RepondreAuth
<1>4. CASE RecevoirMessage(s)
  BY <1>4, ThreadSansAttente DEF RecevoirMessage
<1>5. CASE Repondre(s)
  BY <1>5, ThreadSansAttente DEF Repondre
<1> QED
  BY <1>1, <1>2, <1>3, <1>4, <1>5, ExecuterCompte, ForkRateCompte,
     AttendreCompte DEF PingNext, Authentifie, Sert

(* wait(NULL) in every thread loses no child: whoever reaps it, what is    *)
(* left never outnumbers the threads that still wait.                      *)
THEOREM AucunZombieOublie == Spec => []EnfantsComptes
<1>1. Init => IInv
  <2>1. Init => Enfants = {} /\ TypeFils
    BY DEF Init, PingInit, Enfants, TypeFils
  <2> QED
    BY <2>1, FS_EmptySet, Finis DEF IInv, EnfantsComptes
<1>2. IInv /\ [Next]_vars => IInv'
  <2> SUFFICES ASSUME IInv, [Next]_vars
               PROVE  IInv'
    OBVIOUS
  <2>1. ASSUME UNCHANGED <<fils, enfants>>
        PROVE  IInv'
    BY <2>1, Inchanges DEF fils, enfants, IInv, TypeFils
  <2>2. ASSUME NEW p \in Pids, Finir(p)
        PROVE  IInv'
    <3>1. Enfants' = Enfants /\ Attendent' = Attendent /\ TypeFils'
      BY <2>2 DEF Finir, fils, IInv, TypeFils, Enfants, Attendent
    <3> QED
      BY <3>1 DEF IInv, EnfantsComptes
  <2> QED
    BY <2>1, <2>2, ThreadCompte
    DEF Next, ClientStep, ThreadStep, EnfantStep, Repos, vars
<1> QED
  BY <1>1, <1>2, PTL DEF Spec, IInv
-----------------------------------------------------------------------------
(* No command before a password.                                           *)
Secret == AuthMessage("mdp")

\* The part of the type invariant that the argument needs.
TypeAuth ==
    /\ montant \in [Clients -> Seq(TypeMessage)]
    /\ ouvert \in [Clients -> BOOLEAN]
    /\ pcC \in [Clients -> {"dehors", "motDePasse", "attAuth", "commande",
                            "attReponse", "ferme", "fini"}]
    /\ pcS \in [Clients -> {"absent", "auth", "repAuth", "session", "execute",
                            "attente", "reponse", "fini"}]
    /\ authRequest \in [Clients -> TypeMessage]
    /\ recue \in [Clients -> TypeMessage]
    /\ succes \in [Clients -> BOOLEAN]
    /\ identifies \subseteq Clients

\* A client that has no connection will never have one again.
Connexions(s) ==
    /\ ouvert[s] <=> pcC[s] \notin {"dehors", "fini"}
    /\ pcC[s] = "dehors" => pcS[s] = "absent"

\* The password on its way was typed by that client.
SecretTape(s) ==
    \A i \in 1 .. Len(montant[s]) : montant[s][i] = Secret => s \in identifies

(* The buffer may hold the password of another client, that of a thread    *)
(* that ended; then the other buffer holds the "exit" that ended it.       *)
SecretHerite(s) ==
    /\ pcS[s] = "fini" => recue[s].x = "exit"
    /\ pcS[s] \in {"absent", "auth", "repAuth"} /\ authRequest[s] = Secret =>
           s \in identifies \/ recue[s].x = "exit"

(* A thread that took it is one whose client left before it wrote, and has *)
(* that "exit" to read.                                                    *)
Reconnu(s) ==
    /\ succes[s] => \/ s \in identifies
                    \/ recue[s].x = "exit" /\ montant[s] = <<>> /\ ~ouvert[s]
    /\ pcS[s] \in {"absent", "auth"} => ~succes[s]
    /\ pcS[s] \in {"session", "execute", "attente", "reponse"} => succes[s]
    /\ EnMain(s) => s \in identifies

AuthDe(s) == Connexions(s) /\ SecretTape(s) /\ SecretHerite(s) /\ Reconnu(s)
AuthInv == TypeAuth /\ \A s \in Clients : AuthDe(s)

(* Queues, and the two kinds of message.                                   *)
LEMMA Ajoute ==
  ASSUME NEW S, NEW q \in Seq(S), NEW m \in S
  PROVE  /\ Append(q, m) \in Seq(S) /\ Len(Append(q, m)) = Len(q) + 1
         /\ \A i \in 1 .. Len(q) : Append(q, m)[i] = q[i]
         /\ Append(q, m)[Len(q) + 1] = m
  OBVIOUS

LEMMA Retire ==
  ASSUME NEW S, NEW q \in Seq(S), q # <<>>
  PROVE  /\ Head(q) = q[1] /\ 1 \in 1 .. Len(q) /\ q[1] \in S
         /\ Tail(q) \in Seq(S)
         /\ \A i \in 1 .. Len(Tail(q)) : i + 1 \in 1 .. Len(q) /\ Tail(q)[i] = q[i + 1]
  OBVIOUS

LEMMA Messages ==
  /\ \A x \in MotsDePasse : AuthMessage(x) \in TypeMessage
  /\ \A x \in Commandes \cup {"exit"} :
         Message(x) \in TypeMessage /\ Message(x) # Secret
  /\ Vide \in TypeMessage /\ Vide # Secret
  /\ AuthMessage("faux") # Secret
  /\ \A m \in TypeMessage : (m.h = REQUEST /\ m.x = "mdp") <=> m = Secret
<1>1. \A m : m = Secret => m.h = 50 /\ m.x = "mdp"
  BY DEF Secret, AuthMessage, REQUEST
<1>2. \A x : AuthMessage(x).h = 50 /\ AuthMessage(x).x = x
             /\ Message(x).h = 98 /\ Message(x).x = x /\ Vide.h = 0
  BY DEF AuthMessage, Message, Vide, REQUEST, CHANNEL
<1>3. ASSUME NEW m \in TypeMessage, m.h = REQUEST, m.x = "mdp" PROVE m = Secret
  BY <1>3 DEF TypeMessage, Secret, AuthMessage
<1>4. /\ \A x \in MotsDePasse : AuthMessage(x) \in TypeMessage
      /\ \A x \in Commandes \cup {"exit"} : Message(x) \in TypeMessage
      /\ Vide \in TypeMessage
  BY DEF TypeMessage, AuthMessage, Message, Vide, MotsDePasse, REQUEST, CHANNEL
<1> QED
  BY <1>1, <1>2, <1>3, <1>4 DEF REQUEST

LEMMA AuthDebut == Init => AuthInv
<1> SUFFICES ASSUME Init PROVE AuthInv
  OBVIOUS
<1>1. TypeAuth
  <2>1. <<>> \in Seq(TypeMessage)
    OBVIOUS
  <2> QED
    BY <2>1, Messages DEF Init, ReseauInit, ClientInit, PingInit, TypeAuth
<1>2. ASSUME NEW s \in Clients PROVE AuthDe(s)
  <2>1. /\ montant[s] = <<>> /\ ouvert[s] = FALSE /\ pcC[s] = "dehors"
        /\ pcS[s] = "absent" /\ authRequest[s] = Vide /\ succes[s] = FALSE
    BY DEF Init, ReseauInit, ClientInit, PingInit
  <2>2. \A i \in 1 .. Len(montant[s]) : FALSE
    BY <2>1
  <2> QED
    BY <2>1, <2>2, Messages DEF AuthDe, Connexions, SecretTape, SecretHerite,
       Reconnu, EnMain
<1> QED
  BY <1>1, <1>2 DEF AuthInv

(* What a step does to the other connections.                              *)
Ailleurs(s) ==
    \A q \in Clients \ {s} :
        /\ UNCHANGED <<montant[q], ouvert[q], pcC[q], pcS[q], authRequest[q],
                       recue[q], succes[q]>>
        /\ q \in identifies => q \in identifies'

LEMMA AuthAilleurs ==
  ASSUME AuthInv, NEW s \in Clients, TypeAuth', Ailleurs(s), AuthDe(s)'
  PROVE  AuthInv'
<1>1. ASSUME NEW q \in Clients, q # s PROVE AuthDe(q)'
  BY <1>1 DEF AuthInv, Ailleurs, AuthDe, Connexions, SecretTape, SecretHerite,
     Reconnu, EnMain
<1> QED
  BY <1>1 DEF AuthInv

\* Taking a message leaves those that the client had typed before.
LEMMA RetireTape ==
  ASSUME TypeAuth, NEW s \in Clients, AuthDe(s), UNCHANGED identifies,
         \/ montant[s] # <<>> /\ montant' = [montant EXCEPT ![s] = Tail(@)]
         \/ montant' = montant
  PROVE  SecretTape(s)'
<1>1. CASE montant' = montant
  BY <1>1 DEF AuthDe, SecretTape
<1>2. CASE montant[s] # <<>> /\ montant' = [montant EXCEPT ![s] = Tail(@)]
  <2>1. montant[s] \in Seq(TypeMessage) /\ montant'[s] = Tail(montant[s])
    BY <1>2 DEF TypeAuth
  <2>2. \A i \in 1 .. Len(Tail(montant[s])) :
            i + 1 \in 1 .. Len(montant[s])
            /\ Tail(montant[s])[i] = montant[s][i + 1]
    <3> DEFINE q == montant[s]
    <3>1. q \in Seq(TypeMessage) /\ q # <<>>
      BY <1>2, <2>1
    <3> HIDE DEF q
    <3>2. \A i \in 1 .. Len(Tail(q)) :
              i + 1 \in 1 .. Len(q) /\ Tail(q)[i] = q[i + 1]
      BY <3>1, Retire
    <3> QED
      BY <3>2 DEF q
  <2> QED
    BY <2>1, <2>2 DEF AuthDe, SecretTape
<1> QED
  BY <1>1, <1>2

LEMMA AuthClient ==
  ASSUME AuthInv, NEW s \in Clients, ClientNext(s), UNCHANGED <<fils, enfants>>
  PROVE  AuthInv'
<1> USE DEF fils, Va
<1>t. TypeAuth
  BY DEF AuthInv
<1>1. ASSUME NEW m \in TypeMessage, NEW ou \in {"attAuth", "attReponse", "ferme"},
             ClientEnvoie(s, m), Va(s, ou), Connecte(s),
             identifies \subseteq identifies', identifies' \subseteq Clients,
             m = Secret => s \in identifies'
      PROVE  AuthInv'
  <2>1. montant' = [montant EXCEPT ![s] = Append(@, m)] \/ montant' = montant
    BY <1>1 DEF ClientEnvoie
  <2>2. ouvert' = ouvert
    BY <1>1 DEF ClientEnvoie
  <2>3. TypeAuth'
    <3>1. montant[s] \in Seq(TypeMessage)
      BY <1>t DEF TypeAuth
    <3>2. Append(montant[s], m) \in Seq(TypeMessage)
      BY <1>1, <3>1, Ajoute
    <3> QED
      BY <1>1, <1>t, <2>1, <2>2, <3>2 DEF TypeAuth
  <2>4. Ailleurs(s)
    BY <1>1, <1>t, <2>1, <2>2 DEF TypeAuth, Ailleurs
  <2>5. ouvert[s] /\ Connexions(s)'
    BY <1>1, <1>t, <2>2 DEF AuthInv, AuthDe, TypeAuth, Connexions, Connecte
  <2>6. SecretTape(s)'
    <3>1. CASE montant' = montant
      BY <1>1, <3>1 DEF AuthInv, AuthDe, SecretTape
    <3>2. CASE montant' = [montant EXCEPT ![s] = Append(@, m)]
      <4>1. montant[s] \in Seq(TypeMessage)
            /\ montant'[s] = Append(montant[s], m)
        BY <1>t, <3>2 DEF TypeAuth
      <4>2. ASSUME NEW i \in 1 .. Len(montant'[s]), montant'[s][i] = Secret
            PROVE  s \in identifies'
        <5>1. Len(montant[s]) \in Nat
              /\ (i \in 1 .. Len(montant[s]) \/ i = Len(montant[s]) + 1)
          BY <4>1, Ajoute
        <5> QED
          BY <1>1, <4>1, <4>2, <5>1, Ajoute DEF AuthInv, AuthDe, SecretTape
      <4> QED
        BY <4>2 DEF SecretTape
    <3> QED
      BY <2>1, <3>1, <3>2
  <2>7. SecretHerite(s)' /\ Reconnu(s)'
    BY <1>1, <2>2, <2>5 DEF AuthInv, AuthDe, SecretHerite, Reconnu, EnMain
  <2> QED
    BY <2>3, <2>4, <2>5, <2>6, <2>7, AuthAilleurs DEF AuthDe
<1>2. CASE Connecter(s)
  <2>1. TypeAuth' /\ Ailleurs(s)
    BY <1>2, <1>t DEF Connecter, TypeAuth, Ailleurs
  <2>2. pcC[s] = "dehors" /\ pcS[s] = "absent" /\ ~ouvert[s] /\ ~succes[s]
    BY <1>2, <1>t DEF Connecter, AuthInv, AuthDe, Connexions, Reconnu, TypeAuth
  <2>3. AuthDe(s)'
    BY <1>2, <1>t, <2>2 DEF Connecter, AuthInv, AuthDe, Connexions, SecretTape,
       SecretHerite, Reconnu, EnMain, TypeAuth
  <2> QED
    BY <2>1, <2>3, AuthAilleurs
<1>3. ASSUME NEW mdp \in MotsDePasse, EnvoyerMdp(s, mdp) PROVE AuthInv'
  BY <1>1, <1>3, <1>t, Messages DEF EnvoyerMdp, Connecte, MotsDePasse, TypeAuth
<1>4. ASSUME NEW x \in Commandes, EnvoyerCommande(s, x) PROVE AuthInv'
  BY <1>1, <1>4, <1>t, Messages DEF EnvoyerCommande, Connecte, TypeAuth
<1>5. CASE EnvoyerExit(s)
  BY <1>1, <1>5, <1>t, Messages DEF EnvoyerExit, Connecte, TypeAuth
<1>6. ASSUME RecevoirAuth(s) \/ RecevoirReponse(s) PROVE AuthInv'
  <2>1. UNCHANGED <<montant, ouvert, identifies>>
    BY <1>6 DEF RecevoirAuth, RecevoirReponse, ClientRetire
  <2>2. \E ou \in {"commande", "motDePasse"} : Va(s, ou)
    BY <1>6 DEF RecevoirAuth, RecevoirReponse
  <2>3. pcC[s] \in {"attAuth", "attReponse"}
    BY <1>6 DEF RecevoirAuth, RecevoirReponse
  <2>4. TypeAuth' /\ Ailleurs(s)
    BY <1>t, <2>1, <2>2 DEF TypeAuth, Ailleurs
  <2>5. AuthDe(s)'
    BY <1>t, <2>1, <2>2, <2>3 DEF AuthInv, AuthDe, Connexions, SecretTape,
       SecretHerite, Reconnu, EnMain, TypeAuth
  <2> QED
    BY <2>4, <2>5, AuthAilleurs
<1>7. ASSUME Fermer(s) \/ Mourir(s) PROVE AuthInv'
  <2>1. /\ UNCHANGED <<montant, identifies>> /\ Va(s, "fini")
        /\ ouvert' = [ouvert EXCEPT ![s] = FALSE]
    BY <1>7 DEF Fermer, Mourir, ClientFerme
  <2>2. pcC[s] \notin {"dehors", "fini"}
    BY <1>7 DEF Fermer, Mourir, Connecte
  <2>3. TypeAuth' /\ Ailleurs(s)
    BY <1>t, <2>1 DEF TypeAuth, Ailleurs
  <2>4. AuthDe(s)'
    BY <1>t, <2>1, <2>2 DEF AuthInv, AuthDe, Connexions, SecretTape,
       SecretHerite, Reconnu, EnMain, TypeAuth
  <2> QED
    BY <2>3, <2>4, AuthAilleurs
<1> QED
  BY <1>2, <1>3, <1>4, <1>5, <1>6, <1>7 DEF ClientNext

LEMMA AuthThread ==
  ASSUME AuthInv, NEW s \in Clients, PingNext(s), UNCHANGED clients
  PROVE  AuthInv'
<1> USE DEF SVa, clients
<1>t. TypeAuth /\ AuthDe(s)
  BY DEF AuthInv
<1>1. CASE Demarrer(s)
  <2>0. UNCHANGED <<montant, ouvert, succes, identifies, pcC>>
    BY <1>1 DEF Demarrer, reseau
  <2>1. ASSUME UNCHANGED <<authRequest, recue>> PROVE AuthInv'
    <3>1. TypeAuth' /\ Ailleurs(s)
      BY <1>1, <1>t, <2>0, <2>1 DEF Demarrer, TypeAuth, Ailleurs
    <3>2. AuthDe(s)'
      BY <1>1, <1>t, <2>0, <2>1 DEF Demarrer, AuthDe, Connexions, SecretTape,
         SecretHerite, Reconnu, EnMain, TypeAuth
    <3> QED
      BY <3>1, <3>2, AuthAilleurs
  <2>2. ASSUME NEW f \in Clients, pcS[f] = "fini",
               authRequest' = [authRequest EXCEPT ![s] = authRequest[f]],
               recue' = [recue EXCEPT ![s] = recue[f]]
        PROVE  AuthInv'
    <3>1. TypeAuth' /\ Ailleurs(s)
      BY <1>1, <1>t, <2>0, <2>2 DEF Demarrer, TypeAuth, Ailleurs
    <3>2. recue[f].x = "exit"
      BY <2>2 DEF AuthInv, AuthDe, SecretHerite
    <3>3. AuthDe(s)'
      BY <1>1, <1>t, <2>0, <2>2, <3>2 DEF Demarrer, AuthDe, Connexions,
         SecretTape, SecretHerite, Reconnu, EnMain, TypeAuth
    <3> QED
      BY <3>1, <3>3, AuthAilleurs
  <2> QED
    BY <1>1, <2>1, <2>2 DEF Demarrer
<1>2. CASE RecevoirDemande(s)
  <2> DEFINE r == ServeurRecu(s, authRequest[s])
  <2>q. montant[s] # <<>> =>
            /\ Head(montant[s]) = montant[s][1] /\ 1 \in 1 .. Len(montant[s])
            /\ montant[s][1] \in TypeMessage
            /\ Tail(montant[s]) \in Seq(TypeMessage)
    <3>1. montant[s] \in Seq(TypeMessage)
      BY <1>t DEF TypeAuth
    <3> QED
      BY <3>1, Retire
  <2>0. UNCHANGED <<ouvert, recue, identifies, pcC>>
    BY <1>2 DEF RecevoirDemande, ServeurRetire
  <2>1. \/ montant[s] # <<>> /\ r = montant[s][1]
           /\ montant' = [montant EXCEPT ![s] = Tail(@)]
        \/ montant[s] = <<>> /\ ~ouvert[s] /\ r = authRequest[s]
           /\ montant' = montant
    <3>1. montant[s] # <<>> => Head(montant[s]) = montant[s][1]
      BY <2>q
    <3> QED
      BY <1>2, <3>1 DEF RecevoirDemande, ServeurRecu, ServeurRetire,
         ServeurPeutRecevoir
  <2>2. r \in TypeMessage /\ montant' \in [Clients -> Seq(TypeMessage)]
    BY <1>t, <2>1, <2>q DEF TypeAuth
  <2>3. /\ authRequest' = [authRequest EXCEPT ![s] = r]
        /\ succes' = [succes EXCEPT ![s] = @ \/ (r.h = REQUEST /\ r.x = "mdp")]
        /\ pcS' = [pcS EXCEPT ![s] = "repAuth"] /\ pcS[s] = "auth"
    BY <1>2 DEF RecevoirDemande
  <2> HIDE DEF r
  <2>4. TypeAuth'
    BY <1>t, <2>0, <2>2, <2>3 DEF TypeAuth
  <2>5. Ailleurs(s)
    BY <1>t, <2>0, <2>1, <2>3 DEF TypeAuth, Ailleurs
  <2>6. (r.h = REQUEST /\ r.x = "mdp") <=> r = Secret
    BY <2>2, Messages
  <2>7. r = Secret =>
            \/ s \in identifies
            \/ recue[s].x = "exit" /\ montant[s] = <<>> /\ ~ouvert[s]
    <3>1. CASE montant[s] # <<>>
      <4>1. 1 \in 1 .. Len(montant[s]) /\ r = montant[s][1]
        BY <2>1, <2>q, <3>1
      <4>2. \A i \in 1 .. Len(montant[s]) :
                montant[s][i] = Secret => s \in identifies
        BY <1>t DEF AuthDe, SecretTape
      <4> QED
        BY <4>1, <4>2
    <3>2. CASE montant[s] = <<>>
      BY <1>t, <2>1, <2>3, <3>2 DEF AuthDe, SecretHerite
    <3> QED
      BY <3>1, <3>2
  <2>8. succes'[s] <=> r = Secret
    BY <1>t, <2>3, <2>6 DEF AuthDe, Reconnu, TypeAuth
  <2>9. SecretTape(s)'
    BY <1>t, <2>0, <2>1, RetireTape
  <2>10. Connexions(s)' /\ SecretHerite(s)'
    BY <1>t, <2>0, <2>3, <2>7 DEF AuthDe, Connexions, SecretHerite, TypeAuth
  <2>11. Reconnu(s)'
    BY <1>t, <2>0, <2>1, <2>3, <2>7, <2>8 DEF AuthDe, Reconnu, EnMain, TypeAuth
  <2> QED
    BY <2>4, <2>5, <2>9, <2>10, <2>11, AuthAilleurs DEF AuthDe
<1>3. CASE RepondreAuth(s)
  <2>0. UNCHANGED <<montant, ouvert, succes, recue, authRequest, identifies, pcC>>
    BY <1>3 DEF RepondreAuth, ServeurEnvoie
  <2>1. TypeAuth' /\ Ailleurs(s)
    BY <1>3, <1>t, <2>0 DEF RepondreAuth, TypeAuth, Ailleurs
  <2>2. AuthDe(s)'
    BY <1>3, <1>t, <2>0 DEF RepondreAuth, AuthDe, Connexions, SecretTape,
       SecretHerite, Reconnu, EnMain, TypeAuth
  <2> QED
    BY <2>1, <2>2, AuthAilleurs
<1>4. CASE RecevoirMessage(s)
  <2> DEFINE r == ServeurRecu(s, recue[s])
  <2>q. montant[s] # <<>> =>
            /\ Head(montant[s]) = montant[s][1] /\ 1 \in 1 .. Len(montant[s])
            /\ montant[s][1] \in TypeMessage
            /\ Tail(montant[s]) \in Seq(TypeMessage)
    <3>1. montant[s] \in Seq(TypeMessage)
      BY <1>t DEF TypeAuth
    <3> QED
      BY <3>1, Retire
  <2>0. UNCHANGED <<ouvert, succes, authRequest, identifies, pcC>>
    BY <1>4 DEF RecevoirMessage, ServeurRetire
  <2>1. \/ montant[s] # <<>> /\ r = montant[s][1]
           /\ montant' = [montant EXCEPT ![s] = Tail(@)]
        \/ montant[s] = <<>> /\ ~ouvert[s] /\ r = recue[s] /\ montant' = montant
    <3>1. montant[s] # <<>> => Head(montant[s]) = montant[s][1]
      BY <2>q
    <3> QED
      BY <1>4, <3>1 DEF RecevoirMessage, ServeurRecu, ServeurRetire,
         ServeurPeutRecevoir
  <2>2. r \in TypeMessage /\ montant' \in [Clients -> Seq(TypeMessage)]
    BY <1>t, <2>1, <2>q DEF TypeAuth
  <2>3. /\ recue' = [recue EXCEPT ![s] = r]
        /\ pcS' = [pcS EXCEPT ![s] =
                     IF r.x = "exit" THEN "fini"
                     ELSE IF r.h = CHANNEL THEN "execute" ELSE "reponse"]
        /\ pcS[s] = "session"
    BY <1>4 DEF RecevoirMessage
  <2> HIDE DEF r
  <2>4. TypeAuth'
    BY <1>t, <2>0, <2>2, <2>3 DEF TypeAuth
  <2>5. Ailleurs(s)
    BY <1>t, <2>0, <2>1, <2>3 DEF TypeAuth, Ailleurs
  <2>6. \/ s \in identifies
        \/ r.x = "exit" /\ montant[s] = <<>> /\ ~ouvert[s]
    BY <1>t, <2>1, <2>3 DEF AuthDe, Reconnu
  <2>7. SecretTape(s)'
    BY <1>t, <2>0, <2>1, RetireTape
  <2>8. Connexions(s)' /\ SecretHerite(s)'
    BY <1>t, <2>0, <2>3 DEF AuthDe, Connexions, SecretHerite, TypeAuth
  <2>9. Reconnu(s)'
    BY <1>t, <2>0, <2>1, <2>3, <2>6 DEF AuthDe, Reconnu, EnMain, TypeAuth
  <2> QED
    BY <2>4, <2>5, <2>7, <2>8, <2>9, AuthAilleurs DEF AuthDe
<1>5. ASSUME UNCHANGED <<montant, ouvert, authRequest, succes, recue>>,
             NEW ou \in {"attente", "reponse", "session"}, SVa(s, ou),
             EnMain(s)
      PROVE  AuthInv'
  <2>1. TypeAuth' /\ Ailleurs(s)
    BY <1>5, <1>t DEF TypeAuth, Ailleurs
  <2>2. AuthDe(s)'
    BY <1>5, <1>t DEF AuthDe, Connexions, SecretTape, SecretHerite, Reconnu,
       EnMain, TypeAuth
  <2> QED
    BY <2>1, <2>2, AuthAilleurs
<1>6. CASE (\E p \in Pids : Executer(s, p)) \/ ForkRate(s) \/ Attendre(s)
  BY <1>5, <1>6 DEF Executer, ForkRate, Attendre, reseau, EnMain
<1>7. CASE Repondre(s)
  BY <1>5, <1>7 DEF Repondre, ServeurEnvoie, EnMain
<1> QED
  BY <1>1, <1>2, <1>3, <1>4, <1>6, <1>7 DEF PingNext, Authentifie, Sert

LEMMA AuthSuite ==
  ASSUME AuthInv, [Next]_vars
  PROVE  AuthInv'
<1>1. ASSUME UNCHANGED <<reseau, clients, fils>>
      PROVE  AuthInv'
  BY <1>1 DEF reseau, clients, fils, AuthInv, TypeAuth, AuthDe, Connexions,
     SecretTape, SecretHerite, Reconnu, EnMain
<1> QED
  BY <1>1, AuthClient, AuthThread
  DEF Next, ClientStep, ThreadStep, EnfantStep, Finir, Repos, vars

(* A thread runs nothing for a client that gave no password on that        *)
(* connection: a failed recv of daemon.c:31 may take the password that     *)
(* another thread left on the stack, but the "exit" it left is read next.  *)
THEOREM AuthRequise == Spec => []AuthAvantExecution
<1>1. AuthInv => AuthAvantExecution
  BY DEF AuthInv, AuthDe, Reconnu, EnMain, AuthAvantExecution
<1>2. AuthInv /\ [Next]_vars => AuthInv'
  BY AuthSuite
<1> QED
  BY <1>1, <1>2, AuthDebut, PTL DEF Spec

-----------------------------------------------------------------------------
(* The type invariant in parts, one per group of variables.                *)
TypeReseau ==
    /\ montant \in [Clients -> Seq(TypeMessage)]
    /\ descendant \in [Clients -> Seq(TypeMessage)]
    /\ ouvert \in [Clients -> BOOLEAN] /\ rst \in [Clients -> BOOLEAN]
    /\ rstClient \in [Clients -> BOOLEAN] /\ vif \in BOOLEAN
TypeClients ==
    /\ pcC \in [Clients -> {"dehors", "motDePasse", "attAuth", "commande",
                            "attReponse", "ferme", "fini"}]
    /\ authResult \in [Clients -> {0, FAILURE, SUCCESS}]
    /\ command \in [Clients -> Commandes \cup {""}]
    /\ receive \in [Clients -> Commandes \cup {""}]
    /\ identifies \subseteq Clients /\ interrompus \subseteq Clients
TypeThreads ==
    /\ pcS \in [Clients -> {"absent", "auth", "repAuth", "session", "execute",
                            "attente", "reponse", "fini"}]
    /\ authRequest \in [Clients -> TypeMessage]
    /\ recue \in [Clients -> TypeMessage]
    /\ succes \in [Clients -> BOOLEAN]
TypeEnfants ==
    /\ etat \in [Pids -> {"libre", "vivant", "zombie"}]
    /\ mien \in [Clients -> Pids \cup {Aucun}]
    /\ finie \in [Clients -> BOOLEAN]

LEMMA Parts == TypeOK <=> TypeReseau /\ TypeClients /\ TypeThreads /\ TypeEnfants
  BY DEF TypeOK, TypeReseau, TypeClients, TypeThreads, TypeEnfants

LEMMA Ensemble ==
  ASSUME TypeReseau', TypeClients', TypeThreads', TypeEnfants'
  PROVE  TypeOK'
  BY DEF TypeOK, TypeReseau, TypeClients, TypeThreads, TypeEnfants

Reponse(h) == [h |-> h, x |-> ""]

LEMMA Reponses ==
  /\ Reponse(SUCCESS) \in TypeMessage /\ Reponse(FAILURE) \in TypeMessage
  /\ \A h : Reponse(h).h = h
  /\ \A x : Message(x).x = x /\ Message(x).h = CHANNEL
  /\ SUCCESS # FAILURE
  BY DEF Reponse, TypeMessage, Message, SUCCESS, FAILURE

-----------------------------------------------------------------------------
(* The turn of a connection: who has the only message, while its client    *)
(* lives or has left with "exit" and the daemon is alive.                  *)
Rien(c) == montant[c] = <<>> /\ descendant[c] = <<>>

TourAuth(c) ==
    /\ pcC[c] = "dehors" => Rien(c) /\ pcS[c] = "absent"
    /\ pcC[c] = "motDePasse" => Rien(c) /\ pcS[c] \in {"absent", "auth"}
    /\ pcC[c] = "attAuth" =>
         \/ /\ \E x \in MotsDePasse : montant[c] = <<AuthMessage(x)>>
            /\ descendant[c] = <<>> /\ pcS[c] \in {"absent", "auth"}
         \/ Rien(c) /\ pcS[c] = "repAuth"
         \/ /\ montant[c] = <<>> /\ descendant[c] = <<Reponse(FAILURE)>>
            /\ pcS[c] = "auth"
         \/ /\ montant[c] = <<>> /\ descendant[c] = <<Reponse(SUCCESS)>>
            /\ pcS[c] = "session"

TourCommande(c) ==
    /\ pcC[c] = "commande" => Rien(c) /\ pcS[c] = "session"
    /\ pcC[c] = "attReponse" =>
         \/ /\ montant[c] = <<Message(command[c])>> /\ descendant[c] = <<>>
            /\ pcS[c] = "session"
         \/ Rien(c) /\ EnMain(c) /\ recue[c] = Message(command[c])
         \/ /\ montant[c] = <<>> /\ descendant[c] = <<Message(command[c])>>
            /\ pcS[c] = "session"
    /\ pcC[c] = "attReponse" => command[c] \in Commandes

\* A client that left with "exit" leaves nothing to send.
TourExit(c) ==
    pcC[c] = "ferme" \/ (pcC[c] = "fini" /\ c \notin interrompus) =>
        /\ descendant[c] = <<>>
        /\ \/ montant[c] = <<Message("exit")>> /\ pcS[c] = "session"
           \/ montant[c] = <<>> /\ pcS[c] = "fini"

Tour(c) == vif => /\ TourAuth(c) /\ TourCommande(c) /\ TourExit(c)
                  /\ rst[c] => c \in interrompus

(* What the client may still receive, from a daemon that is dead too.      *)
Descente(c) ==
    /\ pcC[c] = "attAuth" => descendant[c] \in
          {<<>>, <<Reponse(FAILURE)>>, <<Reponse(SUCCESS)>>}
    /\ pcC[c] = "attReponse" => descendant[c] \in {<<>>, <<Message(command[c])>>}
    /\ pcC[c] \in {"dehors", "motDePasse", "commande"} => descendant[c] = <<>>

EchangeDe(c) == Tour(c) /\ Descente(c)
EchangeInv == TypeOK /\ DemonVit /\ \A c \in Clients : EchangeDe(c)

LEMMA EchangeDebut == Init => EchangeInv
<1> SUFFICES ASSUME Init PROVE EchangeInv
  OBVIOUS
<1>1. TypeOK
  <2>1. <<>> \in Seq(TypeMessage)
    OBVIOUS
  <2> QED
    BY <2>1, Messages DEF Init, ReseauInit, ClientInit, PingInit, TypeOK
<1>2. ASSUME NEW c \in Clients PROVE EchangeDe(c)
  BY DEF Init, ReseauInit, ClientInit, PingInit, EchangeDe, Tour, Descente,
     TourAuth, TourCommande, TourExit, Rien
<1> QED
  BY <1>1, <1>2 DEF EchangeInv, DemonVit, Init, ReseauInit

-----------------------------------------------------------------------------
(* Types.                                                                  *)
LEMMA TypeEnvois ==
  ASSUME TypeReseau, NEW c \in Clients, NEW m \in TypeMessage,
         ServeurEnvoie(c, m) \/ ClientEnvoie(c, m)
  PROVE  TypeReseau'
<1>1. montant[c] \in Seq(TypeMessage) /\ descendant[c] \in Seq(TypeMessage)
  BY DEF TypeReseau
<1>2. /\ Append(montant[c], m) \in Seq(TypeMessage)
      /\ Append(descendant[c], m) \in Seq(TypeMessage)
  BY <1>1, Ajoute
<1>3. \A d \in Clients : (rstClient[d] \/ montant[d] # <<>>) \in BOOLEAN
  OBVIOUS
<1> QED
  BY <1>2, <1>3 DEF TypeReseau, ServeurEnvoie, ClientEnvoie

LEMMA TypeReceptions ==
  ASSUME TypeReseau, NEW c \in Clients, ServeurRetire(c) \/ ClientRetire(c)
  PROVE  TypeReseau'
<1>1. montant[c] \in Seq(TypeMessage) /\ descendant[c] \in Seq(TypeMessage)
  BY DEF TypeReseau
<1>2. /\ montant[c] # <<>> => Tail(montant[c]) \in Seq(TypeMessage)
      /\ descendant[c] # <<>> => Tail(descendant[c]) \in Seq(TypeMessage)
  BY <1>1, Retire
<1> QED
  BY <1>2 DEF TypeReseau, ServeurRetire, ClientRetire

LEMMA TypeFermeture ==
  ASSUME TypeReseau, NEW c \in Clients, ClientFerme(c)
  PROVE  TypeReseau'
<1>1. (rst[c] \/ descendant[c] # <<>>) \in BOOLEAN
  OBVIOUS
<1> QED
  BY <1>1 DEF TypeReseau, ClientFerme

LEMMA TypeDuServeurRecu ==
  ASSUME TypeReseau, NEW c \in Clients, NEW tampon \in TypeMessage
  PROVE  ServeurRecu(c, tampon) \in TypeMessage
<1>1. montant[c] \in Seq(TypeMessage)
  BY DEF TypeReseau
<1>2. montant[c] # <<>> => Head(montant[c]) \in TypeMessage
  BY <1>1, Retire
<1> QED
  BY <1>2 DEF ServeurRecu

(* What a client receives is what it waits for.                            *)
LEMMA RecuParClient ==
  ASSUME NEW c \in Clients, EchangeDe(c), TypeClients
  PROVE  /\ pcC[c] = "attAuth" =>
              /\ ClientRecu(c, [h |-> authResult[c], x |-> ""]).h
                     \in {0, FAILURE, SUCCESS}
         /\ pcC[c] = "attReponse" =>
              /\ ClientRecu(c, Message(receive[c])).x \in Commandes \cup {""}
<1> DEFINE r == [h |-> authResult[c], x |-> ""]
<1>h. /\ r = Reponse(authResult[c]) /\ authResult[c] \in {0, FAILURE, SUCCESS}
      /\ receive[c] \in Commandes \cup {""} /\ command[c] \in Commandes \cup {""}
  BY DEF Reponse, TypeClients
<1> HIDE DEF r
<1>1. ASSUME pcC[c] = "attAuth"
      PROVE  ClientRecu(c, r).h \in {0, FAILURE, SUCCESS}
  <2>1. ClientRecu(c, r) \in {r, Reponse(FAILURE), Reponse(SUCCESS)}
    BY <1>1 DEF EchangeDe, Descente, ClientRecu
  <2> QED
    BY <1>h, <2>1, Reponses
<1>2. ASSUME pcC[c] = "attReponse"
      PROVE  ClientRecu(c, Message(receive[c])).x \in Commandes \cup {""}
  <2>1. ClientRecu(c, Message(receive[c]))
            \in {Message(receive[c]), Message(command[c])}
    BY <1>2 DEF EchangeDe, Descente, ClientRecu
  <2> QED
    BY <1>h, <2>1, Reponses
<1> QED
  BY <1>1, <1>2 DEF r

LEMMA TypeClient ==
  ASSUME EchangeInv, NEW c \in Clients, ClientNext(c), UNCHANGED <<fils, enfants>>
  PROVE  TypeOK'
<1> USE DEF Va
<1>t. TypeReseau /\ TypeClients /\ TypeThreads /\ TypeEnfants /\ EchangeDe(c)
  BY Parts DEF EchangeInv
<1>0. TypeThreads' /\ TypeEnfants'
  BY <1>t DEF TypeThreads, TypeEnfants, fils, enfants
<1>1. CASE Connecter(c)
  <2>1. TypeReseau' /\ TypeClients'
    BY <1>1, <1>t DEF Connecter, TypeReseau, TypeClients
  <2> QED
    BY <1>0, <2>1, Ensemble
<1>2. ASSUME NEW mdp \in MotsDePasse, EnvoyerMdp(c, mdp) PROVE TypeOK'
  <2>1. TypeReseau'
    BY <1>2, <1>t, Messages, TypeEnvois DEF EnvoyerMdp
  <2>2. TypeClients'
    BY <1>2, <1>t DEF EnvoyerMdp, TypeClients
  <2> QED
    BY <1>0, <2>1, <2>2, Ensemble
<1>3. CASE RecevoirAuth(c)
  <2>1. TypeReseau'
    BY <1>3, <1>t, TypeReceptions DEF RecevoirAuth
  <2>2. TypeClients'
    BY <1>3, <1>t, RecuParClient DEF RecevoirAuth, TypeClients
  <2> QED
    BY <1>0, <2>1, <2>2, Ensemble
<1>4. ASSUME NEW x \in Commandes, EnvoyerCommande(c, x) PROVE TypeOK'
  <2>1. TypeReseau'
    BY <1>4, <1>t, Messages, TypeEnvois DEF EnvoyerCommande
  <2>2. TypeClients'
    BY <1>4, <1>t DEF EnvoyerCommande, TypeClients
  <2> QED
    BY <1>0, <2>1, <2>2, Ensemble
<1>5. CASE RecevoirReponse(c)
  <2>1. TypeReseau'
    BY <1>5, <1>t, TypeReceptions DEF RecevoirReponse
  <2>2. TypeClients'
    BY <1>5, <1>t, RecuParClient DEF RecevoirReponse, TypeClients
  <2> QED
    BY <1>0, <2>1, <2>2, Ensemble
<1>6. CASE EnvoyerExit(c)
  <2>1. TypeReseau'
    BY <1>6, <1>t, Messages, TypeEnvois DEF EnvoyerExit
  <2>2. TypeClients'
    BY <1>6, <1>t DEF EnvoyerExit, TypeClients
  <2> QED
    BY <1>0, <2>1, <2>2, Ensemble
<1>7. ASSUME Fermer(c) \/ Mourir(c) PROVE TypeOK'
  <2>1. TypeReseau'
    BY <1>7, <1>t, TypeFermeture DEF Fermer, Mourir
  <2>2. TypeClients'
    BY <1>7, <1>t DEF Fermer, Mourir, TypeClients
  <2> QED
    BY <1>0, <2>1, <2>2, Ensemble
<1> QED
  BY <1>1, <1>2, <1>3, <1>4, <1>5, <1>6, <1>7 DEF ClientNext

LEMMA TypeThread ==
  ASSUME EchangeInv, NEW s \in Clients, PingNext(s), UNCHANGED clients
  PROVE  TypeOK'
<1> USE DEF SVa
<1>t. TypeReseau /\ TypeClients /\ TypeThreads /\ TypeEnfants
  BY Parts DEF EchangeInv
<1>0. TypeClients'
  BY <1>t DEF TypeClients, clients
<1>r. UNCHANGED reseau => TypeReseau'
  BY <1>t DEF TypeReseau, reseau
<1>e. UNCHANGED enfants => TypeEnfants'
  BY <1>t DEF TypeEnfants, enfants
<1>1. CASE Demarrer(s)
  <2>1. TypeThreads'
    BY <1>1, <1>t DEF Demarrer, TypeThreads
  <2> QED
    BY <1>1, <1>0, <1>r, <1>e, <2>1, Ensemble DEF Demarrer
<1>2. CASE RecevoirDemande(s)
  <2>1. TypeReseau'
    BY <1>2, <1>t, TypeReceptions DEF RecevoirDemande
  <2>2. ServeurRecu(s, authRequest[s]) \in TypeMessage
    BY <1>t, TypeDuServeurRecu DEF TypeThreads
  <2>3. TypeThreads'
    BY <1>2, <1>t, <2>2 DEF RecevoirDemande, TypeThreads
  <2> QED
    BY <1>2, <1>0, <1>e, <2>1, <2>3, Ensemble DEF RecevoirDemande
<1>3. CASE RepondreAuth(s)
  <2>1. [h |-> IF succes[s] THEN SUCCESS ELSE FAILURE, x |-> ""] \in TypeMessage
    BY Reponses DEF Reponse
  <2>2. TypeReseau'
    BY <1>3, <1>t, <2>1, TypeEnvois DEF RepondreAuth
  <2>3. TypeThreads'
    BY <1>3, <1>t DEF RepondreAuth, TypeThreads
  <2> QED
    BY <1>3, <1>0, <1>e, <2>2, <2>3, Ensemble DEF RepondreAuth
<1>4. CASE RecevoirMessage(s)
  <2>1. TypeReseau'
    BY <1>4, <1>t, TypeReceptions DEF RecevoirMessage
  <2>2. ServeurRecu(s, recue[s]) \in TypeMessage
    BY <1>t, TypeDuServeurRecu DEF TypeThreads
  <2>3. TypeThreads'
    BY <1>4, <1>t, <2>2 DEF RecevoirMessage, TypeThreads
  <2> QED
    BY <1>4, <1>0, <1>e, <2>1, <2>3, Ensemble DEF RecevoirMessage
<1>5. ASSUME NEW p \in Pids, Executer(s, p) PROVE TypeOK'
  <2>1. TypeThreads' /\ TypeEnfants'
    BY <1>5, <1>t DEF Executer, TypeThreads, TypeEnfants
  <2> QED
    BY <1>5, <1>0, <1>r, <2>1, Ensemble DEF Executer
<1>6. CASE ForkRate(s)
  <2>1. TypeThreads'
    BY <1>6, <1>t DEF ForkRate, TypeThreads
  <2> QED
    BY <1>6, <1>0, <1>r, <1>e, <2>1, Ensemble DEF ForkRate
<1>7. CASE Attendre(s)
  <2>1. TypeThreads'
    BY <1>7, <1>t DEF Attendre, TypeThreads
  <2>2. ASSUME NEW p \in Zombies, etat' = [etat EXCEPT ![p] = "libre"],
               Oublie(p), UNCHANGED finie
        PROVE  TypeEnfants'
    BY <2>2, <1>t DEF Oublie, TypeEnfants
  <2> QED
    BY <1>7, <1>0, <1>r, <1>e, <2>1, <2>2, Ensemble DEF Attendre
<1>8. CASE Repondre(s)
  <2>1. TypeReseau'
    BY <1>8, <1>t, TypeEnvois DEF Repondre, TypeThreads
  <2>2. TypeThreads'
    BY <1>8, <1>t DEF Repondre, TypeThreads
  <2> QED
    BY <1>8, <1>0, <1>e, <2>1, <2>2, Ensemble DEF Repondre
<1> QED
  BY <1>1, <1>2, <1>3, <1>4, <1>5, <1>6, <1>7, <1>8
  DEF PingNext, Authentifie, Sert

LEMMA TypeEnfant ==
  ASSUME EchangeInv, NEW p \in Pids, Finir(p), UNCHANGED clients
  PROVE  TypeOK'
<1>t. TypeReseau /\ TypeClients /\ TypeThreads /\ TypeEnfants
  BY Parts DEF EchangeInv
<1>1. \A s \in Clients : (finie[s] \/ mien[s] = p) \in BOOLEAN
  OBVIOUS
<1>2. TypeEnfants'
  BY <1>t, <1>1 DEF Finir, TypeEnfants
<1>3. TypeReseau' /\ TypeClients' /\ TypeThreads'
  BY <1>t DEF Finir, TypeReseau, TypeClients, TypeThreads, reseau, clients, fils
<1> QED
  BY <1>2, <1>3, Ensemble
-----------------------------------------------------------------------------
(* Turns.                                                                  *)
AilleursTour(s) ==
    \A q \in Clients \ {s} :
        /\ UNCHANGED <<montant[q], descendant[q], pcC[q], pcS[q], recue[q],
                       command[q], rst[q]>>
        /\ q \in interrompus => q \in interrompus'

LEMMA EchangeAilleurs ==
  ASSUME EchangeInv, NEW s \in Clients, AilleursTour(s), vif' => vif,
         EchangeDe(s)', TypeOK', DemonVit'
  PROVE  EchangeInv'
<1>1. ASSUME NEW q \in Clients, q # s PROVE EchangeDe(q)'
  <2>1. EchangeDe(q)
    BY DEF EchangeInv
  <2> QED
    BY <1>1, <2>1 DEF AilleursTour, EchangeDe, Tour, TourAuth, TourCommande,
       TourExit, Descente, Rien, EnMain
<1> QED
  BY <1>1 DEF EchangeInv

LEMMA EchangeClient ==
  ASSUME EchangeInv, NEW c \in Clients, ClientNext(c), UNCHANGED <<fils, enfants>>
  PROVE  EchangeInv'
<1> USE DEF Va, fils
<1>t. /\ TypeReseau /\ TypeClients /\ TypeThreads /\ TypeEnfants /\ EchangeDe(c)
      /\ TypeOK' /\ DemonVit
  BY Parts, TypeClient DEF EchangeInv
<1>v. vif' = vif /\ interrompus \subseteq interrompus'
  BY DEF ClientNext, Connecter, EnvoyerMdp, RecevoirAuth, EnvoyerCommande,
     RecevoirReponse, EnvoyerExit, Fermer, Mourir, ClientEnvoie, ClientRetire,
     ClientFerme
<1>d. DemonVit'
  BY <1>t, <1>v DEF DemonVit
<1>1. CASE Connecter(c)
  <2>1. AilleursTour(c)
    BY <1>1, <1>t DEF Connecter, AilleursTour, TypeClients
  <2>2. EchangeDe(c)'
    BY <1>1, <1>t DEF Connecter, EchangeDe, Tour, TourAuth, TourCommande,
       TourExit, Descente, Rien, TypeClients
  <2> QED
    BY <1>t, <1>v, <1>d, <2>1, <2>2, EchangeAilleurs
<1>2. ASSUME NEW mdp \in MotsDePasse, EnvoyerMdp(c, mdp) PROVE EchangeInv'
  <2> DEFINE m == AuthMessage(mdp)
  <2>1. /\ IF vif THEN montant' = [montant EXCEPT ![c] = Append(@, m)]
                  ELSE montant' = montant
        /\ UNCHANGED <<descendant, rst, vif, command, interrompus>>
        /\ pcC[c] = "motDePasse" /\ pcC' = [pcC EXCEPT ![c] = "attAuth"]
    BY <1>2 DEF EnvoyerMdp, ClientEnvoie
  <2>2. m = AuthMessage(mdp)
    OBVIOUS
  <2> HIDE DEF m
  <2>3. AilleursTour(c)
    BY <1>t, <2>1 DEF AilleursTour, TypeReseau, TypeClients
  <2>4. vif => montant[c] = <<>> /\ montant'[c] = <<m>>
    BY <1>t, <2>1 DEF EchangeDe, Tour, TourAuth, Rien, TypeReseau
  <2>5. EchangeDe(c)'
    BY <1>t, <2>1, <2>2, <2>4 DEF EchangeDe, Tour, TourAuth, TourCommande,
       TourExit, Descente, Rien, TypeClients
  <2> QED
    BY <1>t, <1>v, <1>d, <2>3, <2>5, EchangeAilleurs
<1>3. CASE RecevoirAuth(c)
  <2> DEFINE r == ClientRecu(c, [h |-> authResult[c], x |-> ""])
  <2>1. /\ descendant' = IF descendant[c] # <<>>
                         THEN [descendant EXCEPT ![c] = Tail(@)] ELSE descendant
        /\ descendant[c] # <<>> \/ ~vif
        /\ UNCHANGED <<montant, rst, vif, command, interrompus>>
        /\ pcC[c] = "attAuth"
        /\ pcC' = [pcC EXCEPT ![c] = IF r.h = SUCCESS THEN "commande"
                                     ELSE "motDePasse"]
    BY <1>3 DEF RecevoirAuth, ClientRetire, ClientPeutRecevoir
  <2>2. \A h \in {FAILURE, SUCCESS} :
            descendant[c] = <<Reponse(h)>> => r.h = h
    BY Reponses DEF ClientRecu
  <2> HIDE DEF r
  <2>3. AilleursTour(c)
    BY <1>t, <2>1 DEF AilleursTour, TypeReseau, TypeClients
  <2>4. descendant'[c] = <<>>
    BY <1>t, <2>1 DEF EchangeDe, Descente, TypeReseau
  <2>5. EchangeDe(c)'
    BY <1>t, <2>1, <2>2, <2>4, Reponses DEF EchangeDe, Tour, TourAuth,
       TourCommande, TourExit, Descente, Rien, TypeClients
  <2> QED
    BY <1>t, <1>v, <1>d, <2>3, <2>5, EchangeAilleurs
<1>4. ASSUME NEW x \in Commandes, EnvoyerCommande(c, x) PROVE EchangeInv'
  <2> DEFINE m == Message(x)
  <2>1. /\ IF vif THEN montant' = [montant EXCEPT ![c] = Append(@, m)]
                  ELSE montant' = montant
        /\ UNCHANGED <<descendant, rst, vif, interrompus>>
        /\ pcC[c] = "commande" /\ pcC' = [pcC EXCEPT ![c] = "attReponse"]
        /\ command' = [command EXCEPT ![c] = x]
    BY <1>4 DEF EnvoyerCommande, ClientEnvoie
  <2>2. m = Message(x)
    OBVIOUS
  <2> HIDE DEF m
  <2>3. AilleursTour(c)
    BY <1>t, <2>1 DEF AilleursTour, TypeReseau, TypeClients
  <2>4. vif => montant[c] = <<>> /\ montant'[c] = <<m>>
    BY <1>t, <2>1 DEF EchangeDe, Tour, TourCommande, Rien, TypeReseau
  <2>5. EchangeDe(c)'
    BY <1>t, <2>1, <2>2, <2>4 DEF EchangeDe, Tour, TourAuth, TourCommande,
       TourExit, Descente, Rien, TypeClients
  <2> QED
    BY <1>t, <1>v, <1>d, <2>3, <2>5, EchangeAilleurs
<1>5. CASE RecevoirReponse(c)
  <2>1. /\ descendant' = IF descendant[c] # <<>>
                         THEN [descendant EXCEPT ![c] = Tail(@)] ELSE descendant
        /\ descendant[c] # <<>> \/ ~vif
        /\ UNCHANGED <<montant, rst, vif, command, interrompus>>
        /\ pcC[c] = "attReponse" /\ pcC' = [pcC EXCEPT ![c] = "commande"]
    BY <1>5 DEF RecevoirReponse, ClientRetire, ClientPeutRecevoir
  <2>2. AilleursTour(c)
    BY <1>t, <2>1 DEF AilleursTour, TypeReseau, TypeClients
  <2>3. descendant'[c] = <<>>
    BY <1>t, <2>1 DEF EchangeDe, Descente, TypeReseau
  <2>4. EchangeDe(c)'
    BY <1>t, <2>1, <2>3 DEF EchangeDe, Tour, TourAuth, TourCommande, TourExit,
       Descente, Rien, TypeClients
  <2> QED
    BY <1>t, <1>v, <1>d, <2>2, <2>4, EchangeAilleurs
<1>6. CASE EnvoyerExit(c)
  <2> DEFINE m == Message("exit")
  <2>1. /\ IF vif THEN montant' = [montant EXCEPT ![c] = Append(@, m)]
                  ELSE montant' = montant
        /\ UNCHANGED <<descendant, rst, vif, command, interrompus>>
        /\ pcC[c] = "commande" /\ pcC' = [pcC EXCEPT ![c] = "ferme"]
    BY <1>6 DEF EnvoyerExit, ClientEnvoie
  <2>2. m = Message("exit")
    OBVIOUS
  <2> HIDE DEF m
  <2>3. AilleursTour(c)
    BY <1>t, <2>1 DEF AilleursTour, TypeReseau, TypeClients
  <2>4. vif => montant[c] = <<>> /\ montant'[c] = <<m>>
    BY <1>t, <2>1 DEF EchangeDe, Tour, TourCommande, Rien, TypeReseau
  <2>5. EchangeDe(c)'
    BY <1>t, <2>1, <2>2, <2>4 DEF EchangeDe, Tour, TourAuth, TourCommande,
       TourExit, Descente, Rien, TypeClients
  <2> QED
    BY <1>t, <1>v, <1>d, <2>3, <2>5, EchangeAilleurs
<1>7. ASSUME Fermer(c) \/ Mourir(c) PROVE EchangeInv'
  <2>1. /\ UNCHANGED <<montant, descendant, vif, command>>
        /\ rst' = [rst EXCEPT ![c] = @ \/ descendant[c] # <<>>]
        /\ pcC' = [pcC EXCEPT ![c] = "fini"]
    BY <1>7 DEF Fermer, Mourir, ClientFerme
  <2>2. \/ ~vif \/ c \in interrompus'
        \/ pcC[c] = "ferme" /\ UNCHANGED interrompus
    BY <1>7 DEF Fermer, Mourir, ClientSigpipe
  <2>3. AilleursTour(c)
    BY <1>t, <1>v, <2>1 DEF AilleursTour, TypeReseau, TypeClients
  <2>4. Descente(c)' /\ pcC'[c] = "fini"
    BY <1>t, <2>1 DEF Descente, TypeClients
  <2>5. ASSUME ~vif PROVE EchangeDe(c)'
    BY <1>v, <2>4, <2>5 DEF EchangeDe, Tour
  <2>6. ASSUME vif /\ c \in interrompus' PROVE EchangeDe(c)'
    BY <2>4, <2>6 DEF EchangeDe, Tour, TourAuth, TourCommande, TourExit
  <2>7. ASSUME vif /\ pcC[c] = "ferme" /\ UNCHANGED interrompus PROVE EchangeDe(c)'
    <3>1. TourExit(c) /\ (rst[c] => c \in interrompus)
      BY <1>t, <2>7 DEF EchangeDe, Tour
    <3>2. descendant[c] = <<>> /\ rst'[c] = rst[c]
      BY <1>t, <2>1, <2>7, <3>1 DEF TourExit, TypeReseau
    <3> QED
      BY <2>1, <2>4, <2>7, <3>1, <3>2 DEF EchangeDe, Tour, TourAuth,
         TourCommande, TourExit
  <2>8. EchangeDe(c)'
    BY <2>2, <2>5, <2>6, <2>7
  <2> QED
    BY <1>t, <1>v, <1>d, <2>3, <2>8, EchangeAilleurs
<1> QED
  BY <1>1, <1>2, <1>3, <1>4, <1>5, <1>6, <1>7 DEF ClientNext
(* A thread that answers: the client waits for this answer or was killed,  *)
(* and only one that was killed makes it send to a reset connection.       *)
LEMMA EchangeEnvoi ==
  ASSUME EchangeInv, TypeOK', NEW s \in Clients, Connexions(s), vif,
         NEW m, NEW ou, ServeurEnvoie(s, m), SVa(s, ou),
         pcS[s] \in {"repAuth", "reponse"}, UNCHANGED <<clients, recue>>,
         pcC[s] = "attAuth" => \/ m = Reponse(SUCCESS) /\ ou = "session"
                               \/ m = Reponse(FAILURE) /\ ou = "auth",
         pcC[s] = "attReponse" => m = Message(command[s]) /\ ou = "session"
  PROVE  EchangeInv'
<1> USE DEF SVa, clients
<1>t. /\ TypeReseau /\ TypeClients /\ TypeThreads /\ EchangeDe(s) /\ DemonVit
  BY Parts DEF EchangeInv
<1>1. /\ pcC[s] \in {"attAuth", "attReponse"} => Rien(s)
      /\ pcC[s] \in {"attAuth", "attReponse"} \/ s \in interrompus
      /\ rst[s] => s \in interrompus
  BY <1>t DEF EchangeDe, Tour, TourAuth, TourCommande, TourExit, TypeClients
<1>2. CASE /\ ouvert[s] /\ descendant' = [descendant EXCEPT ![s] = Append(@, m)]
           /\ UNCHANGED <<montant, ouvert, rst, vif, rstClient>>
  <2>1. pcC[s] \in {"attAuth", "attReponse"}
    BY <1>1, <1>2, <1>t DEF Connexions, EchangeDe, Tour, TourAuth, TourCommande,
       TourExit, TypeClients
  <2>2. descendant'[s] = <<m>>
    <3>1. descendant'[s] = Append(<<>>, m)
      BY <1>1, <1>2, <1>t, <2>1 DEF Rien, TypeReseau
    <3> QED
      BY <3>1
  <2>3. AilleursTour(s)
    BY <1>2, <1>t DEF AilleursTour, TypeReseau, TypeThreads
  <2>4. EchangeDe(s)'
    BY <1>1, <1>2, <1>t, <2>1, <2>2 DEF EchangeDe, Tour, TourAuth, TourCommande,
       TourExit, Descente, Rien, TypeThreads
  <2> QED
    BY <1>2, <1>t, <2>3, <2>4, EchangeAilleurs DEF DemonVit
<1>3. CASE /\ ~ouvert[s] /\ rst' = [rst EXCEPT ![s] = TRUE]
           /\ UNCHANGED <<montant, descendant, ouvert, vif, rstClient>>
  <2>1. s \in interrompus /\ pcC[s] = "fini"
    BY <1>1, <1>3, <1>t DEF Connexions, EchangeDe, Tour, TourAuth, TypeClients
  <2>2. AilleursTour(s)
    BY <1>3, <1>t DEF AilleursTour, TypeReseau, TypeThreads
  <2>3. EchangeDe(s)'
    BY <1>3, <1>t, <2>1 DEF EchangeDe, Tour, TourAuth, TourCommande, TourExit,
       Descente
  <2> QED
    BY <1>3, <1>t, <2>2, <2>3, EchangeAilleurs DEF DemonVit
<1>4. CASE /\ rst[s] /\ vif' = FALSE
           /\ UNCHANGED <<montant, descendant, ouvert, rst>>
  <2>1. DemonVit' /\ AilleursTour(s)
    BY <1>1, <1>4, <1>t DEF DemonVit, AilleursTour, TypeReseau, TypeThreads
  <2>2. EchangeDe(s)'
    BY <1>4, <1>t DEF EchangeDe, Tour, Descente
  <2> QED
    BY <1>4, <2>1, <2>2, EchangeAilleurs
<1> QED
  BY <1>2, <1>3, <1>4 DEF ServeurEnvoie

(* A thread that moves on without sending.                                 *)
LEMMA EchangeThread ==
  ASSUME EchangeInv, NEW s \in Clients, Connexions(s), PingNext(s),
         UNCHANGED clients
  PROVE  EchangeInv'
<1> USE DEF SVa, clients
<1>t. /\ TypeReseau /\ TypeClients /\ TypeThreads /\ EchangeDe(s) /\ DemonVit
      /\ TypeOK'
  BY Parts, TypeThread DEF EchangeInv
<1>1. CASE Demarrer(s)
  <2>1. AilleursTour(s) /\ UNCHANGED vif
    BY <1>1, <1>t DEF Demarrer, AilleursTour, TypeThreads, reseau
  <2>2. EchangeDe(s)'
    BY <1>1, <1>t DEF Demarrer, EchangeDe, Tour, TourAuth, TourCommande,
       TourExit, Descente, Rien, EnMain, TypeThreads, reseau
  <2> QED
    BY <1>t, <2>1, <2>2, EchangeAilleurs DEF DemonVit
<1>2. CASE RecevoirDemande(s)
  <2>1. /\ montant' = IF montant[s] # <<>>
                      THEN [montant EXCEPT ![s] = Tail(@)] ELSE montant
        /\ montant[s] # <<>> \/ ~ouvert[s]
        /\ UNCHANGED <<descendant, rst, vif, recue>>
        /\ pcS[s] = "auth" /\ pcS' = [pcS EXCEPT ![s] = "repAuth"] /\ vif
    BY <1>2 DEF RecevoirDemande, ServeurRetire, ServeurPeutRecevoir
  <2>2. AilleursTour(s)
    BY <1>t, <2>1 DEF AilleursTour, TypeThreads, TypeReseau
  <2>3. /\ pcC[s] = "attAuth" => montant'[s] = <<>> /\ descendant[s] = <<>>
        /\ pcC[s] = "attAuth" \/ s \in interrompus
    <3>1. TourAuth(s) /\ TourCommande(s) /\ TourExit(s)
      BY <1>t, <2>1 DEF EchangeDe, Tour
    <3>2. pcC[s] \notin {"dehors", "motDePasse"}
      BY <2>1, <3>1 DEF TourAuth, Connexions, Rien
    <3>3. pcC[s] \notin {"commande", "attReponse"}
      BY <2>1, <3>1 DEF TourCommande, EnMain
    <3>4. pcC[s] \in {"ferme", "fini"} => s \in interrompus
      BY <2>1, <3>1 DEF TourExit
    <3>5. ASSUME pcC[s] = "attAuth"
          PROVE  montant'[s] = <<>> /\ descendant[s] = <<>>
      <4>1. montant[s] # <<>>
        BY <2>1, <3>5 DEF Connexions
      <4>2. (\E m : montant[s] = <<m>>) /\ descendant[s] = <<>>
        BY <2>1, <3>1, <3>5, <4>1 DEF TourAuth, Rien
      <4>3. montant'[s] = Tail(montant[s])
        BY <1>t, <2>1, <4>1 DEF TypeReseau
      <4> QED
        BY <4>2, <4>3
    <3> QED
      BY <1>t, <3>2, <3>3, <3>4, <3>5 DEF TypeClients
  <2>4. EchangeDe(s)'
    <3>1. pcS'[s] = "repAuth" /\ Descente(s)'
      BY <1>t, <2>1 DEF EchangeDe, Descente, TypeThreads
    <3>2. rst[s] => s \in interrompus
      BY <1>t, <2>1 DEF EchangeDe, Tour
    <3>3. pcC[s] \in {"attAuth", "fini"}
      BY <1>t, <2>1, <2>3 DEF EchangeDe, Tour, TourAuth, TourCommande, TourExit,
         Connexions, Rien, EnMain, TypeClients
    <3> QED
      BY <2>1, <2>3, <3>1, <3>2, <3>3 DEF EchangeDe, Tour, TourAuth,
         TourCommande, TourExit, Rien
  <2> QED
    BY <1>t, <2>1, <2>2, <2>4, EchangeAilleurs DEF DemonVit
<1>3. CASE RepondreAuth(s)
  <2>1. [h |-> IF succes[s] THEN SUCCESS ELSE FAILURE, x |-> ""]
            = Reponse(IF succes[s] THEN SUCCESS ELSE FAILURE)
    BY DEF Reponse
  <2>2. pcS[s] = "repAuth" => pcC[s] # "attReponse"
    BY <1>3, <1>t DEF RepondreAuth, EchangeDe, Tour, TourCommande, EnMain
  <2>3. CASE succes[s]
    BY <1>3, <1>t, <2>1, <2>2, <2>3, EchangeEnvoi DEF RepondreAuth
  <2>4. CASE ~succes[s]
    BY <1>3, <1>t, <2>1, <2>2, <2>4, EchangeEnvoi DEF RepondreAuth
  <2> QED
    BY <2>3, <2>4
<1>4. CASE RecevoirMessage(s)
  <2> DEFINE r == ServeurRecu(s, recue[s])
  <2>1. /\ montant' = IF montant[s] # <<>>
                      THEN [montant EXCEPT ![s] = Tail(@)] ELSE montant
        /\ montant[s] # <<>> \/ ~ouvert[s]
        /\ UNCHANGED <<descendant, rst, vif>>
        /\ recue' = [recue EXCEPT ![s] = r] /\ pcS[s] = "session" /\ vif
        /\ pcS' = [pcS EXCEPT ![s] =
                     IF r.x = "exit" THEN "fini"
                     ELSE IF r.h = CHANNEL THEN "execute" ELSE "reponse"]
    BY <1>4 DEF RecevoirMessage, ServeurRetire, ServeurPeutRecevoir
  <2>2. \A x : montant[s] = <<Message(x)>> =>
                   r = Message(x) /\ r.x = x /\ r.h = CHANNEL
    BY Reponses DEF ServeurRecu
  <2> HIDE DEF r
  <2>3. AilleursTour(s)
    BY <1>t, <2>1 DEF AilleursTour, TypeThreads, TypeReseau
  <2>4. Descente(s)' /\ (rst[s] => s \in interrompus)
    BY <1>t, <2>1 DEF EchangeDe, Descente, Tour
  <2>5. ASSUME ouvert[s] PROVE EchangeDe(s)'
    <3>1. pcC[s] \in {"attReponse", "ferme"}
      BY <1>t, <2>1, <2>5 DEF Connexions, EchangeDe, Tour, TourAuth,
         TourCommande, Rien, TypeClients
    <3>2. CASE pcC[s] = "attReponse"
      <4>1. /\ montant[s] = <<Message(command[s])>> /\ descendant[s] = <<>>
            /\ command[s] \in Commandes
        BY <1>t, <2>1, <2>5, <3>2 DEF EchangeDe, Tour, TourCommande, Rien
      <4>2. /\ r = Message(command[s]) /\ montant'[s] = <<>>
            /\ pcS'[s] = "execute" /\ recue'[s] = r
        BY <1>t, <2>1, <2>2, <4>1, CommandesAssumption DEF TypeReseau, TypeThreads
      <4> QED
        BY <2>1, <2>4, <3>2, <4>1, <4>2 DEF EchangeDe, Tour, TourAuth,
           TourCommande, TourExit, Rien, EnMain
    <3>3. CASE pcC[s] = "ferme"
      <4>1. montant[s] = <<Message("exit")>> /\ descendant[s] = <<>>
        BY <1>t, <2>1, <2>5, <3>3 DEF EchangeDe, Tour, TourExit
      <4>2. montant'[s] = <<>> /\ pcS'[s] = "fini"
        BY <1>t, <2>1, <2>2, <4>1 DEF TypeReseau, TypeThreads
      <4> QED
        BY <2>1, <2>4, <3>3, <4>1, <4>2 DEF EchangeDe, Tour, TourAuth,
           TourCommande, TourExit
    <3> QED
      BY <3>1, <3>2, <3>3
  <2>6. ASSUME ~ouvert[s] PROVE EchangeDe(s)'
    <3>1. pcC[s] = "fini"
      BY <1>t, <2>1, <2>6 DEF Connexions, EchangeDe, Tour, TourAuth, TypeClients
    <3>2. CASE s \in interrompus
      BY <2>1, <2>4, <3>1, <3>2 DEF EchangeDe, Tour, TourAuth, TourCommande,
         TourExit
    <3>3. CASE s \notin interrompus
      <4>1. montant[s] = <<Message("exit")>> /\ descendant[s] = <<>>
        BY <1>t, <2>1, <3>1, <3>3 DEF EchangeDe, Tour, TourExit
      <4>2. montant'[s] = <<>> /\ pcS'[s] = "fini"
        BY <1>t, <2>1, <2>2, <4>1 DEF TypeReseau, TypeThreads
      <4> QED
        BY <2>1, <2>4, <3>1, <4>1, <4>2 DEF EchangeDe, Tour, TourAuth,
           TourCommande, TourExit
    <3> QED
      BY <3>2, <3>3
  <2>7. EchangeDe(s)'
    BY <2>5, <2>6
  <2> QED
    BY <1>t, <2>1, <2>3, <2>7, EchangeAilleurs DEF DemonVit
<1>5. ASSUME (\E p \in Pids : Executer(s, p)) \/ ForkRate(s) \/ Attendre(s)
      PROVE  EchangeInv'
  <2>1. /\ UNCHANGED <<montant, descendant, rst, vif, recue>>
        /\ EnMain(s) /\ \E ou \in {"attente", "reponse"} : SVa(s, ou)
    BY <1>5 DEF Executer, ForkRate, Attendre, reseau, EnMain
  <2>2. AilleursTour(s)
    BY <1>t, <2>1 DEF AilleursTour, TypeThreads
  <2>3. EnMain(s)' /\ pcS'[s] \notin {"absent", "auth", "repAuth", "session", "fini"}
    BY <1>t, <2>1 DEF EnMain, TypeThreads
  <2>4. EchangeDe(s)'
    BY <1>t, <2>1, <2>3 DEF EchangeDe, Tour, TourAuth, TourCommande, TourExit,
       Descente, Rien, EnMain
  <2> QED
    BY <1>t, <2>1, <2>2, <2>4, EchangeAilleurs DEF DemonVit
<1>6. CASE Repondre(s)
  <2>1. /\ pcC[s] # "attAuth"
        /\ pcC[s] = "attReponse" => recue[s] = Message(command[s])
    BY <1>6, <1>t DEF Repondre, EchangeDe, Tour, TourAuth, TourCommande
  <2> QED
    BY <1>6, <1>t, <2>1, EchangeEnvoi DEF Repondre
<1> QED
  BY <1>1, <1>2, <1>3, <1>4, <1>5, <1>6 DEF PingNext, Authentifie, Sert

LEMMA EchangeSuite ==
  ASSUME EchangeInv, AuthInv, [Next]_vars
  PROVE  EchangeInv'
<1>1. ASSUME NEW p \in Pids, Finir(p), UNCHANGED clients PROVE EchangeInv'
  <2>1. TypeOK'
    BY <1>1, TypeEnfant
  <2> QED
    BY <1>1, <2>1 DEF Finir, reseau, clients, fils, EchangeInv, DemonVit,
       EchangeDe, Tour, TourAuth, TourCommande, TourExit, Descente, Rien, EnMain
<1>2. ASSUME UNCHANGED vars PROVE EchangeInv'
  BY <1>2, ZenonT(40) DEF vars, reseau, clients, fils, enfants, EchangeInv, TypeOK, DemonVit,
     EchangeDe, Tour, TourAuth, TourCommande, TourExit, Descente, Rien, EnMain
<1>3. \A s \in Clients : Connexions(s)
  BY DEF AuthInv, AuthDe
<1> QED
  BY <1>1, <1>2, <1>3, EchangeClient, EchangeThread
  DEF Next, ClientStep, ThreadStep, EnfantStep, Repos

-----------------------------------------------------------------------------
LEMMA EchangeToujours == Spec => []EchangeInv
<1>1. Spec => []AuthInv
  <2>1. AuthInv /\ [Next]_vars => AuthInv'
    BY AuthSuite
  <2> QED
    BY <2>1, AuthDebut, PTL DEF Spec
<1>2. EchangeInv /\ AuthInv /\ [Next]_vars => EchangeInv'
  BY EchangeSuite
<1> QED
  BY <1>1, <1>2, EchangeDebut, PTL DEF Spec

(* Both ends keep their types; in particular a client receives nothing but *)
(* answers while it waits for one.                                         *)
THEOREM TypesDesEchanges == Spec => []TypeOK
<1>1. EchangeInv => TypeOK
  BY DEF EchangeInv
<1> QED
  BY <1>1, EchangeToujours, PTL

(* Request and answer go in lockstep, and the echo is that of the command  *)
(* the client sent, whatever the other clients and their threads do.       *)
THEOREM UnSeulMessage == Spec => []PasAPas
<1>1. EchangeInv => PasAPas
  <2> SUFFICES ASSUME EchangeInv, NEW c \in Clients, pcC[c] = "attReponse", vif
               PROVE  Echange(c)
    BY DEF PasAPas, Echange
  <2>1. TourCommande(c)
    BY DEF EchangeInv, EchangeDe, Tour
  <2> DEFINE m == Message(command[c])
  <2>2. Len(<<m>>) = 1 /\ Len(<<>>) = 0 /\ Head(<<m>>) = m /\ <<m>> # <<>>
    OBVIOUS
  <2>3. CASE /\ montant[c] = <<m>> /\ descendant[c] = <<>>
             /\ pcS[c] = "session"
    BY <2>2, <2>3 DEF Echange, EnMain
  <2>4. CASE Rien(c) /\ EnMain(c) /\ recue[c] = m
    BY <2>2, <2>4 DEF Echange, Rien
  <2>5. CASE /\ montant[c] = <<>> /\ descendant[c] = <<m>>
             /\ pcS[c] = "session"
    BY <2>2, <2>5 DEF Echange, EnMain
  <2> QED
    BY <2>1, <2>3, <2>4, <2>5 DEF TourCommande
<1> QED
  BY <1>1, EchangeToujours, PTL

(* Clients that leave with "exit" never make the daemon send to a closed   *)
(* connection: it dies only if somebody was killed.                        *)
THEOREM ExitSansDanger == Spec => []DemonVit
<1>1. EchangeInv => DemonVit
  BY DEF EchangeInv
<1> QED
  BY <1>1, EchangeToujours, PTL
-----------------------------------------------------------------------------
(* The refinement of RemoteExec.                                           *)
Phases == [c \in Clients |-> PhaseDe(c)]
Etape == Service!RNext \/ UNCHANGED <<Phases, command, receive, identifies, vif>>

\* SUCCESS comes only to a client that gave the password.
AdmisDe(c) ==
    /\ pcC[c] \in {"dehors", "motDePasse", "attAuth"} => authResult[c] # SUCCESS
    /\ pcC[c] = "attAuth" /\ descendant[c] = <<Reponse(SUCCESS)>> =>
           c \in identifies
Admis == \A c \in Clients : AdmisDe(c)

ServiceInv == EchangeInv /\ AuthInv /\ Admis

\* The steps of one client, or of its thread, leave the others' turn alone.
LEMMA ClientAilleurs ==
  ASSUME EchangeInv, NEW c \in Clients, ClientNext(c), UNCHANGED fils
  PROVE  AilleursTour(c) /\ UNCHANGED vif
<1>1. TypeReseau /\ TypeClients
  BY Parts DEF EchangeInv
<1>2. \A q \in Clients \ {c} :
          UNCHANGED <<montant[q], descendant[q], rst[q], pcC[q], command[q]>>
  BY <1>1 DEF ClientNext, Connecter, EnvoyerMdp, RecevoirAuth, EnvoyerCommande,
     RecevoirReponse, EnvoyerExit, Fermer, Mourir, ClientEnvoie, ClientRetire,
     ClientFerme, Va, TypeReseau, TypeClients
<1>3. interrompus \subseteq interrompus' /\ UNCHANGED vif
  BY DEF ClientNext, Connecter, EnvoyerMdp, RecevoirAuth, EnvoyerCommande,
     RecevoirReponse, EnvoyerExit, Fermer, Mourir, ClientEnvoie, ClientRetire,
     ClientFerme
<1> QED
  BY <1>2, <1>3 DEF AilleursTour, fils

LEMMA ThreadAilleurs ==
  ASSUME EchangeInv, NEW s \in Clients, PingNext(s), UNCHANGED clients
  PROVE  AilleursTour(s)
<1>1. TypeReseau /\ TypeThreads
  BY Parts DEF EchangeInv
<1>2. \A q \in Clients \ {s} : UNCHANGED <<montant[q], descendant[q], rst[q]>>
  BY <1>1 DEF PingNext, Authentifie, Sert, Demarrer, RecevoirDemande, RepondreAuth,
     RecevoirMessage, Executer, ForkRate, Attendre, Repondre, ServeurEnvoie,
     ServeurRetire, reseau, TypeReseau
<1>3. \A q \in Clients \ {s} : UNCHANGED <<pcS[q], recue[q]>>
  BY <1>1 DEF PingNext, Authentifie, Sert, Demarrer, RecevoirDemande, RepondreAuth,
     RecevoirMessage, Executer, ForkRate, Attendre, Repondre, SVa, TypeThreads
<1> QED
  BY <1>2, <1>3 DEF AilleursTour, clients

LEMMA PhaseSeule ==
  ASSUME NEW c \in Clients, AilleursTour(c), UNCHANGED vif
  PROVE  /\ Phases' = [Phases EXCEPT ![c] = PhaseDe(c)']
         /\ PhaseDe(c)' = PhaseDe(c) => Phases' = Phases
<1>1. \A q \in Clients \ {c} : PhaseDe(q)' = PhaseDe(q)
  BY DEF AilleursTour, PhaseDe
<1> QED
  BY <1>1 DEF Phases

LEMMA ServiceClient ==
  ASSUME ServiceInv, NEW c \in Clients, ClientNext(c), UNCHANGED <<fils, enfants>>
  PROVE  Etape /\ AdmisDe(c)'
<1> USE DEF Va, fils
<1>t. /\ TypeReseau /\ TypeClients /\ TypeThreads /\ EchangeDe(c) /\ AdmisDe(c)
      /\ Phases[c] = PhaseDe(c)
  BY Parts DEF ServiceInv, EchangeInv, Admis, Phases
<1>a. UNCHANGED vif /\ Phases' = [Phases EXCEPT ![c] = PhaseDe(c)']
      /\ (PhaseDe(c)' = PhaseDe(c) => Phases' = Phases)
  BY ClientAilleurs, PhaseSeule DEF ServiceInv
<1>1. CASE Connecter(c)
  <2>1. PhaseDe(c) = "auth" /\ PhaseDe(c)' \in {"auth", "parti"}
    BY <1>1, <1>t DEF Connecter, PhaseDe, TypeClients
  <2>2. Etape
    <3>1. UNCHANGED <<command, receive, identifies>>
      BY <1>1 DEF Connecter
    <3>2. CASE PhaseDe(c)' = "auth"
      BY <1>a, <2>1, <3>1, <3>2 DEF Etape
    <3>3. CASE PhaseDe(c)' = "parti"
      BY <1>t, <1>a, <2>1, <3>1, <3>3 DEF Phases, Etape, Service!RNext,
         Service!Partir
    <3> QED
      BY <2>1, <3>2, <3>3
  <2> QED
    BY <1>1, <1>t, <2>2 DEF Connecter, AdmisDe, TypeClients
<1>2. ASSUME NEW mdp \in MotsDePasse, EnvoyerMdp(c, mdp)
      PROVE  Etape /\ AdmisDe(c)'
  <2>1. PhaseDe(c) = "auth" /\ PhaseDe(c)' = "auth" /\ pcC'[c] = "attAuth"
    BY <1>2, <1>t DEF EnvoyerMdp, PhaseDe, TypeClients
  <2>2. UNCHANGED <<command, receive, authResult, descendant>>
        /\ identifies' = identifies \cup (IF mdp = "mdp" THEN {c} ELSE {})
        /\ pcC[c] = "motDePasse"
    BY <1>2 DEF EnvoyerMdp, ClientEnvoie
  <2>3. identifies' = identifies \/ identifies' = identifies \cup {c}
    BY <2>2
  <2>4. Etape
    BY <1>t, <1>a, <2>1, <2>2, <2>3 DEF Phases, Etape, Service!RNext, Service!Identifier
  <2>5. descendant[c] = <<>>
    BY <1>t, <2>2 DEF EchangeDe, Descente
  <2> QED
    BY <1>t, <2>1, <2>2, <2>4, <2>5 DEF AdmisDe
<1>3. CASE RecevoirAuth(c)
  <2> DEFINE r == ClientRecu(c, [h |-> authResult[c], x |-> ""])
  <2>1. /\ UNCHANGED <<command, receive, identifies>> /\ pcC[c] = "attAuth"
        /\ authResult' = [authResult EXCEPT ![c] = r.h]
        /\ pcC' = [pcC EXCEPT ![c] = IF r.h = SUCCESS THEN "commande"
                                     ELSE "motDePasse"]
    BY <1>3 DEF RecevoirAuth
  <2>2. r.h = SUCCESS => c \in identifies
    <3>1. CASE descendant[c] = <<>>
      BY <1>t, <2>1, <3>1 DEF ClientRecu, AdmisDe
    <3>2. CASE descendant[c] = <<Reponse(FAILURE)>>
      <4>1. r = Reponse(FAILURE)
        BY <3>2 DEF ClientRecu
      <4> QED
        BY <4>1, Reponses
    <3>3. CASE descendant[c] = <<Reponse(SUCCESS)>>
      BY <1>t, <2>1, <3>3 DEF AdmisDe
    <3> QED
      BY <1>t, <2>1, <3>1, <3>2, <3>3 DEF EchangeDe, Descente
  <2> HIDE DEF r
  <2>3. PhaseDe(c) = "auth"
        /\ PhaseDe(c)' = IF r.h = SUCCESS THEN "pret" ELSE "auth"
    BY <1>t, <2>1 DEF PhaseDe, TypeClients
  <2>4. Etape
    BY <1>t, <1>a, <2>1, <2>2, <2>3 DEF Phases, Etape, Service!RNext, Service!Admettre,
       Service!Passe
  <2> QED
    BY <1>t, <2>1, <2>4 DEF AdmisDe, TypeClients
<1>4. ASSUME NEW x \in Commandes, EnvoyerCommande(c, x)
      PROVE  Etape /\ AdmisDe(c)'
  <2>1. /\ UNCHANGED <<descendant, pcS, receive, identifies>>
        /\ pcC[c] = "commande" /\ pcC' = [pcC EXCEPT ![c] = "attReponse"]
        /\ command' = [command EXCEPT ![c] = x]
    BY <1>4 DEF EnvoyerCommande, ClientEnvoie
  <2>2. descendant[c] = <<>> /\ (vif => pcS[c] = "session")
    BY <1>t, <2>1 DEF EchangeDe, Descente, Tour, TourCommande
  <2>3. PhaseDe(c) = "pret" /\ PhaseDe(c)' = "demande" /\ pcC'[c] = "attReponse"
    BY <1>t, <1>a, <2>1, <2>2 DEF PhaseDe, TypeClients
  <2>4. Etape
    BY <1>t, <1>a, <2>1, <2>3 DEF Phases, Etape, Service!RNext, Service!Demander,
       Service!Passe
  <2> QED
    BY <2>3, <2>4 DEF AdmisDe
<1>5. CASE RecevoirReponse(c)
  <2> DEFINE r == ClientRecu(c, Message(receive[c]))
  <2>1. /\ UNCHANGED <<command, identifies>>
        /\ descendant[c] # <<>> \/ ~vif
        /\ receive' = [receive EXCEPT ![c] = r.x]
        /\ pcC[c] = "attReponse" /\ pcC' = [pcC EXCEPT ![c] = "commande"]
    BY <1>5 DEF RecevoirReponse, ClientPeutRecevoir
  <2>2. PhaseDe(c)' = "pret" /\ pcC'[c] = "commande"
    BY <1>t, <2>1 DEF PhaseDe, TypeClients
  <2>3. ASSUME descendant[c] # <<>> PROVE Etape
    <3>1. PhaseDe(c) = "traite"
      BY <2>1, <2>3 DEF PhaseDe
    <3>2. r = Message(command[c])
      BY <1>t, <2>1, <2>3 DEF EchangeDe, Descente, ClientRecu
    <3>3. receive' = [receive EXCEPT ![c] = command[c]]
      BY <2>1, <3>2, Reponses
    <3> QED
      BY <1>t, <1>a, <2>1, <2>2, <3>1, <3>3 DEF Phases, Etape, Service!RNext,
         Service!Repondre, Service!Passe
  <2>4. ASSUME descendant[c] = <<>> PROVE Etape
    <3>1. PhaseDe(c) = "demande" /\ ~vif
      BY <2>1, <2>4 DEF PhaseDe
    <3>2. r.x = receive[c]
      BY <2>4, Reponses DEF ClientRecu
    <3>3. receive' = receive
      BY <1>t, <2>1, <3>2 DEF TypeClients
    <3> QED
      BY <1>t, <1>a, <2>1, <2>2, <3>1, <3>3 DEF Phases, Etape, Service!RNext,
         Service!Abandonner, Service!Passe
  <2> QED
    BY <2>2, <2>3, <2>4 DEF AdmisDe
<1>6. ASSUME EnvoyerExit(c) \/ Fermer(c) \/ Mourir(c)
      PROVE  Etape /\ AdmisDe(c)'
  <2>1. /\ UNCHANGED <<command, receive, identifies>>
        /\ pcC'[c] \in {"ferme", "fini"}
    BY <1>6, <1>t DEF EnvoyerExit, Fermer, Mourir, TypeClients
  <2>2. PhaseDe(c)' = "parti"
    BY <2>1 DEF PhaseDe
  <2>3. Etape
    BY <1>t, <1>a, <2>1, <2>2 DEF Phases, Etape, Service!RNext, Service!Partir
  <2> QED
    BY <2>1, <2>3 DEF AdmisDe
<1> QED
  BY <1>1, <1>2, <1>3, <1>4, <1>5, <1>6 DEF ClientNext
\* A thread that does not send: only the start of a wait is seen.
LEMMA ServiceSansEnvoi ==
  ASSUME ServiceInv, NEW s \in Clients, PingNext(s), UNCHANGED clients,
         UNCHANGED <<descendant, vif>>, vif
  PROVE  Etape /\ AdmisDe(s)'
<1> USE DEF clients
<1>t. /\ TypeReseau /\ TypeClients /\ TypeThreads /\ EchangeDe(s) /\ AdmisDe(s)
      /\ Phases[s] = PhaseDe(s) /\ EchangeDe(s)' /\ EchangeInv
  <2>1. EchangeInv'
    BY EchangeThread DEF ServiceInv, AuthInv, AuthDe
  <2> QED
    BY <2>1, Parts DEF ServiceInv, EchangeInv, Admis, Phases
<1>a. /\ Phases' = [Phases EXCEPT ![s] = PhaseDe(s)']
      /\ PhaseDe(s)' = PhaseDe(s) => Phases' = Phases
  BY <1>t, ThreadAilleurs, PhaseSeule
<1>1. AdmisDe(s)'
  BY <1>t DEF AdmisDe
<1>2. CASE pcC[s] = "attReponse" /\ descendant[s] = <<>>
  <2>1. PhaseDe(s) = IF pcS[s] \in {"attente", "reponse"} THEN "traite" ELSE "demande"
    BY <1>2 DEF PhaseDe
  <2>2. PhaseDe(s)' = IF pcS'[s] \in {"attente", "reponse"} THEN "traite" ELSE "demande"
    BY <1>2 DEF PhaseDe
  <2>3. pcS[s] \in {"attente", "reponse"} => pcS'[s] \in {"attente", "reponse"}
    <3>4. pcS[s] = "attente" => pcS'[s] = "reponse"
      BY <1>t DEF PingNext, Authentifie, Sert, Demarrer, RecevoirDemande,
         RepondreAuth, RecevoirMessage, Executer, ForkRate, Attendre, Repondre,
         SVa, TypeThreads
    <3>5. ASSUME pcS[s] = "reponse" PROVE FALSE
      <4>1. Repondre(s)
        BY <3>5 DEF PingNext, Authentifie, Sert, Demarrer, RecevoirDemande,
           RepondreAuth, RecevoirMessage, Executer, ForkRate, Attendre
      <4>2. pcS'[s] = "session" /\ Rien(s)
        BY <1>2, <1>t, <3>5, <4>1 DEF Repondre, SVa, TypeThreads, EchangeDe,
           Tour, TourCommande
      <4>3. montant'[s] = <<>>
        BY <4>1, <4>2 DEF Repondre, ServeurEnvoie, Rien
      <4> QED
        BY <1>2, <1>t, <4>2, <4>3 DEF EchangeDe, Tour, TourCommande, EnMain, Rien
    <3> QED
      BY <3>4, <3>5
  <2>4. \/ PhaseDe(s)' = PhaseDe(s)
        \/ PhaseDe(s) = "demande" /\ PhaseDe(s)' = "traite"
    BY <2>1, <2>2, <2>3
  <2>5. ASSUME PhaseDe(s)' = PhaseDe(s) PROVE Etape
    BY <1>a, <2>5 DEF Etape
  <2>6. ASSUME PhaseDe(s) = "demande", PhaseDe(s)' = "traite" PROVE Etape
    BY <1>t, <1>a, <2>6 DEF Phases, Etape, Service!RNext, Service!Traiter,
       Service!Passe
  <2> QED
    BY <1>1, <2>4, <2>5, <2>6
<1>3. CASE pcC[s] # "attReponse" \/ descendant[s] # <<>>
  <2>1. PhaseDe(s)' = PhaseDe(s)
    BY <1>3 DEF PhaseDe
  <2> QED
    BY <1>1, <1>a, <2>1 DEF Etape
<1> QED
  BY <1>2, <1>3

(* A thread that sends: the command it answers was handled; or SIGPIPE     *)
(* takes with the daemon what it had handled.                              *)
LEMMA ServiceEnvoi ==
  ASSUME ServiceInv, NEW s \in Clients, PingNext(s), UNCHANGED clients,
         RepondreAuth(s) \/ Repondre(s)
  PROVE  Etape /\ AdmisDe(s)'
<1> USE DEF clients
<1>t. /\ TypeReseau /\ TypeClients /\ TypeThreads /\ EchangeDe(s) /\ AdmisDe(s)
      /\ Phases[s] = PhaseDe(s) /\ EchangeInv /\ AuthDe(s) /\ vif
  BY Parts DEF ServiceInv, EchangeInv, Admis, Phases, AuthInv, RepondreAuth, Repondre
<1>h. AilleursTour(s)
  BY <1>t, ThreadAilleurs
<1> DEFINE m == IF pcS[s] = "repAuth"
                THEN Reponse(IF succes[s] THEN SUCCESS ELSE FAILURE)
                ELSE recue[s]
<1>m. ServeurEnvoie(s, m) /\ (pcS[s] = "repAuth" \/ pcS[s] = "reponse")
      /\ pcS'[s] \in {"auth", "session"}
  BY <1>t DEF RepondreAuth, Repondre, Reponse, SVa, TypeThreads
<1>n. pcS[s] = "repAuth" /\ m = Reponse(SUCCESS) => succes[s]
  BY Reponses
<1> HIDE DEF m
<1>1. CASE /\ ouvert[s] /\ descendant' = [descendant EXCEPT ![s] = Append(@, m)]
           /\ UNCHANGED vif
  <2>1. descendant'[s] = Append(descendant[s], m)
    BY <1>1, <1>t DEF TypeReseau
  <2>2. AdmisDe(s)'
    <3>1. SUFFICES ASSUME pcC[s] = "attAuth", descendant'[s] = <<Reponse(SUCCESS)>>
                   PROVE  s \in identifies
      BY <1>t DEF AdmisDe
    <3>2. pcS[s] = "repAuth" /\ descendant[s] = <<>>
      BY <1>m, <1>t, <3>1 DEF EchangeDe, Tour, TourAuth, Rien
    <3>3. m = Reponse(SUCCESS)
      <4>1. Append(<<>>, m) = <<Reponse(SUCCESS)>>
        BY <2>1, <3>1, <3>2
      <4> QED
        BY <4>1
    <3> QED
      BY <1>n, <1>1, <1>t, <3>2, <3>3 DEF AuthDe, Reconnu
  <2>3. PhaseDe(s)' = PhaseDe(s)
    <3>1. CASE pcC[s] = "attReponse"
      <4>1. pcS[s] = "reponse" /\ descendant[s] = <<>>
        BY <1>m, <1>t, <3>1 DEF EchangeDe, Tour, TourCommande, EnMain, Rien
      <4>2. descendant'[s] # <<>>
        BY <2>1, <4>1
      <4> QED
        BY <1>t, <3>1, <4>1, <4>2 DEF PhaseDe
    <3>2. CASE pcC[s] # "attReponse"
      BY <3>2 DEF PhaseDe
    <3> QED
      BY <3>1, <3>2
  <2>4. Phases' = Phases
    BY <1>h, <1>1, <2>3, PhaseSeule
  <2> QED
    BY <1>1, <2>2, <2>4 DEF Etape
<1>2. CASE ~ouvert[s] /\ UNCHANGED <<descendant, vif>>
  <2>1. pcC[s] \in {"dehors", "fini"}
    BY <1>2, <1>t DEF AuthDe, Connexions
  <2>2. PhaseDe(s)' = PhaseDe(s)
    BY <2>1 DEF PhaseDe
  <2>3. Phases' = Phases
    BY <1>h, <1>2, <2>2, PhaseSeule
  <2> QED
    BY <1>2, <1>t, <2>3 DEF Etape, AdmisDe
<1>3. CASE vif' = FALSE /\ UNCHANGED descendant
  <2> DEFINE perdus == {c \in Clients : /\ PhaseDe(c) = "traite"
                                        /\ descendant[c] = <<>>}
  <2>1. perdus \in SUBSET {c \in Clients : Phases[c] = "traite"}
    BY DEF Phases
  <2>2. ASSUME NEW c \in Clients
        PROVE  PhaseDe(c)' = IF c \in perdus THEN "demande" ELSE Phases[c]
    <3>1. Phases[c] = PhaseDe(c)
      BY DEF Phases
    <3>2. CASE pcC[c] = "attReponse"
      <4>1. CASE descendant[c] = <<>>
        BY <1>3, <3>1, <3>2, <4>1 DEF PhaseDe
      <4>2. CASE descendant[c] # <<>>
        BY <1>3, <3>1, <3>2, <4>2 DEF PhaseDe
      <4> QED
        BY <4>1, <4>2
    <3>3. CASE pcC[c] # "attReponse"
      BY <3>1, <3>3 DEF PhaseDe
    <3> QED
      BY <3>2, <3>3
  <2> HIDE DEF perdus
  <2>3. Phases' = [c \in Clients |-> IF c \in perdus THEN "demande" ELSE Phases[c]]
    BY <2>2 DEF Phases
  <2>4. Service!Perdre
    BY <1>3, <2>1, <2>3 DEF Phases, Service!Perdre
  <2> QED
    BY <1>3, <1>t, <2>4 DEF Etape, Service!RNext, AdmisDe
<1> QED
  BY <1>m, <1>1, <1>2, <1>3 DEF ServeurEnvoie

LEMMA ServiceSuite ==
  ASSUME ServiceInv, [Next]_vars
  PROVE  Etape /\ ServiceInv'
<1>0. EchangeInv' /\ AuthInv'
  BY EchangeSuite, AuthSuite DEF ServiceInv
<1>a. ASSUME NEW s \in Clients, AdmisDe(s)', AilleursTour(s),
             \A q \in Clients \ {s} : UNCHANGED authResult[q],
             identifies \subseteq identifies'
      PROVE  Admis'
  BY <1>a DEF AilleursTour, ServiceInv, Admis, AdmisDe
<1>1. ASSUME NEW c \in Clients, ClientStep(c) PROVE Etape /\ Admis'
  <2>1. ClientNext(c) /\ UNCHANGED <<fils, enfants>>
    BY <1>1 DEF ClientStep
  <2>2. AilleursTour(c) /\ Etape /\ AdmisDe(c)'
    BY <2>1, ClientAilleurs, ServiceClient DEF ServiceInv
  <2>3. identifies \subseteq identifies'
        /\ \A q \in Clients \ {c} : UNCHANGED authResult[q]
    <3>1. TypeClients
      BY Parts DEF ServiceInv, EchangeInv
    <3> QED
      BY <2>1, <3>1 DEF ClientNext, Connecter, EnvoyerMdp, RecevoirAuth,
         EnvoyerCommande, RecevoirReponse, EnvoyerExit, Fermer, Mourir, TypeClients
  <2> QED
    BY <1>a, <2>2, <2>3
<1>2. ASSUME NEW s \in Clients, ThreadStep(s) PROVE Etape /\ Admis'
  <2>1. PingNext(s) /\ UNCHANGED clients
    BY <1>2 DEF ThreadStep
  <2>2. AilleursTour(s)
    BY <2>1, ThreadAilleurs DEF ServiceInv
  <2>3. \/ RepondreAuth(s) \/ Repondre(s)
        \/ UNCHANGED <<descendant, vif>> /\ vif
    BY <2>1 DEF PingNext, Authentifie, Sert, Demarrer, RecevoirDemande,
       RecevoirMessage, Executer, ForkRate, Attendre, ServeurRetire, reseau
  <2>4. Etape /\ AdmisDe(s)'
    BY <2>1, <2>3, ServiceSansEnvoi, ServiceEnvoi
  <2> QED
    BY <1>a, <2>1, <2>2, <2>4 DEF clients
<1>3. ASSUME UNCHANGED <<reseau, clients, fils>> PROVE Etape /\ Admis'
  <2>1. \A c \in Clients : PhaseDe(c)' = PhaseDe(c)
    BY <1>3 DEF PhaseDe, reseau, clients, fils
  <2>2. Phases' = Phases
    BY <2>1 DEF Phases
  <2> QED
    BY <1>3, <2>2 DEF Etape, Admis, AdmisDe, ServiceInv, reseau, clients
<1> QED
  BY <1>0, <1>1, <1>2, <1>3
  DEF Next, EnfantStep, Finir, Repos, vars, ServiceInv

(* For every instance, the clients and the daemon together keep the        *)
(* promise of RemoteExec: nothing is accepted before the password, each    *)
(* command is handled before its answer, and the answer is to that command.*)
THEOREM RendLeService == Spec => RendService
<1>1. Init => Service!RInit /\ ServiceInv
  <2> SUFFICES ASSUME Init PROVE Service!RInit /\ Admis
    BY EchangeDebut, AuthDebut DEF ServiceInv
  <2>1. \A c \in Clients : PhaseDe(c) = "auth"
    BY DEF Init, ClientInit, PhaseDe
  <2>2. Admis
    <3>1. \A c \in Clients : pcC[c] = "dehors" /\ authResult[c] = 0
      BY DEF Init, ClientInit
    <3>2. 0 # SUCCESS
      BY DEF SUCCESS
    <3> QED
      BY <3>1, <3>2 DEF Admis, AdmisDe
  <2> QED
    BY <2>1, <2>2 DEF Init, ClientInit, ReseauInit, Service!RInit
<1>2. ServiceInv /\ [Next]_vars => ServiceInv' /\ [Service!RNext]_(Service!rvars)
  BY ServiceSuite DEF Etape, Phases, Service!rvars
<1> QED
  BY <1>1, <1>2, PTL DEF Spec, RendService, Service!RSpec
=============================================================================
